---------------------- MODULE RealCryptoBackendProofs ----------------------
(***************************************************************************)
(* Theorems of RealCryptoBackend for any calls, keys, entries and key ids  *)
(* of any number of lines.                                                 *)
(***************************************************************************)
EXTENDS RealCryptoBackend, VerificationErrorsProofs, SequenceTheorems, FiniteSetTheorems

-----------------------------------------------------------------------------
(* The message. *)

LEMMA WiderSeq ==
    ASSUME NEW S, NEW T, S \subseteq T, NEW s \in Seq(S)
    PROVE  s \in Seq(T)
OBVIOUS

\* Where the fields are in the message.
LEMMA MessageLines ==
    ASSUME NEW f \in Fields, f.version \in KeyVersions
    PROVE  LET m == SignatureInput(f) IN
           /\ Len(m) = 6 + Len(f.keyId)
           /\ m[2] = f.domain /\ m[3] = f.hash /\ m[4] = f.algorithm /\ m[5] = f.profile
           /\ \A i \in 1..Len(f.keyId) : m[5 + i] = f.keyId[i]
           /\ m[6 + Len(f.keyId)] = Decimal(f.version)
<1> DEFINE h == <<PREFIX, f.domain, f.hash, f.algorithm, f.profile>>
           b == h \o f.keyId
           l == <<Decimal(f.version)>>
           m == SignatureInput(f)
           Texts == STRING \cup {PREFIX}
<1>1. h \in Seq(Texts)
  <2>1. /\ PREFIX \in Texts /\ f.domain \in Texts /\ f.hash \in Texts
        /\ f.algorithm \in Texts /\ f.profile \in Texts
    BY DEF Fields
  <2> HIDE DEF Texts
  <2> QED
    BY <2>1
<1>2. f.keyId \in Seq(Texts)
  BY WiderSeq DEF Fields
<1>3. l \in Seq(Texts)
  <2>1. Decimal(f.version) \in Texts
    BY DecimalAssumption, Zenon
  <2> HIDE DEF Texts
  <2> QED
    BY <2>1
<1>4. /\ Len(h) = 5 /\ Len(l) = 1 /\ l[1] = Decimal(f.version)
      /\ h[2] = f.domain /\ h[3] = f.hash /\ h[4] = f.algorithm /\ h[5] = f.profile
  OBVIOUS
<1>5. m = b \o l
  BY DEF SignatureInput
<1> HIDE DEF h, l, m, Texts
<1>6. b \in Seq(Texts)
  BY <1>1, <1>2
<1>7. /\ Len(b) = Len(h) + Len(f.keyId)
      /\ \A i \in 1..Len(h) : b[i] = h[i]
      /\ \A i \in 1..Len(f.keyId) : b[Len(h) + i] = f.keyId[i]
  BY <1>1, <1>2
<1> HIDE DEF b
<1>8. /\ Len(b \o l) = Len(b) + Len(l)
      /\ \A i \in 1..Len(b) : (b \o l)[i] = b[i]
      /\ \A i \in 1..Len(l) : (b \o l)[Len(b) + i] = l[i]
  BY <1>3, <1>6
<1>9. Len(f.keyId) \in Nat
  BY <1>2
<1>10. Len(m) = 6 + Len(f.keyId)
  BY <1>4, <1>5, <1>7, <1>8, <1>9
<1>11. \A i \in 1..5 : m[i] = h[i]
  BY <1>4, <1>5, <1>7, <1>8, <1>9, SMTT(30)
<1>12. \A i \in 1..Len(f.keyId) : m[5 + i] = f.keyId[i]
  BY <1>4, <1>5, <1>7, <1>8, <1>9, SMTT(30)
<1>13. m[6 + Len(f.keyId)] = Decimal(f.version)
  <2>1. m[Len(b) + 1] = l[1]
    BY <1>4, <1>5, <1>8
  <2>2. Len(b) + 1 = 6 + Len(f.keyId)
    BY <1>4, <1>7, <1>9
  <2> QED
    BY <1>4, <2>1, <2>2
<1> QED
  BY <1>4, <1>10, <1>11, <1>12, <1>13 DEF m

\* The message determines its fields: a key id may have lines of its own, and
\* still no two different sets of fields make the same message
\* (real_crypto_backend.py:226-236).
THEOREM SignatureInputInjective ==
    ASSUME NEW f \in Fields, NEW g \in Fields,
           f.version \in KeyVersions, g.version \in KeyVersions,
           SignatureInput(f) = SignatureInput(g)
    PROVE  f = g
<1>1. f.keyId \in Seq(STRING) /\ g.keyId \in Seq(STRING)
  BY DEF Fields
<1>2. Len(f.keyId) \in Nat /\ Len(g.keyId) \in Nat
  BY <1>1
<1>3. Len(f.keyId) = Len(g.keyId)
  BY <1>2, MessageLines
<1>4. f.keyId = g.keyId
  <2>1. \A i \in 1..Len(f.keyId) : f.keyId[i] = g.keyId[i]
    <3> TAKE i \in 1..Len(f.keyId)
    <3>1. SignatureInput(f)[5 + i] = f.keyId[i]
      BY MessageLines
    <3>2. SignatureInput(g)[5 + i] = g.keyId[i]
      BY <1>3, MessageLines
    <3> QED
      BY <3>1, <3>2
  <2> QED
    BY <1>1, <1>3, <2>1, SeqEqual
<1>5. f.version = g.version
  <2>1. Decimal(f.version) = Decimal(g.version)
    BY <1>3, MessageLines
  <2> QED
    BY <2>1, DecimalAssumption, Zenon
<1>6. f.domain = g.domain /\ f.hash = g.hash /\ f.algorithm = g.algorithm
      /\ f.profile = g.profile
  BY MessageLines
<1> QED
  BY <1>4, <1>5, <1>6 DEF Fields
-----------------------------------------------------------------------------
(* The inductive invariant.                                                 *)

Bound(f) == f \in Fields /\ f.version \in KeyVersions

\* Every signature text is over the fields of something natively signed.
Accounted ==
    \A s \in signatures : \E g \in signed :
        /\ g = [by |-> s.by, fields |-> g.fields]
        /\ Bound(g.fields)
        /\ s.message = SignatureInput(g.fields)

Known == signatures \cup ForgedSignatures

\* The error of a request about the fields f is of the adapter's hierarchy, or
\* f's key id cannot be encoded.
Expected(error, f) ==
    \/ error \in FailClosed
    \/ error = EncodeError /\ f.keyId \in Unencodable

Ended(c) ==
    pc[c] = "done" => \/ answer[c] \in {Entry, True, False}
                      \/ Expected(answer[c], read[c].fields)

SigningInv(c) ==
    /\ Ended(c)
    /\ pc[c] \in {"resolve", "discover", "native"} => Bound(read[c].fields)

VerifyingInv(c) ==
    /\ Ended(c)
    /\ pc[c] = "read" =>
           /\ job[c].key \in Keys
           /\ \A e \in job[c].held : e.fields \in Fields /\ e.signature \in Known
    /\ pc[c] \in {"discover", "native"} =>
           /\ job[c].key \in Keys
           /\ Bound(read[c].fields)
           /\ read[c].signature \in Known
           /\ NamesKey(read[c].fields, job[c].key)
    /\ answer[c] = True =>
           /\ pc[c] = "done"
           /\ read[c].fields.algorithm = job[c].key.algorithm
           /\ read[c].fields.keyId = job[c].key.keyId
           /\ read[c].fields.version = job[c].key.version
           /\ [by |-> job[c].key.public.holder, fields |-> read[c].fields] \in signed

Shape ==
    /\ DOMAIN pc = Calls /\ DOMAIN job = Calls /\ DOMAIN read = Calls
    /\ DOMAIN answer = Calls

SplicingInv ==
    /\ Shape
    /\ Accounted
    /\ \A c \in SigningCalls : SigningInv(c)
    /\ \A c \in VerifyingCalls : VerifyingInv(c)

-----------------------------------------------------------------------------
(* What the checks let through. *)

LEMMA SignRequestChecked ==
    ASSUME NEW j \in SignJobs, SignRequestError(j) = NoError
    PROVE  Bound(j.fields)
<1> DEFINE checks == <<
        Check(WellFormed(j.fields), Failure),
        EncodingError(j.fields),
        ReferenceError(j.reference),
        SupportError(j.backend, j.fields.algorithm) >>
<1>1. DOMAIN checks = 1..4 /\ checks[1] = Check(WellFormed(j.fields), Failure)
  OBVIOUS
<1>2. FirstError(checks) = NoError
  BY DEF SignRequestError
<1>3. checks[1] = NoError
  <2> HIDE DEF checks
  <2> QED
    BY <1>1, <1>2, PassedChecks
<1>4. WellFormed(j.fields)
  BY <1>1, <1>3 DEF Check, NoError, Failure
<1> QED
  BY <1>4, FieldsAssumption DEF Bound, WellFormed

LEMMA VerifyRequestChecked ==
    ASSUME NEW first, NEW f \in Fields, NEW key, NEW backend,
           VerifyRequestError(first, f, key, backend) = NoError
    PROVE  Bound(f) /\ NamesKey(f, key)
<1> DEFINE checks == <<
        Check(BoundedText(first) /\ BoundedText(key.public), Failure),
        KeyMaterialError(key),
        Check(Decodes(first) /\ Decodes(key.public), Failure),
        Check(f.algorithm \in Algorithms /\ f.profile \in StandardProfiles[f.algorithm], Failure),
        Check(NamesKey(f, key), Failure),
        SupportError(backend, f.algorithm),
        Check(WellFormed(f), Failure),
        EncodingError(f) >>
<1>1. /\ DOMAIN checks = 1..8
      /\ checks[5] = Check(NamesKey(f, key), Failure)
      /\ checks[7] = Check(WellFormed(f), Failure)
  OBVIOUS
<1>2. FirstError(checks) = NoError
  BY DEF VerifyRequestError
<1>3. checks[5] = NoError /\ checks[7] = NoError
  <2> HIDE DEF checks
  <2> QED
    BY <1>1, <1>2, PassedChecks
<1>4. NamesKey(f, key) /\ WellFormed(f)
  BY <1>1, <1>3 DEF Check, NoError, Failure
<1> QED
  BY <1>4 DEF Bound, WellFormed
LEMMA CheckExpected ==
    ASSUME NEW holds, NEW words \in FailClosed, NEW f, Check(holds, words) # NoError
    PROVE  Expected(Check(holds, words), f)
BY DEF Check, Expected

LEMMA EncodingExpected ==
    ASSUME NEW f, EncodingError(f) # NoError
    PROVE  Expected(EncodingError(f), f)
BY DEF EncodingError, Check, Expected

LEMMA ReferenceExpected ==
    ASSUME NEW reference, NEW f, ReferenceError(reference) # NoError
    PROVE  Expected(ReferenceError(reference), f)
<1> DEFINE checks == << Check(reference # <<>>, Failure), Check(reference \notin TestOnly, Material) >>
<1>1. DOMAIN checks = 1..2 /\ \A i \in 1..2 : checks[i] # NoError => Expected(checks[i], f)
  BY CheckExpected DEF FailClosed
<1>2. ReferenceError(reference) = FirstError(checks)
  BY DEF ReferenceError
<1> HIDE DEF checks
<1> QED
  BY <1>1, <1>2, FirstErrorIsSomeError

LEMMA SignRequestExpected ==
    ASSUME NEW j, SignRequestError(j) # NoError
    PROVE  Expected(SignRequestError(j), j.fields)
<1> DEFINE checks == <<
        Check(WellFormed(j.fields), Failure),
        EncodingError(j.fields),
        ReferenceError(j.reference),
        SupportError(j.backend, j.fields.algorithm) >>
<1>1. DOMAIN checks = 1..4
  OBVIOUS
<1>2. \A i \in 1..4 : checks[i] # NoError => Expected(checks[i], j.fields)
  BY CheckExpected, EncodingExpected, ReferenceExpected DEF FailClosed, SupportError
<1>3. SignRequestError(j) = FirstError(checks)
  BY DEF SignRequestError
<1> HIDE DEF checks
<1> QED
  BY <1>1, <1>2, <1>3, FirstErrorIsSomeError

LEMMA VerifyRequestExpected ==
    ASSUME NEW first, NEW f, NEW key, NEW backend,
           VerifyRequestError(first, f, key, backend) # NoError
    PROVE  Expected(VerifyRequestError(first, f, key, backend), f)
<1> DEFINE checks == <<
        Check(BoundedText(first) /\ BoundedText(key.public), Failure),
        KeyMaterialError(key),
        Check(Decodes(first) /\ Decodes(key.public), Failure),
        Check(f.algorithm \in Algorithms /\ f.profile \in StandardProfiles[f.algorithm], Failure),
        Check(NamesKey(f, key), Failure),
        SupportError(backend, f.algorithm),
        Check(WellFormed(f), Failure),
        EncodingError(f) >>
<1>1. DOMAIN checks = 1..8
  OBVIOUS
<1>2. \A i \in 1..8 : checks[i] # NoError => Expected(checks[i], f)
  BY CheckExpected, EncodingExpected DEF FailClosed, SupportError, KeyMaterialError
<1>3. VerifyRequestError(first, f, key, backend) = FirstError(checks)
  BY DEF VerifyRequestError
<1> HIDE DEF checks
<1> QED
  BY <1>1, <1>2, <1>3, FirstErrorIsSomeError

LEMMA MixtureTyped ==
    ASSUME NEW held, \A e \in held : e.fields \in Fields,
           NEW from \in [FieldNames -> held]
    PROVE  [domain |-> from.domain.fields.domain, hash |-> from.hash.fields.hash,
            algorithm |-> from.algorithm.fields.algorithm,
            profile |-> from.profile.fields.profile,
            keyId |-> from.keyId.fields.keyId, version |-> from.version.fields.version]
           \in Fields
<1>1. /\ from.domain.fields \in Fields /\ from.hash.fields \in Fields
      /\ from.algorithm.fields \in Fields /\ from.profile.fields \in Fields
      /\ from.keyId.fields \in Fields /\ from.version.fields \in Fields
  BY DEF FieldNames
<1> QED
  BY <1>1 DEF Fields

-----------------------------------------------------------------------------
(* Every step keeps the invariant. *)

Only(c) ==
    \A d \in Calls \ {c} :
        pc'[d] = pc[d] /\ job'[d] = job[d] /\ read'[d] = read[d] /\ answer'[d] = answer[d]

\* What reading an entry moves, whatever the fields read.
LEMMA ReadEntryFrame ==
    ASSUME NEW c, ReadEntry(c)
    PROVE  /\ \E x : read' = [read EXCEPT ![c] = x]
           /\ \E place \in Places : pc' = [pc EXCEPT ![c] = place]
           /\ answer' = answer \/ \E x : answer' = [answer EXCEPT ![c] = x]
           /\ UNCHANGED <<vault, job, secret, signatures, signed, fault>>
<1> DEFINE next == IF job[c].backend \in OqsAlgorithms THEN "discover" ELSE "native"
<1>1. UNCHANGED <<vault, job, secret, signatures, signed, fault>>
  <2>1. ReadEntry(c) => UNCHANGED <<vault, job, secret, signatures, signed, fault>>
    BY Zenon DEF ReadEntry
  <2> QED
    BY <2>1
<1>2. \E x, error : /\ read' = [read EXCEPT ![c] = x]
                    /\ IF error # NoError THEN End(c, error) ELSE Proceed(c, next)
  BY ZenonT(30) DEF ReadEntry
<1>3. PICK x, error : /\ read' = [read EXCEPT ![c] = x]
                      /\ IF error # NoError THEN End(c, error) ELSE Proceed(c, next)
  BY <1>2, Zenon
<1> QED
  BY <1>1, <1>3 DEF End, Proceed, Places

\* What a step of one call leaves of the others.
LEMMA OthersKept ==
    ASSUME NEW c \in Calls, NEW d \in Calls, d # c, Only(c),
           signatures \subseteq signatures', signed \subseteq signed'
    PROVE  /\ SigningInv(d) => SigningInv(d)'
           /\ VerifyingInv(d) => VerifyingInv(d)'
<1>1. pc'[d] = pc[d] /\ job'[d] = job[d] /\ read'[d] = read[d] /\ answer'[d] = answer[d]
  BY DEF Only
<1>2. SigningInv(d) => SigningInv(d)'
  BY <1>1 DEF SigningInv, Ended
<1>3. VerifyingInv(d) => VerifyingInv(d)'
  BY <1>1 DEF VerifyingInv, Known, Ended
<1> QED
  BY <1>2, <1>3

LEMMA InitSplicing == Init => SplicingInv
BY DEF Init, SplicingInv, Shape, Accounted, SigningInv, VerifyingInv, Ended, True, Calls

LEMMA SigningStep ==
    ASSUME SplicingInv, NEW c \in SigningCalls,
           RequestSignature(c) \/ ResolvePrivateKey(c) \/ NativeSign(c) \/ DiscoverMechanism(c)
    PROVE  SplicingInv'
<1>0. c \in Calls /\ c \notin VerifyingCalls
  BY DeploymentAssumption DEF Calls
<1>1. CASE RequestSignature(c)
  <2>1. PICK j \in SignJobs :
          /\ read' = [read EXCEPT ![c] = [fields |-> j.fields]]
          /\ \/ /\ SignRequestError(j) # NoError
                /\ End(c, SignRequestError(j))
             \/ /\ SignRequestError(j) = NoError
                /\ Proceed(c, IF j.backend \in OqsAlgorithms THEN "resolve" ELSE "native")
          /\ job' = [job EXCEPT ![c] = [reference |-> j.reference, backend |-> j.backend]]
    BY <1>1 DEF RequestSignature
  <2>2. signatures' = signatures /\ signed' = signed
    BY <1>1 DEF RequestSignature
  <2>3. Shape' /\ Only(c)
    BY <1>0, <2>1 DEF SplicingInv, Shape, Only, End, Proceed
  <2>4. SigningInv(c)'
    <3>1. read'[c].fields = j.fields
      BY <1>0, <2>1 DEF SplicingInv, Shape
    <3>2. CASE SignRequestError(j) # NoError
      <4>1. pc'[c] = "done" /\ answer'[c] = SignRequestError(j)
        BY <1>0, <2>1, <3>2 DEF SplicingInv, Shape, End
      <4> QED
        BY <3>1, <3>2, <4>1, SignRequestExpected DEF SigningInv, Ended, Expected
    <3>3. CASE SignRequestError(j) = NoError
      <4>1. pc'[c] \in {"resolve", "native"}
        BY <1>0, <2>1, <3>3 DEF SplicingInv, Shape, Proceed
      <4> QED
        BY <3>1, <3>3, <4>1, SignRequestChecked DEF SigningInv, Ended, Bound
    <3> QED
      BY <3>2, <3>3
  <2> QED
    BY <1>0, <2>2, <2>3, <2>4, OthersKept DEF SplicingInv, Accounted, Calls
<1>2. CASE ResolvePrivateKey(c) \/ DiscoverMechanism(c)
  <2>1. /\ signatures' = signatures /\ signed' = signed /\ job' = job /\ read' = read
        /\ pc[c] \in {"resolve", "discover"}
        /\ \E place \in Places : pc' = [pc EXCEPT ![c] = place]
        /\ answer' = answer \/ \E a : answer' = [answer EXCEPT ![c] = a]
    BY <1>2 DEF ResolvePrivateKey, DiscoverMechanism, Proceed, Fail, End, Places
  <2>2. Shape' /\ Only(c)
    BY <1>0, <2>1 DEF SplicingInv, Shape, Only
  <2>3. SigningInv(c)'
    <3>1. \/ pc'[c] # "done"
          \/ answer'[c] \in {Failure, Unavailable}
      BY <1>0, <1>2 DEF ResolvePrivateKey, DiscoverMechanism, Proceed, Fail, End, SplicingInv,
                        Shape
    <3> QED
      BY <2>1, <3>1 DEF SplicingInv, SigningInv, Bound, Ended, Expected, FailClosed
  <2> QED
    BY <1>0, <2>1, <2>2, <2>3, OthersKept DEF SplicingInv, Accounted, Calls
<1>3. CASE NativeSign(c)
  <2>1. /\ job' = job /\ read' = read /\ pc[c] = "native"
        /\ pc' = [pc EXCEPT ![c] = "done"]
        /\ \E a : answer' = [answer EXCEPT ![c] = a]
    BY <1>3 DEF NativeSign, Fail, End
  <2>2. Shape' /\ Only(c)
    BY <1>0, <2>1 DEF SplicingInv, Shape, Only
  <2>3. SigningInv(c)'
    <3>1. pc'[c] = "done" /\ answer'[c] \in {Entry, Failure}
      BY <1>0, <1>3 DEF NativeSign, Fail, End, SplicingInv, Shape
    <3> QED
      BY <3>1 DEF SigningInv, Ended, Expected, FailClosed
  <2>4. Accounted' /\ signatures \subseteq signatures' /\ signed \subseteq signed'
    <3>1. CASE signatures' = signatures /\ signed' = signed
      BY <3>1 DEF SplicingInv, Accounted
    <3>2. CASE \E key, size :
                /\ signatures' = signatures \cup
                       {[form |-> "encoded", by |-> key, size |-> size,
                         message |-> SignatureInput(read[c].fields)]}
                /\ signed' = signed \cup {[by |-> key, fields |-> read[c].fields]}
      <4>1. PICK key, size :
                /\ signatures' = signatures \cup
                       {[form |-> "encoded", by |-> key, size |-> size,
                         message |-> SignatureInput(read[c].fields)]}
                /\ signed' = signed \cup {[by |-> key, fields |-> read[c].fields]}
        BY <3>2
      <4>2. Bound(read[c].fields)
        BY <2>1 DEF SplicingInv, SigningInv
      <4> DEFINE g == [by |-> key, fields |-> read[c].fields]
                 new == [form |-> "encoded", by |-> key, size |-> size,
                         message |-> SignatureInput(read[c].fields)]
      <4>3. g \in signed' /\ g.by = key /\ g.fields = read[c].fields
        BY <4>1
      <4>4. new.by = key /\ new.message = SignatureInput(read[c].fields)
        OBVIOUS
      <4>5. g = [by |-> new.by, fields |-> g.fields]
        BY <4>3, <4>4
      <4>6. signatures' = signatures \cup {new} /\ signed \subseteq signed'
        BY <4>1
      <4> HIDE DEF g, new
      <4> QED
        BY <4>2, <4>3, <4>4, <4>5, <4>6 DEF SplicingInv, Accounted
    <3> QED
      BY <1>3, <3>1, <3>2 DEF NativeSign
  <2> QED
    BY <1>0, <2>2, <2>3, <2>4, OthersKept DEF SplicingInv, Calls
<1> QED
  BY <1>1, <1>2, <1>3
LEMMA VerifyingStep ==
    ASSUME SplicingInv, NEW c \in VerifyingCalls,
           RequestVerification(c) \/ ReadEntry(c) \/ NativeVerify(c) \/ DiscoverMechanism(c)
    PROVE  SplicingInv'
<1>0. c \in Calls /\ c \notin SigningCalls
  BY DeploymentAssumption DEF Calls
<1>a. signatures' = signatures /\ signed' = signed
  BY DEF RequestVerification, ReadEntry, NativeVerify, DiscoverMechanism
<1>b. Shape' /\ Only(c)
  <2>1. Shape
    BY DEF SplicingInv
  <2>2. CASE RequestVerification(c)
    BY <1>0, <2>1, <2>2 DEF RequestVerification, Shape, Only, Proceed
  <2>3. CASE ReadEntry(c)
    BY <1>0, <2>1, <2>3, ReadEntryFrame DEF Shape, Only
  <2>4. CASE NativeVerify(c)
    BY <1>0, <2>1, <2>4 DEF NativeVerify, Shape, Only, Proceed, End, Fail
  <2>5. CASE DiscoverMechanism(c)
    BY <1>0, <2>1, <2>5 DEF DiscoverMechanism, Shape, Only, Proceed, End, Fail
  <2> QED
    BY <2>2, <2>3, <2>4, <2>5
<1>c. SUFFICES VerifyingInv(c)'
  BY <1>0, <1>a, <1>b, OthersKept DEF SplicingInv, Accounted, Calls
<1>d. c \in DOMAIN pc /\ c \in DOMAIN job /\ c \in DOMAIN read /\ c \in DOMAIN answer
  BY <1>0 DEF SplicingInv, Shape
<1>e. VerifyingInv(c)
  BY DEF SplicingInv
<1>f. True # False /\ \A e \in {Failure, Unavailable, Material, EncodeError} : e # True
  BY DEF True, False, Failure, Unavailable, Material, EncodeError
<1>1. CASE RequestVerification(c)
  <2>1. PICK e \in Presentable, d \in Presentable, key \in Keys, backend \in Backends :
           job' = [job EXCEPT ![c] = [key |-> key, backend |-> backend, held |-> {e, d}]]
    BY <1>1, Zenon DEF RequestVerification
  <2>2. job'[c].key = key /\ job'[c].held = {e, d}
    BY <1>d, <2>1
  <2>3. pc'[c] = "read" /\ answer'[c] = answer[c] /\ answer[c] # True
    BY <1>1, <1>d, <1>e DEF RequestVerification, Proceed, VerifyingInv
  <2>4. \A x \in {e, d} : x.fields \in Fields /\ x.signature \in Known'
    BY <1>a, FieldsAssumption DEF Presentable, Known
  <2> QED
    BY <2>2, <2>3, <2>4 DEF VerifyingInv, Ended
<1>2. CASE ReadEntry(c)
  <2>1. PICK from \in [FieldNames -> job[c].held], first \in job[c].held, last \in job[c].held :
          LET f == [domain |-> from.domain.fields.domain, hash |-> from.hash.fields.hash,
                  algorithm |-> from.algorithm.fields.algorithm,
                  profile |-> from.profile.fields.profile,
                  keyId |-> from.keyId.fields.keyId, version |-> from.version.fields.version]
              oqs == job[c].backend \in OqsAlgorithms
              error == FirstError(<<
                VerifyRequestError(first.signature, f, job[c].key, job[c].backend),
                Check(IsText(last.signature), Failure),
                Check(oqs => Decodes(last.signature), Failure) >>)
          IN  /\ read' = [read EXCEPT ![c] = [fields |-> f, signature |-> last.signature]]
              /\ IF error # NoError THEN End(c, error)
                 ELSE Proceed(c, IF oqs THEN "discover" ELSE "native")
    BY <1>2 DEF ReadEntry
  <2> DEFINE f == [domain |-> from.domain.fields.domain, hash |-> from.hash.fields.hash,
                   algorithm |-> from.algorithm.fields.algorithm,
                   profile |-> from.profile.fields.profile,
                   keyId |-> from.keyId.fields.keyId, version |-> from.version.fields.version]
             oqs == job[c].backend \in OqsAlgorithms
             request == VerifyRequestError(first.signature, f, job[c].key, job[c].backend)
             checks == << request, Check(IsText(last.signature), Failure),
                          Check(oqs => Decodes(last.signature), Failure) >>
  <2>2. pc[c] = "read" /\ job' = job
    BY <1>2 DEF ReadEntry
  <2>3. f \in Fields /\ last.signature \in Known
    <3>1. \A e \in job[c].held : e.fields \in Fields /\ e.signature \in Known
      BY <1>e, <2>2 DEF VerifyingInv
    <3> QED
      BY <3>1, MixtureTyped
  <2>4. read'[c] = [fields |-> f, signature |-> last.signature]
    BY <1>d, <2>1
  <2>5. /\ FirstError(checks) # NoError => pc'[c] = "done" /\ answer'[c] = FirstError(checks)
        /\ FirstError(checks) = NoError =>
              pc'[c] \in {"discover", "native"} /\ answer'[c] = answer[c]
    BY <1>d, <2>1 DEF End, Proceed
  <2>6. DOMAIN checks = 1..3 /\ checks[1] = request
    OBVIOUS
  <2>7. \A i \in 1..3 : checks[i] # NoError => Expected(checks[i], f)
    BY CheckExpected, VerifyRequestExpected DEF FailClosed
  <2>8. read'[c].fields = f /\ read'[c].signature = last.signature
    BY <2>4
  <2>9. request = NoError => Bound(f) /\ NamesKey(f, job[c].key)
    BY <2>3, VerifyRequestChecked
  <2> HIDE DEF checks, f, request
  <2>10. CASE FirstError(checks) = NoError
    <3>1. Bound(f) /\ NamesKey(f, job[c].key)
      BY <2>6, <2>9, <2>10, PassedChecks
    <3>2. pc'[c] \in {"discover", "native"} /\ answer'[c] # True
      BY <1>e, <2>2, <2>5, <2>10 DEF VerifyingInv
    <3>3. job'[c] = job[c] /\ job[c].key \in Keys /\ Known' = Known
      BY <1>a, <1>e, <2>2 DEF VerifyingInv, Known
    <3> QED
      BY <2>3, <2>8, <3>1, <3>2, <3>3 DEF VerifyingInv, Ended, NamesKey, Bound
  <2>11. CASE FirstError(checks) # NoError
    <3>1. Expected(FirstError(checks), f)
      BY <2>6, <2>7, <2>11, FirstErrorIsSomeError
    <3>2. pc'[c] = "done" /\ answer'[c] = FirstError(checks) /\ answer'[c] # True
      BY <1>f, <2>5, <2>11, <3>1 DEF Expected, FailClosed
    <3> QED
      BY <2>8, <3>1, <3>2 DEF VerifyingInv, Ended, Expected
  <2> QED
    BY <2>10, <2>11
<1>3. CASE DiscoverMechanism(c)
  <2>1. /\ pc[c] = "discover" /\ job' = job /\ read' = read
        /\ \/ pc'[c] = "native" /\ answer'[c] = answer[c]
           \/ pc'[c] = "done" /\ answer'[c] \in {Failure, Unavailable}
    BY <1>3, <1>d DEF DiscoverMechanism, Proceed, Fail, End
  <2> QED
    BY <1>a, <1>e, <1>f, <2>1
       DEF VerifyingInv, Bound, Known, NamesKey, Ended, Expected, FailClosed
<1>4. CASE NativeVerify(c)
  <2> DEFINE f == read[c].fields
             key == job[c].key
             sig == read[c].signature
  <2>1. /\ pc[c] = "native" /\ job' = job /\ read' = read
        /\ pc'[c] = "done"
        /\ \/ answer'[c] \in {Failure, False}
           \/ answer'[c] = True /\ Genuine(f, sig, key)
    BY <1>4, <1>d DEF NativeVerify, Fail, End
  <2>2. key \in Keys /\ Bound(f) /\ sig \in Known /\ NamesKey(f, key)
    BY <1>e, <2>1 DEF VerifyingInv
  <2>3. answer'[c] # True => VerifyingInv(c)'
    BY <2>1 DEF VerifyingInv, Ended, Expected, FailClosed
  <2>4. ASSUME Genuine(f, sig, key)
        PROVE  [by |-> key.public.holder, fields |-> f] \in signed
    <3>1. sig \in signatures
      BY <2>2, <2>4, ForgedAssumption DEF Known, Genuine
    <3>2. PICK g \in signed :
            /\ g = [by |-> sig.by, fields |-> g.fields]
            /\ Bound(g.fields)
            /\ sig.message = SignatureInput(g.fields)
      BY <3>1 DEF SplicingInv, Accounted
    <3>3. g.fields = f
      BY <2>2, <2>4, <3>2, SignatureInputInjective DEF Bound, Genuine
    <3> QED
      BY <2>4, <3>2, <3>3 DEF Genuine
  <2>5. answer'[c] = True => VerifyingInv(c)'
    <3> HAVE answer'[c] = True
    <3>1. Genuine(f, sig, key)
      BY <1>f, <2>1
    <3>2. [by |-> key.public.holder, fields |-> f] \in signed'
      BY <1>a, <2>4, <3>1
    <3>3. f.algorithm = key.algorithm /\ f.keyId = key.keyId /\ f.version = key.version
      BY <2>2 DEF NamesKey
    <3> QED
      BY <2>1, <3>2, <3>3 DEF VerifyingInv, Ended
  <2> QED
    BY <2>3, <2>5
<1> QED
  BY <1>1, <1>2, <1>3, <1>4

LEMMA NextKeepsSplicing == SplicingInv /\ [Next]_vars => SplicingInv'
<1> SUFFICES ASSUME SplicingInv, [Next]_vars PROVE SplicingInv'
  OBVIOUS
<1>1. CASE Rotate \/ UNCHANGED vars
  BY <1>1 DEF Rotate, vars, SplicingInv, Shape, Accounted, SigningInv, VerifyingInv, Ended,
              Known, Bound, NamesKey
<1>2. CASE \E c \in SigningCalls :
             RequestSignature(c) \/ ResolvePrivateKey(c) \/ NativeSign(c) \/ DiscoverMechanism(c)
  BY <1>2, SigningStep
<1>3. CASE \E c \in VerifyingCalls :
             RequestVerification(c) \/ ReadEntry(c) \/ NativeVerify(c) \/ DiscoverMechanism(c)
  BY <1>3, VerifyingStep
<1> QED
  BY <1>1, <1>2, <1>3 DEF Next, Calls

LEMMA SplicingInvariance == Spec => []SplicingInv
<1> QED
  BY InitSplicing, NextKeepsSplicing, PTL DEF Spec

\* A verification answers True only of fields that the holder of that registry
\* key signed, for any keys, entries and key ids of any number of lines
\* (real_crypto_backend.py:209-213).
THEOREM NothingSpliced == Spec => []NoSplicing
<1>1. SplicingInv => NoSplicing
  BY DEF SplicingInv, VerifyingInv, NoSplicing
<1> QED
  BY <1>1, SplicingInvariance, PTL

\* Whatever the library and the entries do, a call ends with an answer or an
\* error of the adapter's hierarchy, an unencodable key id excepted
\* (real_crypto_backend.py:75-81).
THEOREM AlwaysInHierarchy == Spec => []EndsInHierarchy
<1>1. SplicingInv => EndsInHierarchy
  BY DEF SplicingInv, SigningInv, VerifyingInv, Ended, Expected, EndsInHierarchy, Calls
<1> QED
  BY <1>1, SplicingInvariance, PTL
-----------------------------------------------------------------------------
(* Test material and types.                                                 *)

Clean(key) == key.keyId \notin TestOnly /\ ~ key.public.testOnly

SigningMaterial(c) ==
    /\ pc[c] \in {"idle", "resolve", "discover", "native", "done"}
    /\ pc[c] \in {"resolve", "discover", "native"} => job[c].reference \notin TestOnly
    /\ pc[c] = "discover" => secret[c] \in Secrets
    /\ pc[c] = "native" /\ job[c].backend \in OqsAlgorithms => secret[c] \in Secrets
    /\ answer[c] = Entry => job[c].reference \notin TestOnly

VerifyingMaterial(c) ==
    /\ pc[c] \in {"discover", "native"} => Clean(job[c].key)
    /\ answer[c] = True => Clean(job[c].key)

MaterialInv ==
    /\ TypeOK
    /\ DOMAIN job = Calls /\ DOMAIN answer = Calls
    /\ \A c \in SigningCalls : SigningMaterial(c)
    /\ \A c \in VerifyingCalls : VerifyingMaterial(c)

LEMMA AnswersDiffer ==
    /\ Entry # {} /\ True # {} /\ False # {}
    /\ Entry # True /\ Entry # False /\ True # False
    /\ \A e \in FailClosed \cup {EncodeError} : e \notin {{}, Entry, True}
BY DEF Entry, True, False, FailClosed, Failure, Unavailable, Material, EncodeError

LEMMA ReferenceChecked ==
    ASSUME NEW j, SignRequestError(j) = NoError
    PROVE  j.reference \notin TestOnly
<1> DEFINE checks == <<
        Check(WellFormed(j.fields), Failure),
        EncodingError(j.fields),
        ReferenceError(j.reference),
        SupportError(j.backend, j.fields.algorithm) >>
           own == << Check(j.reference # <<>>, Failure), Check(j.reference \notin TestOnly, Material) >>
<1>1. DOMAIN checks = 1..4 /\ checks[3] = ReferenceError(j.reference)
  OBVIOUS
<1>2. FirstError(checks) = NoError
  BY DEF SignRequestError
<1>3. checks[3] = NoError
  <2> HIDE DEF checks
  <2> QED
    BY <1>1, <1>2, PassedChecks
<1>4. DOMAIN own = 1..2 /\ own[2] = Check(j.reference \notin TestOnly, Material)
  OBVIOUS
<1>5. FirstError(own) = NoError
  BY <1>1, <1>3 DEF ReferenceError
<1>6. own[2] = NoError
  <2> HIDE DEF own
  <2> QED
    BY <1>4, <1>5, PassedChecks
<1> QED
  BY <1>4, <1>6 DEF Check, NoError, Material

LEMMA KeyChecked ==
    ASSUME NEW first, NEW f, NEW key, NEW backend,
           VerifyRequestError(first, f, key, backend) = NoError
    PROVE  Clean(key)
<1> DEFINE checks == <<
        Check(BoundedText(first) /\ BoundedText(key.public), Failure),
        KeyMaterialError(key),
        Check(Decodes(first) /\ Decodes(key.public), Failure),
        Check(f.algorithm \in Algorithms /\ f.profile \in StandardProfiles[f.algorithm], Failure),
        Check(NamesKey(f, key), Failure),
        SupportError(backend, f.algorithm),
        Check(WellFormed(f), Failure),
        EncodingError(f) >>
<1>1. DOMAIN checks = 1..8 /\ checks[2] = KeyMaterialError(key)
  OBVIOUS
<1>2. FirstError(checks) = NoError
  BY DEF VerifyRequestError
<1>3. checks[2] = NoError
  <2> HIDE DEF checks
  <2> QED
    BY <1>1, <1>2, PassedChecks
<1>4. Check(Clean(key), Material) = NoError
  BY <1>1, <1>3 DEF KeyMaterialError, Clean
<1>5. NoError # Material
  BY DEF NoError, Material
<1> QED
  BY <1>4, <1>5, Zenon DEF Check

LEMMA InitMaterial == Init => MaterialInv
<1> SUFFICES ASSUME Init PROVE MaterialInv
  OBVIOUS
<1>1. TypeOK
  BY DEF Init, TypeOK, Places
<1> QED
  BY <1>1, AnswersDiffer, DeploymentAssumption
     DEF Init, MaterialInv, SigningMaterial, VerifyingMaterial, Calls

LEMMA VaultHoldsSecrets ==
    ASSUME TypeOK, NEW r \in References
    PROVE  vault[r] \in Secrets
BY DEF TypeOK, Secrets

\* A step of a signing call.
LEMMA SigningMaterialStep ==
    ASSUME MaterialInv, NEW c \in SigningCalls,
           RequestSignature(c) \/ ResolvePrivateKey(c) \/ NativeSign(c) \/ DiscoverMechanism(c)
    PROVE  MaterialInv'
<1>0. c \in Calls /\ c \notin VerifyingCalls
  BY DeploymentAssumption DEF Calls
<1>1. SigningMaterial(c) /\ TypeOK /\ DOMAIN job = Calls /\ DOMAIN answer = Calls
  BY DEF MaterialInv
<1>2. /\ vault' = vault
      /\ \E place \in Places : pc' = [pc EXCEPT ![c] = place]
      /\ job' = job \/ \E x : job' = [job EXCEPT ![c] = x]
      /\ answer' = answer \/ \E x : answer' = [answer EXCEPT ![c] = x]
      /\ fault' = fault \/ fault' = [fault EXCEPT ![c] = TRUE]
      /\ secret' = secret \/ \E r \in References : secret' = [secret EXCEPT ![c] = vault[r]]
  BY DEF RequestSignature, ResolvePrivateKey, NativeSign, DiscoverMechanism, Fail, End, Proceed,
         Places
<1>3. /\ DOMAIN job' = Calls /\ DOMAIN answer' = Calls
      /\ pc' \in [Calls -> Places] /\ fault' \in [Calls -> BOOLEAN]
      /\ secret' \in [Calls -> Secrets \cup {"none"}]
      /\ vault' \in {InitialVault, RotatedVault}
  <2>1. DOMAIN job' = Calls /\ DOMAIN answer' = Calls
    BY <1>1, <1>2
  <2>2. pc' \in [Calls -> Places]
    <3>1. pc \in [Calls -> Places]
      BY <1>1 DEF TypeOK
    <3> QED
      BY <1>2, <3>1
  <2>3. fault' \in [Calls -> BOOLEAN]
    <3>1. fault \in [Calls -> BOOLEAN]
      BY <1>1 DEF TypeOK
    <3> QED
      BY <1>2, <3>1
  <2>4. secret' \in [Calls -> Secrets \cup {"none"}]
    <3>1. secret \in [Calls -> Secrets \cup {"none"}]
      BY <1>1 DEF TypeOK
    <3>2. \A r \in References : vault[r] \in Secrets
      BY <1>1, VaultHoldsSecrets
    <3> QED
      BY <1>2, <3>1, <3>2
  <2>5. vault' \in {InitialVault, RotatedVault}
    BY <1>1, <1>2 DEF TypeOK
  <2> QED
    BY <2>1, <2>2, <2>3, <2>4, <2>5
<1>4. \A d \in Calls \ {c} :
          pc'[d] = pc[d] /\ job'[d] = job[d] /\ answer'[d] = answer[d] /\ secret'[d] = secret[d]
  BY <1>1, <1>2 DEF TypeOK
<1>5. SUFFICES /\ SigningMaterial(c)'
               /\ (pc[c] = "done" <=> answer[c] # {})'
               /\ \A s \in signatures' : s.by \in Secrets /\ s.form = "encoded"
  <2>1. \A d \in VerifyingCalls : VerifyingMaterial(d)'
    BY <1>0, <1>4 DEF MaterialInv, VerifyingMaterial, Calls
  <2>2. \A d \in SigningCalls \ {c} : SigningMaterial(d)'
    BY <1>0, <1>4 DEF MaterialInv, SigningMaterial, Calls
  <2>3. \A d \in Calls \ {c} : (pc'[d] = "done") = (answer'[d] # {})
    BY <1>1, <1>4 DEF TypeOK
  <2> QED
    BY <1>3, <2>1, <2>2, <2>3, <1>5 DEF MaterialInv, TypeOK
<1>6. c \in DOMAIN pc /\ c \in DOMAIN job /\ c \in DOMAIN answer /\ c \in DOMAIN secret
  BY <1>0, <1>1 DEF TypeOK
<1>7. pc[c] # "done" => answer[c] = {}
  BY <1>0, <1>1 DEF TypeOK
<1>8. CASE RequestSignature(c)
  <2>1. PICK j \in SignJobs :
          /\ \/ /\ SignRequestError(j) # NoError
                /\ End(c, SignRequestError(j))
             \/ /\ SignRequestError(j) = NoError
                /\ Proceed(c, IF j.backend \in OqsAlgorithms THEN "resolve" ELSE "native")
          /\ job' = [job EXCEPT ![c] = [reference |-> j.reference, backend |-> j.backend]]
    BY <1>8 DEF RequestSignature
  <2>2. job'[c].reference = j.reference /\ job'[c].backend = j.backend
    BY <1>6, <2>1
  <2>3. pc[c] = "idle" /\ signatures' = signatures
    BY <1>8 DEF RequestSignature
  <2>4. CASE SignRequestError(j) # NoError
    <3>1. pc'[c] = "done" /\ answer'[c] = SignRequestError(j)
      BY <1>6, <2>1, <2>4 DEF End
    <3>2. answer'[c] \in FailClosed \cup {EncodeError}
      BY <2>4, <3>1, SignRequestExpected DEF Expected
    <3> QED
      BY <1>1, <2>3, <3>1, <3>2, AnswersDiffer DEF SigningMaterial, TypeOK
  <2>5. CASE SignRequestError(j) = NoError
    <3>1. /\ answer'[c] = {}
          /\ pc'[c] = IF j.backend \in OqsAlgorithms THEN "resolve" ELSE "native"
      BY <1>6, <1>7, <2>1, <2>3, <2>5 DEF Proceed
    <3>2. job'[c].reference \notin TestOnly
      BY <2>2, <2>5, ReferenceChecked
    <3> QED
      BY <1>1, <2>2, <2>3, <3>1, <3>2, AnswersDiffer DEF SigningMaterial, TypeOK
  <2> QED
    BY <2>4, <2>5
<1>9. CASE ResolvePrivateKey(c)
  <2>1. /\ pc[c] = "resolve" /\ job' = job /\ signatures' = signatures
        /\ \/ pc'[c] = "discover" /\ secret'[c] \in Secrets /\ answer'[c] = {}
           \/ pc'[c] = "done" /\ answer'[c] = Failure
    BY <1>1, <1>6, <1>7, <1>9, VaultHoldsSecrets DEF ResolvePrivateKey, Fail, End, Proceed
  <2> QED
    BY <1>1, <2>1, AnswersDiffer DEF SigningMaterial, FailClosed, TypeOK
<1>10. CASE DiscoverMechanism(c)
  <2>1. /\ pc[c] = "discover" /\ job' = job /\ signatures' = signatures /\ secret' = secret
        /\ \/ pc'[c] = "native" /\ answer'[c] = {}
           \/ pc'[c] = "done" /\ answer'[c] \in {Unavailable, Failure}
    BY <1>6, <1>7, <1>10 DEF DiscoverMechanism, Fail, End, Proceed
  <2> QED
    BY <1>1, <2>1, AnswersDiffer DEF SigningMaterial, FailClosed, TypeOK
<1>11. CASE NativeSign(c)
  <2>1. /\ pc[c] = "native" /\ job' = job /\ pc'[c] = "done" /\ answer'[c] \in {Entry, Failure}
    BY <1>6, <1>11 DEF NativeSign, Fail, End
  <2>2. \/ signatures' = signatures
        \/ \E key \in SigningKeys(c) : \E size :
               signatures' = signatures \cup
                   {[form |-> "encoded", by |-> key, size |-> size,
                     message |-> SignatureInput(read[c].fields)]}
    BY <1>11 DEF NativeSign
  <2>3. SigningKeys(c) \subseteq Secrets
    BY <1>1, <2>1, VaultHoldsSecrets DEF SigningKeys, SigningMaterial
  <2>4. \A s \in signatures' : s.by \in Secrets /\ s.form = "encoded"
    <3>1. CASE signatures' = signatures
      BY <1>1, <3>1 DEF TypeOK
    <3>2. ASSUME NEW key \in SigningKeys(c), NEW size,
                 signatures' = signatures \cup
                     {[form |-> "encoded", by |-> key, size |-> size,
                       message |-> SignatureInput(read[c].fields)]}
          PROVE  \A s \in signatures' : s.by \in Secrets /\ s.form = "encoded"
      BY <1>1, <2>3, <3>2 DEF TypeOK
    <3> QED
      BY <2>2, <3>1, <3>2
  <2> QED
    BY <1>1, <2>1, <2>4, AnswersDiffer DEF SigningMaterial, FailClosed
<1> QED
  BY <1>8, <1>9, <1>10, <1>11

\* A step of a verifying call.
LEMMA VerifyingMaterialStep ==
    ASSUME MaterialInv, NEW c \in VerifyingCalls,
           RequestVerification(c) \/ ReadEntry(c) \/ NativeVerify(c) \/ DiscoverMechanism(c)
    PROVE  MaterialInv'
<1>0. c \in Calls /\ c \notin SigningCalls
  BY DeploymentAssumption DEF Calls
<1>1. VerifyingMaterial(c) /\ TypeOK /\ DOMAIN job = Calls /\ DOMAIN answer = Calls
  BY DEF MaterialInv
<1>2. /\ vault' = vault /\ secret' = secret /\ signatures' = signatures
      /\ \E place \in Places : pc' = [pc EXCEPT ![c] = place]
      /\ job' = job \/ \E x : job' = [job EXCEPT ![c] = x]
      /\ answer' = answer \/ \E x : answer' = [answer EXCEPT ![c] = x]
      /\ fault' = fault \/ fault' = [fault EXCEPT ![c] = TRUE]
  <2>1. CASE RequestVerification(c)
    BY <2>1 DEF RequestVerification, Proceed, Places
  <2>2. CASE ReadEntry(c)
    BY <2>2, ReadEntryFrame
  <2>3. CASE NativeVerify(c)
    BY <2>3 DEF NativeVerify, Fail, End, Places
  <2>4. CASE DiscoverMechanism(c)
    BY <2>4 DEF DiscoverMechanism, Fail, End, Proceed, Places
  <2> QED
    BY <2>1, <2>2, <2>3, <2>4
<1>3. /\ DOMAIN job' = Calls /\ DOMAIN answer' = Calls
      /\ pc' \in [Calls -> Places] /\ fault' \in [Calls -> BOOLEAN]
  <2>1. DOMAIN job' = Calls /\ DOMAIN answer' = Calls
    BY <1>1, <1>2
  <2>2. pc' \in [Calls -> Places]
    <3>1. pc \in [Calls -> Places]
      BY <1>1 DEF TypeOK
    <3> QED
      BY <1>2, <3>1
  <2>3. fault' \in [Calls -> BOOLEAN]
    <3>1. fault \in [Calls -> BOOLEAN]
      BY <1>1 DEF TypeOK
    <3> QED
      BY <1>2, <3>1
  <2> QED
    BY <2>1, <2>2, <2>3
<1>4. \A d \in Calls \ {c} : pc'[d] = pc[d] /\ job'[d] = job[d] /\ answer'[d] = answer[d]
  BY <1>1, <1>2 DEF TypeOK
<1>5. SUFFICES VerifyingMaterial(c)' /\ (pc[c] = "done" <=> answer[c] # {})'
  <2>1. \A d \in SigningCalls : SigningMaterial(d)'
    BY <1>0, <1>2, <1>4 DEF MaterialInv, SigningMaterial, Calls
  <2>2. \A d \in VerifyingCalls \ {c} : VerifyingMaterial(d)'
    BY <1>0, <1>4 DEF MaterialInv, VerifyingMaterial, Calls
  <2>3. \A d \in Calls \ {c} : (pc'[d] = "done") = (answer'[d] # {})
    BY <1>1, <1>4 DEF TypeOK
  <2> QED
    BY <1>1, <1>2, <1>3, <2>1, <2>2, <2>3, <1>5 DEF MaterialInv, TypeOK
<1>6. c \in DOMAIN pc /\ c \in DOMAIN job /\ c \in DOMAIN answer
  BY <1>0, <1>1 DEF TypeOK
<1>7. pc[c] # "done" => answer[c] = {}
  BY <1>0, <1>1 DEF TypeOK
<1>8. CASE RequestVerification(c)
  <2>1. pc'[c] = "read" /\ answer'[c] = {}
    BY <1>6, <1>7, <1>8 DEF RequestVerification, Proceed
  <2> QED
    BY <2>1, AnswersDiffer DEF VerifyingMaterial
<1>9. CASE ReadEntry(c)
  <2>1. PICK f, first, last :
          LET oqs == job[c].backend \in OqsAlgorithms
              error == FirstError(<<
                VerifyRequestError(first.signature, f, job[c].key, job[c].backend),
                Check(IsText(last.signature), Failure),
                Check(oqs => Decodes(last.signature), Failure) >>)
          IN  IF error # NoError THEN End(c, error)
              ELSE Proceed(c, IF oqs THEN "discover" ELSE "native")
    BY <1>9 DEF ReadEntry
  <2> DEFINE oqs == job[c].backend \in OqsAlgorithms
             request == VerifyRequestError(first.signature, f, job[c].key, job[c].backend)
             checks == << request, Check(IsText(last.signature), Failure),
                          Check(oqs => Decodes(last.signature), Failure) >>
  <2>2. pc[c] = "read" /\ job' = job
    BY <1>9 DEF ReadEntry
  <2>3. /\ FirstError(checks) # NoError => pc'[c] = "done" /\ answer'[c] = FirstError(checks)
        /\ FirstError(checks) = NoError => pc'[c] \in {"discover", "native"} /\ answer'[c] = {}
    BY <1>6, <1>7, <2>1, <2>2 DEF End, Proceed
  <2>4. DOMAIN checks = 1..3 /\ checks[1] = request
    OBVIOUS
  <2>5. \A i \in 1..3 : checks[i] # NoError => Expected(checks[i], f)
    BY CheckExpected, VerifyRequestExpected DEF FailClosed
  <2>6. request = NoError => Clean(job[c].key)
    BY KeyChecked
  <2> HIDE DEF checks, request
  <2>7. CASE FirstError(checks) = NoError
    <3>1. Clean(job[c].key)
      BY <2>4, <2>6, <2>7, PassedChecks
    <3> QED
      BY <2>2, <2>3, <2>7, <3>1, AnswersDiffer DEF VerifyingMaterial, Clean
  <2>8. CASE FirstError(checks) # NoError
    <3>1. Expected(FirstError(checks), f)
      BY <2>4, <2>5, <2>8, FirstErrorIsSomeError
    <3>2. answer'[c] \in FailClosed \cup {EncodeError}
      BY <2>3, <2>8, <3>1 DEF Expected
    <3> QED
      BY <2>3, <2>8, <3>2, AnswersDiffer DEF VerifyingMaterial
  <2> QED
    BY <2>7, <2>8
<1>10. CASE DiscoverMechanism(c)
  <2>1. /\ pc[c] = "discover" /\ job' = job
        /\ \/ pc'[c] = "native" /\ answer'[c] = {}
           \/ pc'[c] = "done" /\ answer'[c] \in {Unavailable, Failure}
    BY <1>6, <1>7, <1>10 DEF DiscoverMechanism, Fail, End, Proceed
  <2> QED
    BY <1>1, <2>1, AnswersDiffer DEF VerifyingMaterial, Clean, FailClosed
<1>11. CASE NativeVerify(c)
  <2>1. /\ pc[c] = "native" /\ job' = job
        /\ pc'[c] = "done" /\ answer'[c] \in {True, False, Failure}
    BY <1>6, <1>11 DEF NativeVerify, Fail, End
  <2> QED
    BY <1>1, <2>1, AnswersDiffer DEF VerifyingMaterial, Clean, FailClosed
<1> QED
  BY <1>8, <1>9, <1>10, <1>11

LEMMA NextKeepsMaterial == MaterialInv /\ [Next]_vars => MaterialInv'
<1> SUFFICES ASSUME MaterialInv, [Next]_vars PROVE MaterialInv'
  OBVIOUS
<1>1. CASE Rotate \/ UNCHANGED vars
  <2>1. /\ UNCHANGED <<pc, job, secret, signatures, fault, answer>>
        /\ vault' \in {InitialVault, RotatedVault}
    BY <1>1 DEF Rotate, vars, MaterialInv, TypeOK
  <2>2. TypeOK'
    BY <2>1 DEF MaterialInv, TypeOK
  <2> QED
    BY <2>1, <2>2 DEF MaterialInv, SigningMaterial, VerifyingMaterial, Clean
<1>2. CASE \E c \in SigningCalls :
             RequestSignature(c) \/ ResolvePrivateKey(c) \/ NativeSign(c) \/ DiscoverMechanism(c)
  BY <1>2, SigningMaterialStep
<1>3. CASE \E c \in VerifyingCalls :
             RequestVerification(c) \/ ReadEntry(c) \/ NativeVerify(c) \/ DiscoverMechanism(c)
  BY <1>3, VerifyingMaterialStep
<1> QED
  BY <1>1, <1>2, <1>3 DEF Next, Calls

LEMMA MaterialInvariance == Spec => []MaterialInv
<1> QED
  BY InitMaterial, NextKeepsMaterial, PTL DEF Spec

\* Every variable keeps its type: a call that ended has an answer, one that has
\* not has none, and what signs is a key that was resolved
\* (oqs_mldsa_backend.py and oqs_falcon_backend.py, _resolve_private_key).
THEOREM TypesKept == Spec => []TypeOK
<1>1. MaterialInv => TypeOK
  BY DEF MaterialInv
<1> QED
  BY <1>1, MaterialInvariance, PTL

\* Whatever keys, references and entries the calls are given, deterministic
\* test material makes no signature and verifies none
\* (real_crypto_backend.py:118-136, 278, 315).
THEOREM TestMaterialIsRefused == Spec => []TestMaterialNeverCounts
<1>1. MaterialInv => TestMaterialNeverCounts
  BY DEF MaterialInv, SigningMaterial, VerifyingMaterial, Clean, TestMaterialNeverCounts
<1> QED
  BY <1>1, MaterialInvariance, PTL
-----------------------------------------------------------------------------
(* Nothing genuine is refused.                                              *)

\* The fields a signer signs, and what it lets out about them.
Signable(f) == f \in Fields /\ WellFormed(f) /\ f.keyId \notin Unencodable

SignatureOf(s, f) ==
    /\ s.form = "encoded"
    /\ s.size \in SignatureSizes(f.algorithm)
    /\ s.message = SignatureInput(f)

\* A request to verify the one entry e, with everything in order.
Honest(j, e) ==
    /\ j.held = {e}
    /\ j.key \in Keys
    /\ e.fields \in Fields
    /\ \E f : Signable(f) /\ SignatureOf(e.signature, f)
    /\ Genuine(e.fields, e.signature, j.key)
    /\ NamesKey(e.fields, j.key)
    /\ j.backend = e.fields.algorithm
    /\ Decodes(j.key.public)
    /\ Clean(j.key)
    /\ j.key.public.size = "full"

SigningGenuine(c) ==
    pc[c] \in {"resolve", "discover", "native"} =>
        Signable(read[c].fields) /\ job[c].backend = read[c].fields.algorithm

VerifyingGenuine(c) ==
    /\ pc[c] # "idle" =>
           /\ job[c].key \in Keys
           /\ IsFiniteSet(job[c].held)
           /\ \A e \in job[c].held : e.fields \in Fields
    /\ \A e : Honest(job[c], e) =>
           /\ pc[c] \in {"discover", "native"} =>
                  read[c].fields = e.fields /\ read[c].signature = e.signature
           /\ pc[c] = "done" /\ ~ fault[c] => answer[c] = True

GenuineInv ==
    /\ Shape /\ DOMAIN fault = Calls
    /\ \A s \in signatures : \E f : Signable(f) /\ SignatureOf(s, f)
    /\ \A c \in SigningCalls : SigningGenuine(c)
    /\ \A c \in VerifyingCalls : VerifyingGenuine(c)

LEMMA SignRequestSignable ==
    ASSUME NEW j \in SignJobs, SignRequestError(j) = NoError
    PROVE  Signable(j.fields) /\ j.backend = j.fields.algorithm
<1> DEFINE checks == <<
        Check(WellFormed(j.fields), Failure),
        EncodingError(j.fields),
        ReferenceError(j.reference),
        SupportError(j.backend, j.fields.algorithm) >>
<1>1. /\ DOMAIN checks = 1..4
      /\ checks[1] = Check(WellFormed(j.fields), Failure)
      /\ checks[2] = Check(j.fields.keyId \notin Unencodable, EncodeError)
      /\ checks[4] = Check(j.backend = j.fields.algorithm, Unavailable)
  BY DEF EncodingError, SupportError
<1>2. FirstError(checks) = NoError
  BY DEF SignRequestError
<1>3. checks[1] = NoError /\ checks[2] = NoError /\ checks[4] = NoError
  <2> HIDE DEF checks
  <2> QED
    BY <1>1, <1>2, PassedChecks
<1>4. WellFormed(j.fields) /\ j.fields.keyId \notin Unencodable /\ j.backend = j.fields.algorithm
  BY <1>1, <1>3 DEF Check, NoError, Failure, EncodeError, Unavailable
<1> QED
  BY <1>4, FieldsAssumption DEF Signable

\* The fields of an honest entry are the ones that were signed.
LEMMA HonestFields ==
    ASSUME NEW j, NEW e, Honest(j, e)
    PROVE  Signable(e.fields) /\ SignatureOf(e.signature, e.fields)
<1>1. PICK f : Signable(f) /\ SignatureOf(e.signature, f)
  BY DEF Honest
<1>2. e.fields.version \in KeyVersions
  BY KeysAssumption DEF Honest, NamesKey
<1>3. f \in Fields /\ f.version \in KeyVersions
  BY <1>1 DEF Signable, WellFormed
<1>4. SignatureInput(e.fields) = SignatureInput(f)
  BY <1>1 DEF Honest, Genuine, SignatureOf
<1>5. e.fields = f
  BY <1>2, <1>3, <1>4, SignatureInputInjective DEF Honest
<1> QED
  BY <1>1, <1>5

\* So every check of the adapter lets it through.
LEMMA HonestRequest ==
    ASSUME NEW j, NEW e, Honest(j, e)
    PROVE  VerifyRequestError(e.signature, e.fields, j.key, j.backend) = NoError
<1> DEFINE f == e.fields
           checks == <<
        Check(BoundedText(e.signature) /\ BoundedText(j.key.public), Failure),
        KeyMaterialError(j.key),
        Check(Decodes(e.signature) /\ Decodes(j.key.public), Failure),
        Check(f.algorithm \in Algorithms /\ f.profile \in StandardProfiles[f.algorithm], Failure),
        Check(NamesKey(f, j.key), Failure),
        SupportError(j.backend, f.algorithm),
        Check(WellFormed(f), Failure),
        EncodingError(f) >>
<1>1. Signable(f) /\ SignatureOf(e.signature, f)
  BY HonestFields
<1>2. DOMAIN checks = 1..8
  OBVIOUS
<1>3. /\ checks[1] = NoError /\ checks[3] = NoError
  BY <1>1 DEF Honest, SignatureOf, BoundedText, Decodes, Check
<1>4. checks[2] = NoError
  BY DEF Honest, Clean, KeyMaterialError, Check
<1>5. checks[4] = NoError /\ checks[7] = NoError
  BY <1>1 DEF Signable, WellFormed, Check
<1>6. checks[5] = NoError /\ checks[6] = NoError
  BY DEF Honest, SupportError, Check
<1>7. checks[8] = NoError
  BY <1>1 DEF Signable, EncodingError, Check
<1>8. \A i \in 1..8 : checks[i] = NoError
  BY <1>3, <1>4, <1>5, <1>6, <1>7
<1>9. FirstError(checks) = NoError
  <2> HIDE DEF checks
  <2> QED
    BY <1>2, <1>8, FirstErrorIsSomeError
<1> QED
  BY <1>9 DEF VerifyRequestError

\* What a step of one call leaves of the others.
LEMMA OthersGenuine ==
    ASSUME NEW c \in Calls, NEW d \in Calls, d # c, Only(c), fault'[d] = fault[d]
    PROVE  /\ SigningGenuine(d) => SigningGenuine(d)'
           /\ VerifyingGenuine(d) => VerifyingGenuine(d)'
<1>1. pc'[d] = pc[d] /\ job'[d] = job[d] /\ read'[d] = read[d] /\ answer'[d] = answer[d]
  BY DEF Only
<1>2. SigningGenuine(d) => SigningGenuine(d)'
  BY <1>1 DEF SigningGenuine
<1>3. VerifyingGenuine(d) => VerifyingGenuine(d)'
  BY <1>1 DEF VerifyingGenuine
<1> QED
  BY <1>2, <1>3

LEMMA InitGenuine == Init => GenuineInv
BY DEF Init, GenuineInv, Shape, SigningGenuine, VerifyingGenuine, Calls

LEMMA SigningGenuineStep ==
    ASSUME GenuineInv, NEW c \in SigningCalls,
           RequestSignature(c) \/ ResolvePrivateKey(c) \/ NativeSign(c) \/ DiscoverMechanism(c)
    PROVE  GenuineInv'
<1>0. c \in Calls /\ c \notin VerifyingCalls
  BY DeploymentAssumption DEF Calls
<1>a. Shape /\ DOMAIN fault = Calls /\ SigningGenuine(c)
  BY DEF GenuineInv
<1>b. /\ Shape' /\ DOMAIN fault' = Calls /\ Only(c)
      /\ \A d \in Calls \ {c} : fault'[d] = fault[d]
  <2>1. CASE RequestSignature(c)
    BY <1>0, <1>a, <2>1 DEF RequestSignature, Shape, Only, Proceed, End
  <2>2. CASE ResolvePrivateKey(c)
    BY <1>0, <1>a, <2>2 DEF ResolvePrivateKey, Shape, Only, Proceed, End, Fail
  <2>3. CASE NativeSign(c)
    BY <1>0, <1>a, <2>3 DEF NativeSign, Shape, Only, End, Fail
  <2>4. CASE DiscoverMechanism(c)
    BY <1>0, <1>a, <2>4 DEF DiscoverMechanism, Shape, Only, Proceed, End, Fail
  <2> QED
    BY <2>1, <2>2, <2>3, <2>4
<1>c. SUFFICES /\ SigningGenuine(c)'
               /\ \A s \in signatures' : \E f : Signable(f) /\ SignatureOf(s, f)
  BY <1>0, <1>b, OthersGenuine DEF GenuineInv, Calls
<1>d. c \in DOMAIN pc /\ c \in DOMAIN job /\ c \in DOMAIN read
  BY <1>0, <1>a DEF Shape
<1>1. CASE RequestSignature(c)
  <2>1. PICK j \in SignJobs :
          /\ read' = [read EXCEPT ![c] = [fields |-> j.fields]]
          /\ SignRequestError(j) # NoError => End(c, SignRequestError(j))
          /\ job' = [job EXCEPT ![c] = [reference |-> j.reference, backend |-> j.backend]]
    BY <1>1 DEF RequestSignature
  <2>2. signatures' = signatures
    BY <1>1 DEF RequestSignature
  <2>3. read'[c].fields = j.fields /\ job'[c].backend = j.backend
    BY <1>d, <2>1
  <2>4. SignRequestError(j) # NoError => pc'[c] = "done"
    BY <1>d, <2>1 DEF End
  <2> QED
    BY <2>2, <2>3, <2>4, SignRequestSignable DEF GenuineInv, SigningGenuine
<1>2. CASE ResolvePrivateKey(c) \/ DiscoverMechanism(c)
  <2>1. /\ pc[c] \in {"resolve", "discover"}
        /\ job' = job /\ read' = read /\ signatures' = signatures
    BY <1>2 DEF ResolvePrivateKey, DiscoverMechanism
  <2> QED
    BY <1>a, <2>1 DEF GenuineInv, SigningGenuine
<1>3. CASE NativeSign(c)
  <2>1. /\ pc[c] = "native" /\ pc'[c] = "done"
        /\ \/ signatures' = signatures
           \/ \E key, size :
                /\ size \in SignatureSizes(job[c].backend)
                /\ signatures' = signatures \cup
                       {[form |-> "encoded", by |-> key, size |-> size,
                         message |-> SignatureInput(read[c].fields)]}
    BY <1>3, <1>d DEF NativeSign, Fail, End
  <2>2. Signable(read[c].fields) /\ job[c].backend = read[c].fields.algorithm
    BY <1>a, <2>1 DEF SigningGenuine
  <2>3. ASSUME NEW key, NEW size \in SignatureSizes(job[c].backend)
        PROVE  SignatureOf([form |-> "encoded", by |-> key, size |-> size,
                            message |-> SignatureInput(read[c].fields)], read[c].fields)
    BY <2>2 DEF SignatureOf
  <2>4. \A s \in signatures' : \E f : Signable(f) /\ SignatureOf(s, f)
    BY <2>1, <2>2, <2>3 DEF GenuineInv
  <2> QED
    BY <2>1, <2>4 DEF SigningGenuine
<1> QED
  BY <1>1, <1>2, <1>3

LEMMA VerifyingGenuineStep ==
    ASSUME GenuineInv, NEW c \in VerifyingCalls,
           RequestVerification(c) \/ ReadEntry(c) \/ NativeVerify(c) \/ DiscoverMechanism(c)
    PROVE  GenuineInv'
<1>0. c \in Calls /\ c \notin SigningCalls
  BY DeploymentAssumption DEF Calls
<1>a. Shape /\ DOMAIN fault = Calls /\ VerifyingGenuine(c)
  BY DEF GenuineInv
<1>b. /\ Shape' /\ DOMAIN fault' = Calls /\ Only(c) /\ signatures' = signatures
      /\ \A d \in Calls \ {c} : fault'[d] = fault[d]
  <2>1. CASE RequestVerification(c)
    BY <1>0, <1>a, <2>1 DEF RequestVerification, Shape, Only, Proceed
  <2>2. CASE ReadEntry(c)
    BY <1>0, <1>a, <2>2, ReadEntryFrame DEF Shape, Only
  <2>3. CASE NativeVerify(c)
    BY <1>0, <1>a, <2>3 DEF NativeVerify, Shape, Only, End, Fail
  <2>4. CASE DiscoverMechanism(c)
    BY <1>0, <1>a, <2>4 DEF DiscoverMechanism, Shape, Only, Proceed, End, Fail
  <2> QED
    BY <2>1, <2>2, <2>3, <2>4
<1>c. SUFFICES VerifyingGenuine(c)'
  BY <1>0, <1>b, OthersGenuine DEF GenuineInv, Calls
<1>d. c \in DOMAIN pc /\ c \in DOMAIN job /\ c \in DOMAIN read /\ c \in DOMAIN answer
      /\ c \in DOMAIN fault
  BY <1>0, <1>a DEF Shape
<1>1. CASE RequestVerification(c)
  <2>1. PICK e \in Presentable, d \in Presentable, key \in Keys, backend \in Backends :
           job' = [job EXCEPT ![c] = [key |-> key, backend |-> backend, held |-> {e, d}]]
    BY <1>1, Zenon DEF RequestVerification
  <2>2. job'[c].key = key /\ job'[c].held = {e, d}
    BY <1>d, <2>1
  <2>3. pc'[c] = "read"
    BY <1>1, <1>d DEF RequestVerification, Proceed
  <2>4. IsFiniteSet({e, d})
    <3>1. IsFiniteSet({d})
      BY FS_Singleton
    <3>2. IsFiniteSet({d} \cup {e})
      BY <3>1, FS_AddElement, Zenon
    <3>3. {e, d} = {d} \cup {e}
      OBVIOUS
    <3> QED
      BY <3>2, <3>3, Zenon
  <2>5. \A x \in {e, d} : x.fields \in Fields
    BY FieldsAssumption DEF Presentable
  <2> QED
    BY <2>2, <2>3, <2>4, <2>5 DEF VerifyingGenuine
<1>2. CASE ReadEntry(c)
  <2>1. PICK from \in [FieldNames -> job[c].held], first \in job[c].held, last \in job[c].held :
          LET f == [domain |-> from.domain.fields.domain, hash |-> from.hash.fields.hash,
                  algorithm |-> from.algorithm.fields.algorithm,
                  profile |-> from.profile.fields.profile,
                  keyId |-> from.keyId.fields.keyId, version |-> from.version.fields.version]
              oqs == job[c].backend \in OqsAlgorithms
              error == FirstError(<<
                VerifyRequestError(first.signature, f, job[c].key, job[c].backend),
                Check(IsText(last.signature), Failure),
                Check(oqs => Decodes(last.signature), Failure) >>)
          IN  /\ read' = [read EXCEPT ![c] = [fields |-> f, signature |-> last.signature]]
              /\ IF error # NoError THEN End(c, error)
                 ELSE Proceed(c, IF oqs THEN "discover" ELSE "native")
    BY <1>2 DEF ReadEntry
  <2> DEFINE f == [domain |-> from.domain.fields.domain, hash |-> from.hash.fields.hash,
                   algorithm |-> from.algorithm.fields.algorithm,
                   profile |-> from.profile.fields.profile,
                   keyId |-> from.keyId.fields.keyId, version |-> from.version.fields.version]
             oqs == job[c].backend \in OqsAlgorithms
             request == VerifyRequestError(first.signature, f, job[c].key, job[c].backend)
             checks == << request, Check(IsText(last.signature), Failure),
                          Check(oqs => Decodes(last.signature), Failure) >>
  <2>2. pc[c] = "read" /\ job' = job
    BY <1>2 DEF ReadEntry
  <2>3. read'[c] = [fields |-> f, signature |-> last.signature]
    BY <1>d, <2>1
  <2>4. FirstError(checks) = NoError => pc'[c] \in {"discover", "native"}
    BY <1>d, <2>1 DEF Proceed
  <2>5. pc'[c] # "idle"
    BY <1>d, <2>1 DEF End, Proceed
  <2>6. ASSUME NEW e, Honest(job[c], e)
        PROVE  /\ read'[c].fields = e.fields /\ read'[c].signature = e.signature
               /\ pc'[c] # "done"
    <3>1. first = e /\ last = e /\ \A x \in FieldNames : from[x] = e
      BY <2>6 DEF Honest
    <3>2. /\ from.domain = e /\ from.hash = e /\ from.algorithm = e /\ from.profile = e
          /\ from.keyId = e /\ from.version = e
      BY <3>1 DEF FieldNames
    <3>3. f = e.fields
      BY <2>6, <3>2 DEF Honest, Fields
    <3>4. SignatureOf(e.signature, e.fields)
      BY <2>6, HonestFields
    <3>5. request = NoError
      BY <2>6, <3>1, <3>3, HonestRequest
    <3>6. Check(IsText(last.signature), Failure) = NoError
      BY <3>1, <3>4 DEF SignatureOf, IsText, Check
    <3>7. Check(oqs => Decodes(last.signature), Failure) = NoError
      BY <3>1, <3>4 DEF SignatureOf, Decodes, Check
    <3>8. DOMAIN checks = 1..3 /\ \A i \in 1..3 : checks[i] = NoError
      <4> HIDE DEF request
      <4> QED
        BY <3>5, <3>6, <3>7
    <3>9. FirstError(checks) = NoError
      <4> HIDE DEF checks
      <4> QED
        BY <3>8, FirstErrorIsSomeError
    <3> HIDE DEF checks, f
    <3> QED
      BY <2>3, <2>4, <3>1, <3>3, <3>9
  <2> HIDE DEF checks, f
  <2> QED
    BY <1>a, <2>2, <2>5, <2>6 DEF VerifyingGenuine
<1>3. CASE DiscoverMechanism(c)
  <2>1. /\ pc[c] = "discover" /\ job' = job /\ read' = read
        /\ \/ pc'[c] = "native"
           \/ pc'[c] = "done" /\ fault'[c] = TRUE
    BY <1>3, <1>d DEF DiscoverMechanism, Proceed, Fail, End
  <2> QED
    BY <1>a, <2>1 DEF VerifyingGenuine
<1>4. CASE NativeVerify(c)
  <2>1. /\ pc[c] = "native" /\ job' = job /\ read' = read /\ pc'[c] = "done"
        /\ \/ fault'[c] = TRUE
           \/ ~ LengthsFit(job[c].backend, job[c].key, read[c].signature)
           \/ ~ Genuine(read[c].fields, read[c].signature, job[c].key)
           \/ answer'[c] = True
    BY <1>4, <1>d DEF NativeVerify, Fail, End
  <2>2. ASSUME NEW e, Honest(job[c], e)
        PROVE  /\ LengthsFit(job[c].backend, job[c].key, read[c].signature)
               /\ Genuine(read[c].fields, read[c].signature, job[c].key)
    <3>1. read[c].fields = e.fields /\ read[c].signature = e.signature
      BY <1>a, <2>1, <2>2 DEF VerifyingGenuine
    <3>2. SignatureOf(e.signature, e.fields)
      BY <2>2, HonestFields
    <3> QED
      BY <2>2, <3>1, <3>2 DEF Honest, SignatureOf, SignatureSizes, LengthsFit
  <2> QED
    BY <1>a, <2>1, <2>2 DEF VerifyingGenuine
<1> QED
  BY <1>1, <1>2, <1>3, <1>4

LEMMA NextKeepsGenuine == GenuineInv /\ [Next]_vars => GenuineInv'
<1> SUFFICES ASSUME GenuineInv, [Next]_vars PROVE GenuineInv'
  OBVIOUS
<1>1. CASE Rotate \/ UNCHANGED vars
  <2>1. UNCHANGED <<pc, job, read, answer, fault, signatures>>
    BY <1>1 DEF Rotate, vars
  <2>2. Shape' /\ (DOMAIN fault = Calls)'
    BY <2>1 DEF GenuineInv, Shape
  <2>3. \A c \in SigningCalls : SigningGenuine(c)'
    BY <2>1 DEF GenuineInv, SigningGenuine
  <2>4. \A c \in VerifyingCalls : VerifyingGenuine(c)'
    BY <2>1 DEF GenuineInv, VerifyingGenuine
  <2> QED
    BY <2>1, <2>2, <2>3, <2>4 DEF GenuineInv
<1>2. CASE \E c \in SigningCalls :
             RequestSignature(c) \/ ResolvePrivateKey(c) \/ NativeSign(c) \/ DiscoverMechanism(c)
  BY <1>2, SigningGenuineStep
<1>3. CASE \E c \in VerifyingCalls :
             RequestVerification(c) \/ ReadEntry(c) \/ NativeVerify(c) \/ DiscoverMechanism(c)
  BY <1>3, VerifyingGenuineStep
<1> QED
  BY <1>1, <1>2, <1>3 DEF Next, Calls

\* Whatever else signs, verifies and rotates meanwhile, a signature a signer
\* returned is answered True when it comes back with its fields for the key of
\* its signer and nothing outside fails: each check on the way in admits what
\* the checks on the way out let pass (real_crypto_backend.py:223-360,
\* oqs_falcon_backend.py:107-113).
THEOREM NothingGenuineRefused == Spec => []GenuineAccepted
<1>1. GenuineInv => GenuineAccepted
  <2> SUFFICES ASSUME GenuineInv, NEW c \in VerifyingCalls,
                      pc[c] = "done", ~ fault[c], Cardinality(job[c].held) = 1,
                      \A e \in job[c].held :
                          /\ e.signature \in signatures
                          /\ Genuine(e.fields, e.signature, job[c].key)
                          /\ NamesKey(e.fields, job[c].key)
                          /\ job[c].backend = e.fields.algorithm,
                      Decodes(job[c].key.public), Clean(job[c].key),
                      job[c].key.public.size = "full"
               PROVE  answer[c] = True
    BY DEF GenuineAccepted, Clean
  <2>1. VerifyingGenuine(c)
    BY DEF GenuineInv
  <2>2. PICK e : job[c].held = {e}
    BY <2>1, FS_Singleton DEF VerifyingGenuine
  <2>3. \E f : Signable(f) /\ SignatureOf(e.signature, f)
    BY <2>2 DEF GenuineInv
  <2>4. Honest(job[c], e)
    BY <2>1, <2>2, <2>3 DEF VerifyingGenuine, Honest
  <2> QED
    BY <2>1, <2>4 DEF VerifyingGenuine
<1>2. Spec => []GenuineInv
  BY InitGenuine, NextKeepsGenuine, PTL DEF Spec
<1> QED
  BY <1>1, <1>2, PTL
=============================================================================
