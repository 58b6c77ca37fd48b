------------------------ MODULE MCRealCryptoBackend ------------------------
(***************************************************************************)
(* Instances of RealCryptoBackend: one ML-DSA key pair registered in two   *)
(* versions and under a key id of two lines, a Falcon key, a test-only key *)
(* over real material, and keys that cannot be used.                       *)
(***************************************************************************)
EXTENDS RealCryptoBackend, TLC

CONSTANTS s1, v1

Profile == [a \in {"classical-ed25519", "ml-dsa", "fn-dsa"} |-> {"standard " \o a}]

MCDecimal(n) == ToString(n)

F(algorithm, domain, hash, keyId, version) ==
    [algorithm |-> algorithm, profile |-> "standard " \o algorithm, domain |-> domain,
     hash |-> hash, keyId |-> keyId, version |-> version]

Plain == F("ml-dsa", "component_verdict", "h1", <<"k">>, 1)
NextVersion == [Plain EXCEPT !.version = 2]
TwoLines == [Plain EXCEPT !.keyId = <<"k", "1">>]
OtherDomain == [Plain EXCEPT !.domain = "orchestrator_receipt"]
Falcon == F("fn-dsa", "component_verdict", "h1", <<"k">>, 1)
Classical == F("classical-ed25519", "component_verdict", "h1", <<"k">>, 1)
TestKey == [Plain EXCEPT !.keyId = <<"test-k">>]
Surrogate == [Plain EXCEPT !.keyId = <<"surrogate">>]
WrongProfile == [Plain EXCEPT !.profile = "standard fn-dsa"]

\* Fields in which a signature may come back: those it was made over, and
\* those it could be taken for.
PresentedFields == {Plain, NextVersion, TwoLines, OtherDomain, Falcon, Classical, TestKey}

\* Two that differ in both parts of the key's name.
FieldsThatChange == {NextVersion, TwoLines}

Job(f, reference) == [fields |-> f, reference |-> reference, backend |-> f.algorithm]

\* What is signed under one key pair in two versions and with two algorithms,
\* and requests refused for one reason each.
Jobs ==
    {Job(Plain, <<"ml">>), Job(NextVersion, <<"ml">>), Job(Falcon, <<"fn">>), Job(TestKey, <<"ml">>),
     Job(Classical, <<"ed">>),
     Job(Surrogate, <<"ml">>), Job(WrongProfile, <<"ml">>), Job(Plain, <<"test-ml">>), Job(Plain, <<>>),
     Job(Plain, <<"unknown">>), [Job(Falcon, <<"fn">>) EXCEPT !.backend = "ml-dsa"]}

Vault ==
    <<"ml">> :> "ml pair" @@ <<"test-ml">> :> "ml pair" @@ <<"spare">> :> "second pair" @@
    <<"fn">> :> "fn pair" @@ <<"ed">> :> "ed pair"

NextVault == [Vault EXCEPT ![<<"ml">>] = "second pair"]

Public(holder) == [form |-> "encoded", holder |-> holder, size |-> "full", testOnly |-> FALSE]

KeyFor(f, holder) ==
    [algorithm |-> f.algorithm, keyId |-> f.keyId, version |-> f.version, public |-> Public(holder)]

RegistryKeys ==
    {KeyFor(Plain, "ml pair"), KeyFor(NextVersion, "ml pair"), KeyFor(TwoLines, "ml pair"),
     KeyFor(Falcon, "fn pair"), KeyFor(Classical, "ed pair"), KeyFor(TestKey, "ml pair"),
     [KeyFor(Plain, "ml pair") EXCEPT !.public.testOnly = TRUE],
     [KeyFor(Plain, "ml pair") EXCEPT !.public.form = "text"],
     [KeyFor(Plain, "truncated") EXCEPT !.public.size = "longer"]}

Forged(form, size) == [form |-> form, by |-> "nobody", size |-> size, message |-> <<>>]

Forgeries == {Forged("encoded", "longer"), Forged("text", "full")}

TestNames == {<<"test-k">>, <<"test-ml">>}

SurrogateNames == {<<"surrogate">>}
=============================================================================
