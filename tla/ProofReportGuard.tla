-------------------------- MODULE ProofReportGuard --------------------------
(***************************************************************************)
(* The evidence that the native proofs of Shield v4 really ran: a test job *)
(* runs its tests and writes a JUnit report, the report may be spoilt on   *)
(* its way, and scripts/assert_real_oqs_junit_not_skipped.py decides       *)
(* whether it counts.  The script has one refusal (SystemExit with a       *)
(* text), so its checks are conditions.                                    *)
(*                                                                         *)
(* A node id is the sequence of the texts between its "::", and so is the  *)
(* name of a case, as a name may be a whole node id: <<>> where it is      *)
(* absent.  The class and the file of a case are texts, "" where they are  *)
(* absent.  "tags" are the outcome elements a case holds directly and      *)
(* "buried" those deeper in it.                                            *)
(***************************************************************************)
EXTENDS Integers, Sequences, FiniteSets, Functions

CONSTANTS
    JobTests,          \* the tests of the job in the order they run: [name, class]
    PathOf(_),         \* "a.b" as a path, "a/b.py"
    FullPaths,         \* the paths a full pytest node id may begin with
    FullNames,         \* the names it may end with
    ArgumentSets,      \* what the guard is called with: [minimum, exact, required]
    Spoilt(_),         \* what one accident can make of a report
    MaxSpoils          \* bound: accidents

\* Ids of the job's tests differ, and no class is written as a path.
NodeId(i) == <<PathOf(JobTests[i].class), JobTests[i].name>>

ASSUME JobAssumption ==
    /\ JobTests \in Seq([name : STRING, class : STRING])
    /\ \A i \in DOMAIN JobTests :
           JobTests[i].name # "" /\ JobTests[i].class # "" /\ JobTests[i].class \notin FullPaths
    /\ \A i, j \in DOMAIN JobTests : NodeId(i) = NodeId(j) => i = j

\* The types argparse converts to; a path of a node id is a text.
ASSUME ArgumentsAssumption ==
    /\ ArgumentSets \subseteq [minimum : Int, exact : Int, required : Seq(Seq(STRING))]
    /\ "" \notin FullPaths

ASSUME BoundAssumption == MaxSpoils \in Nat

VARIABLES
    ran,         \* the tests that ran, each with its outcome
    report,      \* what lies at the path of the report
    spoils,      \* how often it was spoilt
    arguments,   \* what the guard was called with
    verdict      \* what it said

vars == <<ran, report, spoils, arguments, verdict>>

\* The outcome elements of a case, and the counters of a suite over them.
Tags == {"skipped", "failure", "error"}
Counters == {"tests", "skipped", "failures", "errors"}
TagOf == [skipped |-> "skipped", failures |-> "failure", errors |-> "error"]

Missing == [root |-> "missing"]
NoArguments == [minimum |-> 0]

-----------------------------------------------------------------------------
(* The checks. *)

\* 0 stands for a run without --exact-tests.
Exact(a) == a.exact # 0

\* The pattern of exact mode.
IsFull(id) == Len(id) = 2 /\ id[1] \in FullPaths /\ id[2] \in FullNames

ArgumentsHold(a) ==
    /\ a.minimum >= 1
    /\ Exact(a) =>
           /\ a.exact >= a.minimum
           /\ Len(a.required) = a.exact
           /\ IsInjective(a.required)
           /\ \A i \in DOMAIN a.required : IsFull(a.required[i])

\* Where the cases of a report are: <<suite, position in it>>.
Places(r) == UNION {{k} \X DOMAIN r.suites[k].cases : k \in DOMAIN r.suites}

CaseAt(r, p) == r.suites[p[1]].cases[p[2]]

Cases(r) == {CaseAt(r, p) : p \in Places(r)}

\* _suites, and the element structure below them.
Structured(r) ==
    /\ r.root \in {"testsuite", "testsuites"}
    /\ r.suites # <<>>
    /\ \A s \in Range(r.suites) : ~ s.odd
    /\ \A c \in Cases(r) : ~ c.odd /\ c.buried = {}

\* Faulty variant: a counter of failed cases is believed as it stands.
ActualTestsOnly(suite, key) ==
    IF key = "tests" THEN Len(suite.cases) ELSE suite.counters[key]

\* What a counter of the suite should say.
Actual(suite, key) ==
    IF key = "tests" THEN Len(suite.cases)
    ELSE Cardinality({i \in DOMAIN suite.cases : TagOf[key] \in suite.cases[i].tags})

\* A counter that is absent or no number is one that no count equals.
CountersHold(r) ==
    \A s \in Range(r.suites), key \in Counters : s.counters[key] = Actual(s, key)

Total(r, key) ==
    LET sum[k \in 0..Len(r.suites)] ==
            IF k = 0 THEN 0 ELSE sum[k - 1] + r.suites[k].counters[key]
    IN  sum[Len(r.suites)]

AggregatesHold(r) ==
    r.root = "testsuites" =>
        \A key \in DOMAIN r.aggregates : r.aggregates[key] = Total(r, key)

CountsHold(r, a) ==
    /\ Total(r, "tests") >= a.minimum
    /\ Exact(a) => Total(r, "tests") = a.exact
    /\ \A key \in {"skipped", "failures", "errors"} : Total(r, key) = 0

\* f"{place}::{name}"
Behind(place, name) == <<place>> \o name

\* _nodeid_candidates: the name as it is, and behind the class and the file.
Candidates(c) ==
    IF c.name = <<>> THEN {}
    ELSE {c.name}
         \cup (IF c.class = "" THEN {}
               ELSE {Behind(c.class, c.name), Behind(PathOf(c.class), c.name)})
         \cup (IF c.file = "" THEN {} ELSE {Behind(c.file, c.name)})

RequiredPresent(r, a) ==
    Range(a.required) \subseteq UNION {Candidates(c) : c \in Cases(r)}

Matches(c, a) == Candidates(c) \cap Range(a.required)

\* Faulty variant: the class is not turned into a path.
ConflictingUnconverted(c) == c.file # "" /\ c.class # "" /\ c.file # c.class

Conflicting(c) == c.file # "" /\ c.class # "" /\ c.file # PathOf(c.class)

\* Faulty variant: as many cases as required nodes, each of them present.
ExactIdentityByCount(r, a) == Cardinality(Places(r)) = Len(a.required)

\* One case for each required node and none else.
ExactIdentity(r, a) ==
    /\ \A c \in Cases(r) : ~ Conflicting(c) /\ Cardinality(Matches(c, a)) = 1
    /\ \A p, q \in Places(r) :
           p # q => Matches(CaseAt(r, p), a) \cap Matches(CaseAt(r, q), a) = {}
    /\ UNION {Matches(c, a) : c \in Cases(r)} = Range(a.required)

Passes(r, a) ==
    /\ ArgumentsHold(a)
    /\ r.root \notin {"missing", "unreadable"}
    /\ Structured(r)
    /\ CountersHold(r)
    /\ AggregatesHold(r)
    /\ CountsHold(r, a)
    /\ RequiredPresent(r, a)
    /\ Exact(a) => ExactIdentity(r, a)

-----------------------------------------------------------------------------
(* The job. *)

Positions == DOMAIN JobTests

\* The case pytest writes for a test, with its file in one of two layouts.
CaseOf(t, layout) ==
    [name |-> <<JobTests[t.test].name>>, class |-> JobTests[t.test].class,
     file |-> IF layout = "xunit1" THEN PathOf(JobTests[t.test].class) ELSE "",
     tags |-> {t.outcome} \cap Tags, buried |-> {}, odd |-> FALSE]

Recount(suite) == [suite EXCEPT !.counters = [key \in Counters |-> Actual(suite, key)]]

Written(root, layout) ==
    LET suite == [cases |-> [k \in DOMAIN ran |-> CaseOf(ran[k], layout)], odd |-> FALSE,
                  counters |-> [key \in Counters |-> 0]]
    IN  [root |-> root, aggregates |-> <<>>, suites |-> <<Recount(suite)>>]

\* What is a report, whatever befell it.
IsReport(r) ==
    /\ DOMAIN r.suites = 1..Len(r.suites) /\ Len(r.suites) \in Nat
    /\ \A k \in DOMAIN r.suites : LET cases == r.suites[k].cases IN
           /\ DOMAIN cases = 1..Len(cases) /\ Len(cases) \in Nat
           /\ \A i \in DOMAIN cases :
                  /\ cases[i].name \in Seq(STRING)
                  /\ cases[i].tags \subseteq Tags

Init ==
    /\ ran = <<>>
    /\ report = Missing
    /\ spoils = 0
    /\ arguments = NoArguments
    /\ verdict = "none"

\* A test runs; one that is not collected never does.
RunTest(i) ==
    /\ report = Missing /\ verdict = "none"
    /\ \A k \in DOMAIN ran : ran[k].test < i
    /\ \E o \in {"passed"} \cup Tags : ran' = Append(ran, [test |-> i, outcome |-> o])
    /\ UNCHANGED <<report, spoils, arguments, verdict>>

\* pytest --junitxml at the end of the session, if it gets there.
WriteReport ==
    /\ report = Missing /\ verdict = "none"
    /\ \E root \in {"testsuite", "testsuites"}, layout \in {"xunit1", "xunit2"} :
           report' = Written(root, layout)
    /\ UNCHANGED <<ran, spoils, arguments, verdict>>

Spoil ==
    /\ report.root \notin {"missing", "unreadable"} /\ verdict = "none"
    /\ spoils < MaxSpoils
    /\ report' \in Spoilt(report) /\ IsReport(report')
    /\ spoils' = spoils + 1
    /\ UNCHANGED <<ran, arguments, verdict>>

\* Faulty variant: without a report the guard has nothing to say.
GuardOfReports(a) ==
    /\ verdict = "none"
    /\ arguments' = a
    /\ verdict' = IF report = Missing THEN "none" ELSE IF Passes(report, a) THEN "passed" ELSE "refused"
    /\ UNCHANGED <<ran, report, spoils>>

\* The guard's step always runs, with or without a report.
Guard(a) ==
    /\ verdict = "none"
    /\ arguments' = a
    /\ verdict' = IF Passes(report, a) THEN "passed" ELSE "refused"
    /\ UNCHANGED <<ran, report, spoils>>

Next ==
    \/ \E i \in Positions : RunTest(i)
    \/ WriteReport
    \/ Spoil
    \/ \E a \in ArgumentSets : Guard(a)

Spec == Init /\ [][Next]_vars

-----------------------------------------------------------------------------
(* Properties *)

\* Every variable has its type: what lies at the report's path, if anything,
\* is a list of suites of cases, and there is no verdict without arguments.
TypeOK ==
    /\ ran \in Seq([test : Positions, outcome : {"passed"} \cup Tags])
    /\ report = Missing \/ IsReport(report)
    /\ spoils \in 0..MaxSpoils
    /\ verdict \in {"none", "passed", "refused"}
    /\ (verdict = "none") = (arguments = NoArguments)

\* Over the report as pytest wrote it, exact mode passes precisely when the
\* required tests, and no others, ran and passed
\* (scripts/assert_real_oqs_junit_not_skipped.py:97-179).
ProofMeansPassed ==
    (/\ verdict # "none" /\ spoils = 0 /\ report # Missing
     /\ ArgumentsHold(arguments) /\ Exact(arguments))
    => ((verdict = "passed")
        <=> (/\ {NodeId(t.test) : t \in Range(ran)} = Range(arguments.required)
             /\ \A t \in Range(ran) : t.outcome = "passed"))

\* Whatever became of the report, one that passes has no case with a failure,
\* an error or a skip anywhere in it
\* (scripts/assert_real_oqs_junit_not_skipped.py:119-159).
NothingHidden ==
    verdict = "passed" =>
        \A c \in Cases(report) : c.tags \cup c.buried = {}

\* A case is the one of a node by its name alone, or by its name behind its
\* file or its class.
IsNamed(c, id) == c.name = id

IsPlaced(c, id) ==
    /\ c.name = <<id[2]>>
    /\ \/ id[1] \in {c.file, c.class}
       \/ c.class # "" /\ PathOf(c.class) = id[1]

IsCaseOf(c, id) == IsNamed(c, id) \/ IsPlaced(c, id)

\* Whatever became of the report, in exact mode the cases of one that passes
\* and the required nodes correspond one to one: no node is missing or has two
\* cases, no case is of no node or of two.  A case of another module counts
\* only where its name is the whole node id, which the script takes as it is
\* (scripts/assert_real_oqs_junit_not_skipped.py:46-55, 161-179).
OneCaseEach ==
    verdict = "passed" /\ Exact(arguments) =>
        LET required == Range(arguments.required) IN
        /\ \A id \in required :
               Cardinality({p \in Places(report) : IsCaseOf(CaseAt(report, p), id)}) = 1
        /\ \A c \in Cases(report) :
               Cardinality({id \in required : IsCaseOf(c, id)}) = 1
=============================================================================
