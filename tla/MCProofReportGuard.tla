------------------------- MODULE MCProofReportGuard -------------------------
(***************************************************************************)
(* A job of three tests, two of them with one name in different files, and *)
(* the accidents the tests of the guard make happen to a report.           *)
(***************************************************************************)
EXTENDS ProofReportGuard, SequencesExt

Tests ==
    <<[name |-> "test_proof", class |-> "tests.mldsa"],
      [name |-> "test_proof", class |-> "tests.falcon"],
      [name |-> "test_other", class |-> "tests.falcon"]>>

PathOfClass(class) ==
    CASE class = "tests.mldsa" -> "tests/mldsa.py"
      [] class = "tests.falcon" -> "tests/falcon.py"
      [] class = "tests.other" -> "tests/other.py"
      [] OTHER -> ".py"

TestFiles == {"tests/mldsa.py", "tests/falcon.py"}
TestNames == {"test_proof", "test_other"}

Mldsa == <<"tests/mldsa.py", "test_proof">>
Falcon == <<"tests/falcon.py", "test_proof">>

Call(minimum, exact, required) ==
    [minimum |-> minimum, exact |-> exact, required |-> required]

Calls ==
    {Call(2, 2, <<Mldsa, Falcon>>),
     Call(1, 1, <<Falcon>>),
     Call(1, 0, <<>>),
     Call(2, 0, <<Mldsa, Falcon>>),
     Call(1, 0, <<<<"test_proof">>>>),
     Call(2, 2, <<Mldsa, Mldsa>>),
     Call(2, 2, <<<<"test_proof">>, Falcon>>),
     Call(1, 1, <<<<"tests/mldsa.py", "proof">>>>),
     Call(2, 1, <<Mldsa>>)}

\* Accidents of a suite: a case spoilt, lost or doubled, with the counters
\* kept or made to fit, or a counter that lies or is no number.
SpoiltCase(c) ==
    {[c EXCEPT !.tags = @ \cup {"failure"}],
     [c EXCEPT !.tags = {}],
     [c EXCEPT !.buried = {"skipped"}],
     [c EXCEPT !.odd = TRUE],
     [c EXCEPT !.class = ""],
     [c EXCEPT !.class = "tests.mldsa"],
     [c EXCEPT !.file = "tests/falcon.py"],
     [c EXCEPT !.name = <<>>]}
    \cup {[c EXCEPT !.name = Falcon, !.class = class] : class \in {"tests.mldsa", "tests.other"}}

SpoiltSuite(s) ==
    LET changed ==
            {[s EXCEPT !.cases[i] = c] :
                i \in DOMAIN s.cases,
                c \in UNION {SpoiltCase(s.cases[j]) : j \in DOMAIN s.cases}}
            \cup {[s EXCEPT !.cases = RemoveAt(@, i)] : i \in DOMAIN s.cases}
            \cup {[s EXCEPT !.cases = Append(@, s.cases[i])] : i \in DOMAIN s.cases}
    IN  changed \cup {Recount(t) : t \in changed}
        \cup {[s EXCEPT !.counters[key] = n] : key \in Counters, n \in {0, 100}}
        \cup {[s EXCEPT !.odd = TRUE]}

SpoiltReport(r) ==
    {[r EXCEPT !.suites[i] = s] :
        i \in DOMAIN r.suites, s \in UNION {SpoiltSuite(r.suites[j]) : j \in DOMAIN r.suites}}
    \cup {[r EXCEPT !.suites = <<>>],
          [r EXCEPT !.root = "report"],
          [r EXCEPT !.root = "testsuites", !.suites = @ \o @],
          [r EXCEPT !.root = "testsuites", !.aggregates = [tests |-> 0]],
          [r EXCEPT !.root = "unreadable"]}
=============================================================================
