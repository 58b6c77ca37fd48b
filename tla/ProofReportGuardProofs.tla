----------------------- MODULE ProofReportGuardProofs -----------------------
(***************************************************************************)
(* Theorems of ProofReportGuard for any job, any accidents to its report,  *)
(* and reports with any number of suites and cases.                        *)
(***************************************************************************)
EXTENDS ProofReportGuard, FiniteSetTheorems, SequenceTheorems, NaturalsInduction,
        WellFoundedInduction, TLAPS

-----------------------------------------------------------------------------
(* The sums of the counters.  Induction over the suites is by the least     *)
(* number at which a claim fails.                                           *)

LEMMA LeastExists ==
    ASSUME NEW S \in SUBSET Nat, S # {}
    PROVE  \E m \in S : \A n \in S : m =< n
<1> DEFINE Less == {p \in Nat \X Nat : p[1] < p[2]}
<1>1. IsWellFoundedOn(Less, Nat)
  BY NatLessThanWellFounded DEF OpToRel
<1>2. PICK m \in S : \A n \in S : ~ (<<n, m>> \in Less)
  <2> HIDE DEF Less
  <2> QED
    BY <1>1, WFMin
<1>3. \A n \in S : m =< n
  <2> TAKE n \in S
  <2>1. n \in Nat /\ m \in Nat /\ ~ (n < m)
    BY <1>2
  <2> QED
    BY <2>1
<1> QED
  BY <1>3

IsSum(g, n, r, key) ==
    g = [k \in 0..n |-> IF k = 0 THEN 0 ELSE g[k - 1] + r.suites[k].counters[key]]

LEMMA SumExists ==
    ASSUME NEW n \in Nat, NEW r, NEW key
    PROVE  \E g : IsSum(g, n, r, key)
<1> DEFINE Bad == {m \in Nat : ~ \E g : IsSum(g, m, r, key)}
<1>1. SUFFICES ASSUME Bad # {} PROVE FALSE
  OBVIOUS
<1>2. PICK m \in Bad : \A l \in Bad : m =< l
  <2>1. Bad \in SUBSET Nat
    OBVIOUS
  <2> HIDE DEF Bad
  <2> QED
    BY <1>1, <2>1, LeastExists
<1>3. CASE m = 0
  <2> DEFINE g == [k \in 0..0 |-> 0]
  <2>1. g = [k \in 0..0 |-> IF k = 0 THEN 0 ELSE g[k - 1] + r.suites[k].counters[key]]
    OBVIOUS
  <2>2. IsSum(g, m, r, key)
    BY <1>3, <2>1 DEF IsSum
  <2> QED
    BY <2>2
<1>4. CASE m # 0
  <2>1. m - 1 \in Nat /\ m \in Nat /\ m - 1 \notin Bad
    BY <1>2, <1>4
  <2>2. PICK g : IsSum(g, m - 1, r, key)
    BY <2>1
  <2> DEFINE h == [k \in 0..m |-> IF k = m THEN g[m - 1] + r.suites[m].counters[key] ELSE g[k]]
             next(k) == IF k = 0 THEN 0 ELSE h[k - 1] + r.suites[k].counters[key]
  <2>3. \A k \in 0..m - 1 :
            g[k] = IF k = 0 THEN 0 ELSE g[k - 1] + r.suites[k].counters[key]
    BY <2>2 DEF IsSum
  <2>4. h[m - 1] = g[m - 1]
    BY <2>1
  <2>5. \A k \in 0..m : h[k] = next(k)
    <3> TAKE k \in 0..m
    <3>1. CASE k = m
      BY <1>4, <2>4, <3>1
    <3>2. CASE k = 0
      BY <1>4, <2>1, <2>3, <3>2
    <3>3. CASE k # 0 /\ k # m
      <4>1. k \in 0..m - 1 /\ k - 1 \in 0..m /\ k - 1 # m
        BY <2>1, <3>3
      <4>2. h[k] = g[k] /\ h[k - 1] = g[k - 1]
        BY <3>3, <4>1
      <4> QED
        BY <2>3, <3>3, <4>1, <4>2
    <3> QED
      BY <3>1, <3>2, <3>3
  <2>6. h = [k \in 0..m |-> next(k)]
    <3>1. h = [k \in 0..m |-> h[k]]
      OBVIOUS
    <3> HIDE DEF h
    <3> QED
      BY <2>5, <3>1
  <2>7. IsSum(h, m, r, key)
    BY <2>6 DEF IsSum
  <2> QED
    BY <2>7
<1> QED
  BY <1>3, <1>4

\* The total is the last of the sums over the first suites.
LEMMA TotalIsASum ==
    ASSUME NEW r, NEW key, Len(r.suites) \in Nat
    PROVE  \E g : /\ g[0] = 0
                  /\ \A k \in 1..Len(r.suites) :
                         g[k] = g[k - 1] + r.suites[k].counters[key]
                  /\ Total(r, key) = g[Len(r.suites)]
<1> DEFINE n == Len(r.suites)
           g == CHOOSE f : IsSum(f, n, r, key)
<1>1. IsSum(g, n, r, key)
  BY SumExists, Zenon
<1>2. Total(r, key) = g[n]
  BY DEF Total, IsSum
<1> HIDE DEF g, n
<1>3. n \in Nat
  BY DEF n
<1>4. g[0] = 0 /\ \A k \in 1..n : g[k] = g[k - 1] + r.suites[k].counters[key]
  <2> DEFINE body(k) == IF k = 0 THEN 0 ELSE g[k - 1] + r.suites[k].counters[key]
  <2>1. \A k \in 0..n : g[k] = body(k)
    BY <1>1, Zenon DEF IsSum
  <2>2. 0 \in 0..n /\ \A k \in 1..n : k \in 0..n /\ k # 0
    BY <1>3
  <2> QED
    BY <2>1, <2>2
<1> QED
  BY <1>2, <1>4 DEF n

\* A sum of natural numbers is zero only if each of them is.
LEMMA TotalZero ==
    ASSUME NEW r, NEW key, Len(r.suites) \in Nat,
           \A k \in 1..Len(r.suites) : r.suites[k].counters[key] \in Nat,
           Total(r, key) = 0
    PROVE  \A k \in 1..Len(r.suites) : r.suites[k].counters[key] = 0
<1>1. PICK g : /\ g[0] = 0
               /\ \A k \in 1..Len(r.suites) : g[k] = g[k - 1] + r.suites[k].counters[key]
               /\ Total(r, key) = g[Len(r.suites)]
  BY TotalIsASum
<1> DEFINE n == Len(r.suites)
           c(k) == r.suites[k].counters[key]
           Holds(k) == /\ g[k] \in Nat
                       /\ g[k] = 0 => \A j \in 1..k : c(j) = 0
           Bad == {k \in 0..n : ~ Holds(k)}
<1>2. n \in Nat /\ \A k \in 1..n : c(k) \in Nat /\ g[k] = g[k - 1] + c(k)
  BY <1>1
<1> HIDE DEF n, c
<1>3. Bad = {}
  <2>1. SUFFICES ASSUME Bad # {} PROVE FALSE
    OBVIOUS
  <2>2. PICK m \in Bad : \A l \in Bad : m =< l
    <3>1. Bad \in SUBSET Nat
      BY <1>2
    <3> HIDE DEF Bad
    <3> QED
      BY <2>1, <3>1, LeastExists
  <2>3. Holds(0)
    BY <1>1
  <2>4. m # 0 /\ m \in 0..n
    BY <2>2, <2>3
  <2>5. m \in 1..n /\ m - 1 \in 0..n /\ m - 1 \notin Bad
    BY <1>2, <2>2, <2>4
  <2>6. Holds(m - 1)
    BY <2>5
  <2>7. g[m] = g[m - 1] + c(m) /\ c(m) \in Nat /\ g[m - 1] \in Nat
    BY <1>2, <2>5, <2>6
  <2>8. g[m] = 0 => \A j \in 1..m : c(j) = 0
    <3> HAVE g[m] = 0
    <3>1. g[m - 1] = 0 /\ c(m) = 0
      BY <2>7
    <3> TAKE j \in 1..m
    <3>2. j = m \/ j \in 1..m - 1
      BY <1>2, <2>5
    <3> QED
      BY <2>6, <3>1, <3>2
  <2>9. Holds(m)
    BY <2>7, <2>8
  <2> QED
    BY <2>2, <2>9
<1>4. Holds(n)
  BY <1>2, <1>3
<1>5. g[n] = 0
  BY <1>1 DEF n
<1> QED
  BY <1>4, <1>5 DEF n, c
-----------------------------------------------------------------------------
(* What a report that passes is like.                                       *)

LEMMA ActualIsNatural ==
    ASSUME NEW suite, NEW key \in Counters,
           DOMAIN suite.cases = 1..Len(suite.cases), Len(suite.cases) \in Nat
    PROVE  /\ Actual(suite, key) \in Nat
           /\ key # "tests" /\ Actual(suite, key) = 0 =>
                  \A i \in DOMAIN suite.cases : TagOf[key] \notin suite.cases[i].tags
<1>1. CASE key = "tests"
  BY <1>1 DEF Actual
<1>2. CASE key # "tests"
  <2> DEFINE tagged == {i \in DOMAIN suite.cases : TagOf[key] \in suite.cases[i].tags}
  <2>1. Actual(suite, key) = Cardinality(tagged)
    BY <1>2 DEF Actual
  <2>2. IsFiniteSet(tagged)
    <3>1. IsFiniteSet(1..Len(suite.cases))
      BY FS_Interval
    <3>2. tagged \subseteq 1..Len(suite.cases)
      OBVIOUS
    <3> HIDE DEF tagged
    <3> QED
      BY <3>1, <3>2, FS_Subset
  <2>3. Cardinality(tagged) \in Nat /\ (Cardinality(tagged) = 0 => tagged = {})
    <3> HIDE DEF tagged
    <3> QED
      BY <2>2, FS_CardinalityType, FS_EmptySet
  <2> QED
    BY <2>1, <2>3
<1> QED
  BY <1>1, <1>2

LEMMA PassedHidesNothing ==
    ASSUME NEW r, NEW a, IsReport(r), Passes(r, a)
    PROVE  \A c \in Cases(r) : c.tags \cup c.buried = {}
<1>1. /\ Len(r.suites) \in Nat /\ DOMAIN r.suites = 1..Len(r.suites)
      /\ \A k \in DOMAIN r.suites :
             /\ DOMAIN r.suites[k].cases = 1..Len(r.suites[k].cases)
             /\ Len(r.suites[k].cases) \in Nat
             /\ \A i \in DOMAIN r.suites[k].cases : r.suites[k].cases[i].tags \subseteq Tags
  BY DEF IsReport
<1>2. \A k \in DOMAIN r.suites, key \in Counters :
          r.suites[k].counters[key] = Actual(r.suites[k], key)
  BY DEF Passes, CountersHold, Range
<1>3. ASSUME NEW key \in {"skipped", "failures", "errors"}, NEW k \in DOMAIN r.suites
      PROVE  \A i \in DOMAIN r.suites[k].cases : TagOf[key] \notin r.suites[k].cases[i].tags
  <2>1. key \in Counters /\ key # "tests"
    BY <1>3 DEF Counters
  <2>2. \A l \in 1..Len(r.suites) : r.suites[l].counters[key] \in Nat
    BY <1>1, <1>2, <2>1, ActualIsNatural
  <2>3. Total(r, key) = 0
    BY <1>3 DEF Passes, CountsHold
  <2>4. r.suites[k].counters[key] = 0
    BY <1>1, <2>2, <2>3, TotalZero
  <2> QED
    BY <1>1, <1>2, <2>1, <2>4, ActualIsNatural
<1>4. ASSUME NEW p \in Places(r)
      PROVE  CaseAt(r, p).tags = {} /\ CaseAt(r, p).buried = {}
  <2>1. PICK k \in DOMAIN r.suites : p \in {k} \X DOMAIN r.suites[k].cases
    BY <1>4 DEF Places
  <2>2. p[1] = k /\ p[2] \in DOMAIN r.suites[k].cases
    BY <2>1
  <2> DEFINE c == CaseAt(r, p)
  <2>3. c = r.suites[k].cases[p[2]]
    BY <2>2 DEF CaseAt
  <2>4. c.buried = {}
    BY <1>4 DEF Passes, Structured, Cases
  <2>5. c.tags \subseteq {"skipped", "failure", "error"}
    BY <1>1, <2>2, <2>3 DEF Tags
  <2>6. "skipped" \notin c.tags /\ "failure" \notin c.tags /\ "error" \notin c.tags
    <3>1. /\ TagOf["skipped"] = "skipped" /\ TagOf["failures"] = "failure"
          /\ TagOf["errors"] = "error"
      BY DEF TagOf
    <3> QED
      BY <1>3, <2>2, <2>3, <3>1
  <2> HIDE DEF c
  <2>7. c.tags = {}
    BY <2>5, <2>6
  <2> QED
    BY <2>4, <2>7 DEF c
<1> QED
  BY <1>4 DEF Cases

\* One text makes a name, and behind a place a pair.
LEMMA OneText ==
    ASSUME NEW S, NEW text \in S
    PROVE  <<text>> \in Seq(S) /\ <<text>> # <<>>
  OBVIOUS

LEMMA BehindOneText ==
    ASSUME NEW place, NEW last
    PROVE  Behind(place, <<last>>) = <<place, last>>
<1> DEFINE S == {place, last}
           one == <<place>>
           name == <<last>>
           pair == <<place, last>>
           both == one \o name
<1>1. one \in Seq(S) /\ Len(one) = 1 /\ one[1] = place
  OBVIOUS
<1>2. name \in Seq(S) /\ Len(name) = 1 /\ name[1] = last
  OBVIOUS
<1>3. pair \in Seq(S) /\ Len(pair) = 2 /\ pair[1] = place /\ pair[2] = last
  OBVIOUS
<1> HIDE DEF S, one, name, pair
<1>4. /\ both \in Seq(S) /\ Len(both) = Len(one) + Len(name)
      /\ \A i \in 1..Len(one) + Len(name) :
             both[i] = IF i <= Len(one) THEN one[i] ELSE name[i - Len(one)]
  BY <1>1, <1>2, ConcatProperties, Zenon
<1> HIDE DEF both
<1>5. Len(both) = 2 /\ both[1] = place /\ both[2] = last
  BY <1>1, <1>2, <1>4
<1>6. \A i \in 1..Len(both) : both[i] = pair[i]
  BY <1>3, <1>5
<1>7. both = pair
  BY <1>3, <1>4, <1>5, <1>6, SeqEqual
<1> QED
  BY <1>7 DEF Behind, both, one, name, pair

\* Behind a place, a name gives a pair if it is one text.
LEMMA PairBehind ==
    ASSUME NEW T, NEW place, NEW name \in Seq(T), NEW path, NEW last
    PROVE  /\ Behind(place, name) = <<path, last>> => place = path /\ name = <<last>>
           /\ place = path /\ name = <<last>> => Behind(place, name) = <<path, last>>
<1> DEFINE S == T \cup {place, path, last}
           one == <<place>>
           both == one \o name
<1>1. name \in Seq(S)
  OBVIOUS
<1>2. one \in Seq(S) /\ Len(one) = 1 /\ one[1] = place
  OBVIOUS
<1>3. <<last>> \in Seq(S) /\ <<path, last>> \in Seq(S)
  OBVIOUS
<1> HIDE DEF S, one
<1>4. Len(name) \in Nat
  BY <1>1
<1>5. /\ both \in Seq(S) /\ Len(both) = Len(one) + Len(name)
      /\ \A i \in 1..Len(one) + Len(name) :
             both[i] = IF i <= Len(one) THEN one[i] ELSE name[i - Len(one)]
  BY <1>1, <1>2, ConcatProperties, Zenon
<1> HIDE DEF both
<1>6. both[1] = place
  BY <1>2, <1>4, <1>5
<1>7. Len(name) = 1 => both[2] = name[1]
  BY <1>2, <1>5
<1>8. ASSUME both = <<path, last>>
      PROVE  place = path /\ name = <<last>>
  <2>1. Len(both) = 2 /\ both[1] = path /\ both[2] = last
    BY <1>8
  <2>2. Len(name) = 1
    <3>1. Len(both) = Len(one) + Len(name) /\ Len(one) = 1
      BY <1>2, <1>5
    <3> DEFINE m == Len(name)
               n == Len(both)
    <3>2. n = 1 + m /\ m \in Nat /\ n = 2
      BY <1>4, <2>1, <3>1
    <3> HIDE DEF m, n
    <3>3. m = 1
      BY <3>2
    <3> QED
      BY <3>3 DEF m
  <2>3. name[1] = last /\ place = path
    BY <1>6, <1>7, <2>1, <2>2
  <2>4. Len(<<last>>) = 1 /\ <<last>>[1] = last
    OBVIOUS
  <2>5. \A i \in 1..Len(name) : name[i] = <<last>>[i]
    BY <2>2, <2>3, <2>4
  <2>6. name = <<last>>
    BY <1>1, <1>3, <2>2, <2>4, <2>5, SeqEqual
  <2> QED
    BY <2>3, <2>6
<1>9. ASSUME place = path, name = <<last>>
      PROVE  both = <<path, last>>
  BY <1>9, BehindOneText DEF Behind, both, one
<1> QED
  BY <1>8, <1>9 DEF Behind, both, one

\* A required node id of exact mode is a path and a name.
LEMMA RequiredIsFull ==
    ASSUME NEW a \in ArgumentSets, ArgumentsHold(a), Exact(a), NEW id \in Range(a.required)
    PROVE  id = <<id[1], id[2]>> /\ id[1] \in FullPaths
<1>1. a.required \in Seq(Seq(STRING))
  BY ArgumentsAssumption
<1>2. PICK i \in DOMAIN a.required : id = a.required[i]
  BY DEF Range
<1>3. id \in Seq(STRING)
  BY <1>1, <1>2
<1>4. Len(id) = 2 /\ id[1] \in FullPaths
  BY <1>2 DEF ArgumentsHold, IsFull
<1> QED
  BY <1>3, <1>4

\* A case that matches at all matches what it is the case of.
LEMMA MatchesItsNodes ==
    ASSUME NEW a \in ArgumentSets, ArgumentsHold(a), Exact(a),
           NEW c, c.name \in Seq(STRING), Matches(c, a) # {}
    PROVE  Matches(c, a) = {id \in Range(a.required) : IsCaseOf(c, id)}
<1>1. c.name # <<>>
  BY DEF Matches, Candidates
<1>2. ASSUME NEW id \in Range(a.required)
      PROVE  id \in Candidates(c) <=> IsCaseOf(c, id)
  <2>1. id = <<id[1], id[2]>> /\ id[1] \in FullPaths
    BY <1>2, RequiredIsFull
  <2>2. id[1] # ""
    BY <2>1, ArgumentsAssumption
  <2> DEFINE path == id[1]
             name == id[2]
  <2>3. id = <<path, name>> /\ path # ""
    BY <2>1, <2>2
  <2> HIDE DEF path, name
  <2>4. \A place : id = Behind(place, c.name) <=> place = path /\ c.name = <<name>>
    <3>1. PICK n \in Seq(STRING) : n = c.name
      OBVIOUS
    <3>2. ASSUME NEW place
          PROVE  Behind(place, n) = <<path, name>> <=> place = path /\ n = <<name>>
      BY PairBehind
    <3> QED
      BY <2>3, <3>1, <3>2, Zenon
  <2>5. id \in Candidates(c) <=>
            \/ id = c.name
            \/ /\ c.name = <<name>>
               /\ \/ c.class # "" /\ path = c.class
                  \/ c.class # "" /\ path = PathOf(c.class)
                  \/ c.file # "" /\ path = c.file
    <3>1. id \in Candidates(c) <=>
              \/ id = c.name
              \/ c.class # "" /\ id = Behind(c.class, c.name)
              \/ c.class # "" /\ id = Behind(PathOf(c.class), c.name)
              \/ c.file # "" /\ id = Behind(c.file, c.name)
      BY <1>1, Zenon DEF Candidates
    <3> QED
      BY <2>4, <3>1, Zenon
  <2>6. path # ""
    BY <2>3
  <2>7. ASSUME id \in Candidates(c) PROVE IsCaseOf(c, id)
    BY <2>5, <2>7 DEF IsCaseOf, IsNamed, IsPlaced, path, name
  <2>8. ASSUME IsCaseOf(c, id) PROVE id \in Candidates(c)
    <3>1. \/ c.name = id
          \/ /\ c.name = <<name>>
             /\ \/ path = c.file
                \/ path = c.class
                \/ c.class # "" /\ PathOf(c.class) = path
      BY <2>8 DEF IsCaseOf, IsNamed, IsPlaced, path, name
    <3> QED
      BY <2>5, <2>6, <3>1
  <2> QED
    BY <2>7, <2>8
<1> QED
  BY <1>2 DEF Matches

LEMMA PassedIsOneToOne ==
    ASSUME NEW r, IsReport(r), NEW a \in ArgumentSets, Passes(r, a), Exact(a)
    PROVE  /\ \A id \in Range(a.required) :
                  Cardinality({p \in Places(r) : IsCaseOf(CaseAt(r, p), id)}) = 1
           /\ \A c \in Cases(r) :
                  Cardinality({id \in Range(a.required) : IsCaseOf(c, id)}) = 1
<1>1. ArgumentsHold(a) /\ ExactIdentity(r, a)
  BY DEF Passes
<1>2. \A c \in Cases(r) : Cardinality(Matches(c, a)) = 1
  BY <1>1 DEF ExactIdentity
<1>3. \A c \in Cases(r) : Matches(c, a) = {id \in Range(a.required) : IsCaseOf(c, id)}
  <2> TAKE c \in Cases(r)
  <2>1. Matches(c, a) # {}
    BY <1>2, FS_EmptySet
  <2>2. c.name \in Seq(STRING)
    BY DEF Cases, CaseAt, Places, IsReport
  <2> QED
    BY <1>1, <2>1, <2>2, MatchesItsNodes
<1>4. ASSUME NEW id \in Range(a.required)
      PROVE  Cardinality({p \in Places(r) : IsCaseOf(CaseAt(r, p), id)}) = 1
  <2>1. \A p \in Places(r) : IsCaseOf(CaseAt(r, p), id) <=> id \in Matches(CaseAt(r, p), a)
    BY <1>3, <1>4 DEF Cases
  <2>2. PICK p \in Places(r) : id \in Matches(CaseAt(r, p), a)
    BY <1>1, <1>4 DEF ExactIdentity, Cases
  <2>3. \A q \in Places(r) : id \in Matches(CaseAt(r, q), a) => q = p
    BY <1>1, <2>2 DEF ExactIdentity
  <2>4. {q \in Places(r) : IsCaseOf(CaseAt(r, q), id)} = {p}
    BY <2>1, <2>2, <2>3
  <2> QED
    BY <2>4, FS_Singleton
<1> QED
  BY <1>2, <1>3, <1>4
-----------------------------------------------------------------------------
(* The report as pytest wrote it.                                           *)

Outcomes == {"passed"} \cup Tags
Layouts == {"xunit1", "xunit2"}
Roots == {"testsuite", "testsuites"}

RanOK == ran \in Seq([test : Positions, outcome : Outcomes])

\* The tests run in their order, each at most once.
InOrder == \A k, l \in DOMAIN ran : k < l => ran[k].test < ran[l].test

\* What an injective function on 1..n reaches has n elements.
LEMMA CountOfInjective ==
    ASSUME NEW n \in Nat, NEW f, DOMAIN f = 1..n, f = [i \in 1..n |-> f[i]],
           \A i, j \in 1..n : f[i] = f[j] => i = j
    PROVE  Cardinality(Range(f)) = n
<1>1. f \in Bijection(1..n, Range(f))
  BY DEF Bijection, Injection, Surjection, IsInjective, Range
<1> QED
  BY <1>1, FS_CountingElements DEF ExistsBijection

LEMMA JobTexts ==
    ASSUME NEW i \in Positions
    PROVE  /\ JobTests[i].class # "" /\ JobTests[i].class \notin FullPaths
           /\ JobTests[i].name \in STRING
<1>1. JobTests[i].class # "" /\ JobTests[i].class \notin FullPaths
  BY JobAssumption, Zenon DEF Positions
<1>2. JobTests[i].name \in STRING
  <2> DEFINE T == [name : STRING, class : STRING]
  <2>1. JobTests \in Seq(T)
    BY JobAssumption, Zenon
  <2>2. JobTests[i] \in T
    <3> HIDE DEF T
    <3> QED
      BY <2>1 DEF Positions
  <2> QED
    BY <2>2
<1> QED
  BY <1>1, <1>2

\* A test's case matches its node id, if that is required.
LEMMA CaseMatches ==
    ASSUME NEW a \in ArgumentSets, ArgumentsHold(a), Exact(a),
           NEW t \in [test : Positions, outcome : Outcomes], NEW layout \in Layouts
    PROVE  LET c == CaseOf(t, layout) IN
           /\ Matches(c, a) = {NodeId(t.test)} \cap Range(a.required)
           /\ ~ Conflicting(c)
<1> DEFINE c == CaseOf(t, layout)
           name == JobTests[t.test].name
           class == JobTests[t.test].class
<1>1. /\ c.name = <<name>> /\ c.class = class /\ c.file \in {PathOf(class), ""}
  BY DEF CaseOf
<1>2. class # "" /\ class \notin FullPaths /\ name \in STRING
  BY JobTexts
<1>3. NodeId(t.test) = <<PathOf(class), name>>
  BY DEF NodeId
<1> HIDE DEF c, name, class
<1>4. ~ Conflicting(c)
  BY <1>1 DEF Conflicting
<1>5. ASSUME NEW id \in Range(a.required)
      PROVE  id \in Candidates(c) <=> id = <<PathOf(class), name>>
  <2>1. id = <<id[1], id[2]>> /\ id[1] \in FullPaths
    BY <1>5, RequiredIsFull
  <2> DEFINE path == id[1]
             last == id[2]
  <2>2. id = <<path, last>> /\ path # class
    BY <1>2, <2>1
  <2> HIDE DEF path, last
  <2>3. id # <<name>> /\ id # <<class, name>>
    BY <2>2
  <2>4. /\ Candidates(c) \subseteq {<<name>>, <<class, name>>, <<PathOf(class), name>>}
        /\ <<PathOf(class), name>> \in Candidates(c)
    <3>1. c.name \in Seq(STRING) /\ c.name # <<>>
      BY <1>1, <1>2, OneText, Zenon
    <3>2. \A place : Behind(place, c.name) = <<place, name>>
      BY <1>1, BehindOneText, Zenon
    <3>3. Candidates(c) = {c.name, <<class, name>>, <<PathOf(class), name>>}
                          \cup (IF c.file = "" THEN {} ELSE {<<c.file, name>>})
      BY <1>1, <1>2, <3>1, <3>2 DEF Candidates
    <3> QED
      BY <1>1, <3>3
  <2> QED
    BY <2>3, <2>4
<1>6. Matches(c, a) = {NodeId(t.test)} \cap Range(a.required)
  BY <1>3, <1>5 DEF Matches
<1> QED
  BY <1>4, <1>6 DEF c

\* It is a report, it is sound, and counts its cases.
LEMMA WrittenIsSound ==
    ASSUME RanOK, NEW root \in Roots, NEW layout \in Layouts
    PROVE  LET r == Written(root, layout) IN
           /\ r.root = root
           /\ IsReport(r) /\ Structured(r) /\ CountersHold(r) /\ AggregatesHold(r)
           /\ Places(r) = {1} \X DOMAIN ran
           /\ \A k \in DOMAIN ran : CaseAt(r, <<1, k>>) = CaseOf(ran[k], layout)
           /\ Total(r, "tests") = Len(ran)
           /\ (\A k \in DOMAIN ran : ran[k].outcome = "passed") =>
                  \A key \in {"skipped", "failures", "errors"} : Total(r, key) = 0
<1> DEFINE r == Written(root, layout)
           cases == [k \in DOMAIN ran |-> CaseOf(ran[k], layout)]
           suite == [cases |-> cases, odd |-> FALSE, counters |-> [key \in Counters |-> 0]]
           s == Recount(suite)
<1>1. /\ r.root = root /\ r.aggregates = <<>> /\ r.suites = <<s>>
  BY DEF Written
<1>2. /\ s.cases = cases /\ s.odd = FALSE
      /\ \A key \in Counters : s.counters[key] = Actual(suite, key)
  BY DEF Recount
<1>3. suite.cases = cases
  OBVIOUS
<1>4. DOMAIN ran = 1..Len(ran) /\ Len(ran) \in Nat
  BY DEF RanOK
<1>5. DOMAIN cases = 1..Len(ran) /\ Len(cases) = Len(ran)
  BY <1>4
<1>6. \A k \in DOMAIN ran :
          /\ cases[k] = CaseOf(ran[k], layout)
          /\ cases[k].name = <<JobTests[ran[k].test].name>>
          /\ cases[k].tags = {ran[k].outcome} \cap Tags
          /\ cases[k].buried = {} /\ cases[k].odd = FALSE
  BY DEF CaseOf
<1> HIDE DEF cases, suite, s, r
<1>7. \A key \in Counters : s.counters[key] = Actual(s, key)
  BY <1>2, <1>3 DEF Actual
<1>8. /\ DOMAIN r.suites = {1} /\ Len(r.suites) = 1 /\ r.suites[1] = s /\ 1..1 = {1}
      /\ Range(r.suites) = {s}
  BY <1>1 DEF Range
<1>9. Places(r) = {1} \X DOMAIN ran
  <2>1. Places(r) = {1} \X DOMAIN s.cases
    BY <1>8 DEF Places
  <2> QED
    BY <1>2, <1>4, <1>5, <2>1
<1>10. \A k \in DOMAIN ran : CaseAt(r, <<1, k>>) = cases[k]
  BY <1>2, <1>8 DEF CaseAt
<1>11. \A c \in Cases(r) : \E k \in DOMAIN ran : c = cases[k]
  BY <1>9, <1>10 DEF Cases
<1>12. IsReport(r)
  <2>1. \A k \in DOMAIN ran : cases[k].name \in Seq(STRING)
    <3> TAKE k \in DOMAIN ran
    <3>1. cases[k].name = <<JobTests[ran[k].test].name>> /\ ran[k].test \in Positions
      <4> DEFINE T == [test : Positions, outcome : Outcomes]
      <4>1. ran[k] \in T
        <5>1. ran \in Seq(T)
          BY DEF RanOK
        <5> HIDE DEF T
        <5> QED
          BY <5>1
      <4> QED
        BY <1>6, <4>1
    <3>2. JobTests[ran[k].test].name \in STRING
      BY <3>1, JobTexts
    <3> QED
      BY <3>1, <3>2
  <2> QED
    BY <1>2, <1>4, <1>5, <1>6, <1>8, <2>1 DEF IsReport
<1>13. Structured(r)
  <2>1. r.suites # <<>>
    BY <1>8
  <2> QED
    BY <1>1, <1>2, <1>6, <1>8, <1>11, <2>1 DEF Structured, Roots
<1>14. CountersHold(r)
  BY <1>7, <1>8 DEF CountersHold
<1>15. \A key \in Counters : Actual(s, key) \in Nat => Total(r, key) = Actual(s, key)
  <2> TAKE key \in Counters
  <2>1. PICK g : g[0] = 0 /\ (\A k \in 1..Len(r.suites) :
                                  g[k] = g[k - 1] + r.suites[k].counters[key])
                 /\ Total(r, key) = g[Len(r.suites)]
    BY <1>8, TotalIsASum
  <2>2. Total(r, key) = g[1] /\ g[1] = g[1 - 1] + Actual(s, key)
    BY <1>7, <1>8, <2>1
  <2> QED
    BY <2>1, <2>2
<1>16. AggregatesHold(r)
  BY <1>1 DEF AggregatesHold
<1>17. Total(r, "tests") = Len(ran)
  <2>1. Actual(s, "tests") = Len(ran)
    BY <1>2, <1>5 DEF Actual
  <2> QED
    BY <1>4, <1>15, <2>1 DEF Counters
<1>18. ASSUME \A k \in DOMAIN ran : ran[k].outcome = "passed",
              NEW key \in {"skipped", "failures", "errors"}
       PROVE  Total(r, key) = 0
  <2>1. \A k \in DOMAIN s.cases : TagOf[key] \notin s.cases[k].tags
    BY <1>2, <1>4, <1>5, <1>6, <1>18 DEF Tags
  <2>2. Actual(s, key) = Cardinality({})
    BY <1>18, <2>1 DEF Actual
  <2>3. Actual(s, key) = 0
    BY <2>2, FS_EmptySet
  <2> QED
    BY <1>15, <1>18, <2>3 DEF Counters
<1> QED
  BY <1>1, <1>6, <1>9, <1>10, <1>12, <1>13, <1>14, <1>16, <1>17, <1>18 DEF r
LEMMA WrittenPasses ==
    ASSUME RanOK, InOrder, NEW root \in Roots, NEW layout \in Layouts,
           NEW a \in ArgumentSets, ArgumentsHold(a), Exact(a)
    PROVE  Passes(Written(root, layout), a)
           <=> (/\ {NodeId(t.test) : t \in Range(ran)} = Range(a.required)
                /\ \A t \in Range(ran) : t.outcome = "passed")
<1> DEFINE r == Written(root, layout)
           nodes == {NodeId(t.test) : t \in Range(ran)}
           required == Range(a.required)
<1>1. /\ r.root = root
      /\ IsReport(r) /\ Structured(r) /\ CountersHold(r) /\ AggregatesHold(r)
      /\ Places(r) = {1} \X DOMAIN ran
      /\ \A k \in DOMAIN ran : CaseAt(r, <<1, k>>) = CaseOf(ran[k], layout)
      /\ Total(r, "tests") = Len(ran)
      /\ (\A k \in DOMAIN ran : ran[k].outcome = "passed") =>
             \A key \in {"skipped", "failures", "errors"} : Total(r, key) = 0
  BY WrittenIsSound
<1>2. /\ DOMAIN ran = 1..Len(ran) /\ Len(ran) \in Nat
      /\ \A k \in DOMAIN ran :
             /\ ran[k] \in [test : Positions, outcome : Outcomes]
             /\ ran[k].test \in Nat
  <2>1. DOMAIN ran = 1..Len(ran) /\ Len(ran) \in Nat
        /\ \A k \in DOMAIN ran : ran[k] \in [test : Positions, outcome : Outcomes]
    <3> DEFINE S == [test : Positions, outcome : Outcomes]
    <3>1. ran \in Seq(S)
      BY DEF RanOK
    <3> HIDE DEF S
    <3>2. DOMAIN ran = 1..Len(ran) /\ Len(ran) \in Nat /\ \A k \in DOMAIN ran : ran[k] \in S
      BY <3>1
    <3> QED
      BY <3>2 DEF S
  <2>2. Positions \subseteq Nat
    <3>1. \E S : JobTests \in Seq(S)
      BY JobAssumption, Zenon
    <3> QED
      BY <3>1 DEF Positions
  <2> QED
    BY <2>1, <2>2
<1> HIDE DEF r
<1>3. \A c \in Cases(r) : \E k \in DOMAIN ran : c = CaseOf(ran[k], layout)
  BY <1>1 DEF Cases
<1>4. \A k \in DOMAIN ran : CaseOf(ran[k], layout) \in Cases(r)
  BY <1>1 DEF Cases
<1>5. \A k \in DOMAIN ran :
          /\ Matches(CaseOf(ran[k], layout), a) = {NodeId(ran[k].test)} \cap required
          /\ ~ Conflicting(CaseOf(ran[k], layout))
  BY <1>2, CaseMatches
<1>6. \A k, l \in DOMAIN ran : NodeId(ran[k].test) = NodeId(ran[l].test) => k = l
  <2> TAKE k, l \in DOMAIN ran
  <2> HAVE NodeId(ran[k].test) = NodeId(ran[l].test)
  <2>1. ran[k].test = ran[l].test
    BY <1>2, JobAssumption, Zenon DEF Positions
  <2> QED
    BY <1>2, <2>1 DEF InOrder
<1>7. ASSUME Passes(r, a)
      PROVE  nodes = required /\ \A t \in Range(ran) : t.outcome = "passed"
  <2>1. \A c \in Cases(r) : c.tags \cup c.buried = {}
    BY <1>1, <1>7, PassedHidesNothing
  <2>2. \A k \in DOMAIN ran : ran[k].outcome = "passed"
    <3> TAKE k \in DOMAIN ran
    <3>1. CaseOf(ran[k], layout).tags = {ran[k].outcome} \cap Tags
      BY DEF CaseOf
    <3>2. ran[k].outcome \notin Tags
      BY <1>4, <2>1, <3>1
    <3>3. ran[k].outcome \in Outcomes
      BY <1>2
    <3> QED
      BY <3>2, <3>3 DEF Outcomes
  <2>3. ExactIdentity(r, a)
    BY <1>7 DEF Passes
  <2>4. \A k \in DOMAIN ran : NodeId(ran[k].test) \in required
    <3> TAKE k \in DOMAIN ran
    <3>1. Cardinality(Matches(CaseOf(ran[k], layout), a)) = 1
      BY <1>4, <2>3 DEF ExactIdentity
    <3>2. Matches(CaseOf(ran[k], layout), a) # {}
      BY <3>1, FS_EmptySet
    <3> QED
      BY <1>5, <3>2
  <2>5. \A id \in required : \E k \in DOMAIN ran : id = NodeId(ran[k].test)
    <3> TAKE id \in required
    <3>1. PICK c \in Cases(r) : id \in Matches(c, a)
      BY <2>3 DEF ExactIdentity
    <3> QED
      BY <1>3, <1>5, <3>1
  <2> QED
    BY <2>2, <2>4, <2>5 DEF Range
<1>8. ASSUME nodes = required, \A t \in Range(ran) : t.outcome = "passed"
      PROVE  Passes(r, a)
  <2>1. \A k \in DOMAIN ran : ran[k].outcome = "passed" /\ NodeId(ran[k].test) \in required
    BY <1>8 DEF Range
  <2>2. \A k \in DOMAIN ran : Matches(CaseOf(ran[k], layout), a) = {NodeId(ran[k].test)}
    BY <1>5, <2>1
  <2>3. UNION {Matches(c, a) : c \in Cases(r)} = required
    <3>1. \A id \in required : \E k \in DOMAIN ran : id = NodeId(ran[k].test)
      BY <1>8 DEF Range
    <3>2. \A id \in required : \E c \in Cases(r) : id \in Matches(c, a)
      BY <1>4, <2>2, <3>1
    <3> QED
      BY <3>2 DEF Matches
  <2>4. ExactIdentity(r, a)
    <3>1. \A c \in Cases(r) : ~ Conflicting(c) /\ Cardinality(Matches(c, a)) = 1
      <4> TAKE c \in Cases(r)
      <4>1. PICK k \in DOMAIN ran : c = CaseOf(ran[k], layout)
        BY <1>3
      <4>2. Matches(c, a) = {NodeId(ran[k].test)} /\ ~ Conflicting(c)
        BY <1>5, <2>2, <4>1
      <4> QED
        BY <4>2, FS_Singleton
    <3>2. ASSUME NEW p \in Places(r), NEW q \in Places(r), p # q
          PROVE  Matches(CaseAt(r, p), a) \cap Matches(CaseAt(r, q), a) = {}
      <4>1. PICK k \in DOMAIN ran : p = <<1, k>>
        BY <1>1
      <4>2. PICK l \in DOMAIN ran : q = <<1, l>>
        BY <1>1
      <4>3. k # l
        BY <3>2, <4>1, <4>2
      <4> QED
        BY <1>1, <1>6, <2>2, <4>1, <4>2, <4>3
    <3> QED
      BY <2>3, <3>1, <3>2 DEF ExactIdentity
  <2>5. RequiredPresent(r, a)
    BY <2>3 DEF RequiredPresent, Matches
  <2>6. CountsHold(r, a)
    <3> DEFINE ids == [k \in 1..Len(ran) |-> NodeId(ran[k].test)]
    <3>1. Cardinality(Range(ids)) = Len(ran)
      <4>1. DOMAIN ids = 1..Len(ran) /\ \A i, j \in 1..Len(ran) : ids[i] = ids[j] => i = j
        BY <1>2, <1>6
      <4>2. ids = [k \in 1..Len(ran) |-> ids[k]]
        OBVIOUS
      <4> HIDE DEF ids
      <4> QED
        BY <1>2, <4>1, <4>2, CountOfInjective
    <3>2. Range(ids) = required
      <4>1. Range(ids) = {ids[k] : k \in 1..Len(ran)}
        BY DEF Range
      <4>2. {ids[k] : k \in 1..Len(ran)} = {NodeId(ran[k].test) : k \in 1..Len(ran)}
        OBVIOUS
      <4>3. {NodeId(ran[k].test) : k \in 1..Len(ran)} = nodes
        BY <1>2 DEF Range
      <4> HIDE DEF ids, nodes, required
      <4> QED
        BY <1>8, <4>1, <4>2, <4>3
    <3>3. Cardinality(required) = Len(a.required)
      <4>1. a.required \in Seq(Seq(STRING))
        BY ArgumentsAssumption
      <4>2. /\ Len(a.required) \in Nat /\ DOMAIN a.required = 1..Len(a.required)
            /\ a.required = [i \in 1..Len(a.required) |-> a.required[i]]
        BY <4>1
      <4>3. \A i, j \in 1..Len(a.required) : a.required[i] = a.required[j] => i = j
        BY <4>2 DEF ArgumentsHold, IsInjective
      <4> QED
        BY <4>2, <4>3, CountOfInjective
    <3>4. Len(ran) = a.exact /\ a.exact >= a.minimum
      <4> HIDE DEF ids, required
      <4> QED
        BY <3>1, <3>2, <3>3 DEF ArgumentsHold
    <3>5. \A key \in {"skipped", "failures", "errors"} : Total(r, key) = 0
      BY <1>1, <2>1
    <3> QED
      BY <1>1, <3>4, <3>5 DEF CountsHold
  <2>7. r.root \notin {"missing", "unreadable"}
    BY <1>1 DEF Roots
  <2> QED
    BY <1>1, <2>4, <2>5, <2>6, <2>7 DEF Passes
<1> QED
  BY <1>7, <1>8 DEF r

-----------------------------------------------------------------------------
(* The inductive invariant.                                                 *)

GuardInv ==
    /\ TypeOK
    /\ InOrder
    /\ spoils = 0 /\ report # Missing =>
           \E root \in Roots, layout \in Layouts : report = Written(root, layout)
    /\ verdict # "none" => arguments \in ArgumentSets
    /\ verdict = "passed" <=> verdict # "none" /\ Passes(report, arguments)

LEMMA MissingNeverPasses == \A a : ~ Passes(Missing, a)
BY DEF Missing, Passes

LEMMA InitGuard == Init => GuardInv
<1> SUFFICES ASSUME Init PROVE GuardInv
  OBVIOUS
<1>1. ran \in Seq([test : Positions, outcome : {"passed"} \cup Tags])
  BY DEF Init
<1> QED
  BY <1>1, BoundAssumption DEF Init, GuardInv, TypeOK, InOrder

LEMMA StepKeepsGuard == GuardInv /\ [Next]_vars => GuardInv'
<1> SUFFICES ASSUME GuardInv, [Next]_vars PROVE GuardInv'
  OBVIOUS
<1>0. RanOK
  BY DEF GuardInv, TypeOK, RanOK, Outcomes
<1>1. ASSUME NEW i \in Positions, RunTest(i) PROVE GuardInv'
  <2>1. PICK o \in {"passed"} \cup Tags : ran' = Append(ran, [test |-> i, outcome |-> o])
    BY <1>1 DEF RunTest
  <2>2. /\ report = Missing /\ verdict = "none" /\ \A k \in DOMAIN ran : ran[k].test < i
        /\ UNCHANGED <<report, spoils, arguments, verdict>>
    BY <1>1 DEF RunTest
  <2> DEFINE new == [test |-> i, outcome |-> o]
  <2>3. /\ ran' \in Seq([test : Positions, outcome : Outcomes])
        /\ Len(ran') = Len(ran) + 1 /\ DOMAIN ran' = 1..Len(ran) + 1
        /\ \A k \in 1..Len(ran) : ran'[k] = ran[k]
        /\ ran'[Len(ran) + 1] = new
    <3>1. new \in [test : Positions, outcome : Outcomes]
      BY DEF Outcomes
    <3> HIDE DEF new
    <3> QED
      BY <1>0, <2>1, <3>1, AppendProperties DEF RanOK, new
  <2>4. InOrder'
    <3> SUFFICES ASSUME NEW k \in DOMAIN ran', NEW l \in DOMAIN ran', k < l
                 PROVE  ran'[k].test < ran'[l].test
      BY DEF InOrder
    <3>1. Len(ran) \in Nat /\ DOMAIN ran = 1..Len(ran)
      BY <1>0 DEF RanOK
    <3>2. k \in 1..Len(ran) /\ ran'[k] = ran[k]
      BY <2>3, <3>1
    <3>3. CASE l \in 1..Len(ran)
      BY <2>3, <3>1, <3>2, <3>3 DEF GuardInv, InOrder
    <3>4. CASE l = Len(ran) + 1
      BY <2>2, <2>3, <3>1, <3>2, <3>4
    <3> QED
      BY <2>3, <3>1, <3>3, <3>4
  <2> QED
    BY <2>2, <2>3, <2>4 DEF GuardInv, TypeOK, Outcomes
<1>2. CASE WriteReport
  <2>1. PICK root \in Roots, layout \in Layouts : report' = Written(root, layout)
    BY <1>2 DEF WriteReport, Roots, Layouts
  <2>2. verdict = "none" /\ UNCHANGED <<ran, spoils, arguments, verdict>>
    BY <1>2 DEF WriteReport
  <2>3. IsReport(report')
    BY <1>0, <2>1, WrittenIsSound
  <2>4. \E x \in Roots, y \in Layouts : report' = Written(x, y)'
    BY <2>1, <2>2 DEF Written
  <2> QED
    BY <2>2, <2>3, <2>4 DEF GuardInv, TypeOK, InOrder
<1>3. CASE Spoil
  <2>1. /\ verdict = "none" /\ IsReport(report') /\ spoils' = spoils + 1 /\ spoils < MaxSpoils
        /\ UNCHANGED <<ran, arguments, verdict>>
    BY <1>3 DEF Spoil
  <2>2. spoils' \in 0..MaxSpoils /\ spoils' # 0
    BY <2>1, BoundAssumption DEF GuardInv, TypeOK
  <2> QED
    BY <2>1, <2>2 DEF GuardInv, TypeOK, InOrder
<1>4. ASSUME NEW a \in ArgumentSets, Guard(a) PROVE GuardInv'
  <2>1. /\ verdict = "none" /\ arguments' = a
        /\ verdict' = IF Passes(report, a) THEN "passed" ELSE "refused"
        /\ UNCHANGED <<ran, report, spoils>>
    BY <1>4 DEF Guard
  <2>2. a # NoArguments
    <3>1. DOMAIN a = {"minimum", "exact", "required"}
      BY ArgumentsAssumption
    <3>2. DOMAIN NoArguments = {"minimum"}
      BY DEF NoArguments
    <3> QED
      BY <3>1, <3>2
  <2>3. TypeOK' /\ InOrder'
    BY <2>1, <2>2 DEF GuardInv, TypeOK, InOrder
  <2> QED
    BY <2>1, <2>3 DEF GuardInv, Written
<1>5. CASE UNCHANGED vars
  BY <1>5 DEF vars, GuardInv, TypeOK, InOrder, Written
<1> QED
  BY <1>1, <1>2, <1>3, <1>4, <1>5 DEF Next

LEMMA GuardInvariance == Spec => []GuardInv
<1> QED
  BY InitGuard, StepKeepsGuard, PTL DEF Spec

\* Every variable keeps its type, whatever accidents befall the report, and a
\* verdict comes with its arguments.
THEOREM GuardTypes == Spec => []TypeOK
<1>1. GuardInv => TypeOK
  BY DEF GuardInv
<1> QED
  BY <1>1, GuardInvariance, PTL

\* Whatever job, tests and required nodes: over the report as pytest wrote it,
\* exact mode passes precisely when the required tests and no others ran and
\* passed (scripts/assert_real_oqs_junit_not_skipped.py:97-179).
THEOREM ProofAlwaysMeansPassed == Spec => []ProofMeansPassed
<1>1. GuardInv => ProofMeansPassed
  <2> SUFFICES ASSUME GuardInv, verdict # "none", spoils = 0, report # Missing,
                      ArgumentsHold(arguments), Exact(arguments)
               PROVE  (verdict = "passed")
                      <=> (/\ {NodeId(t.test) : t \in Range(ran)} = Range(arguments.required)
                           /\ \A t \in Range(ran) : t.outcome = "passed")
    BY DEF ProofMeansPassed
  <2>1. RanOK
    BY DEF GuardInv, TypeOK, RanOK, Outcomes
  <2>2. PICK root \in Roots, layout \in Layouts : report = Written(root, layout)
    BY DEF GuardInv
  <2>3. (verdict = "passed") <=> Passes(Written(root, layout), arguments)
    BY <2>2 DEF GuardInv
  <2> QED
    BY <2>1, <2>3, WrittenPasses DEF GuardInv
<1> QED
  BY <1>1, GuardInvariance, PTL

\* Whatever accidents make of a report of any size, one that passes has no
\* failure, error or skip anywhere in it: no counter can stand for the cases
\* (scripts/assert_real_oqs_junit_not_skipped.py:119-159).
THEOREM NothingEverHidden == Spec => []NothingHidden
<1>1. GuardInv => NothingHidden
  BY PassedHidesNothing, MissingNeverPasses DEF GuardInv, TypeOK, NothingHidden
<1> QED
  BY <1>1, GuardInvariance, PTL

\* Whatever accidents make of a report of any size, in exact mode the cases of
\* one that passes and the required nodes correspond one to one, where a case is
\* of a node by its name behind its file or class, or by bearing the whole node
\* id as its name (scripts/assert_real_oqs_junit_not_skipped.py:46-55, 161-179).
THEOREM OneCaseForEach == Spec => []OneCaseEach
<1>1. GuardInv => OneCaseEach
  BY PassedIsOneToOne, MissingNeverPasses DEF GuardInv, TypeOK, OneCaseEach
<1> QED
  BY <1>1, GuardInvariance, PTL
=============================================================================
