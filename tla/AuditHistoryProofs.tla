------------------------- MODULE AuditHistoryProofs -------------------------
(***************************************************************************)
(* Theorems about AuditHistory for any table that earlier writers left and *)
(* any entries, attempts and imports.                                      *)
(*                                                                         *)
(* The argument: the decoders ask for fields that exclude one another and  *)
(* compare the record with the row it came in, so what they accept is      *)
(* settled row by row.  A record is read back because every conversion of  *)
(* the reader leaves alone what a constructor or a reader has made: times  *)
(* that are cut to the microsecond, and observations in fact order.  What  *)
(* an import was made from is remembered in `written`, and no step removes *)
(* a row.                                                                  *)
(***************************************************************************)
EXTENDS AuditHistory, FiniteSetTheorems, WellFoundedInduction, TLAPS

(***************************************************************************)
(* The decoders.                                                           *)
(***************************************************************************)
\* A current record names its schema, a legacy one cannot.
LEMMA CurrentNamesSchema ==
  ASSUME NEW row, DecodeDecision(row) # Rejected
  PROVE  /\ Addressed(row, DecisionType)
         /\ "schema_version" \in DOMAIN row.payload
         /\ DecodeDecision(row).tenant = row.tenant
         /\ DecodeDecision(row).binding = row.tenant
         /\ DecodeDecision(row).decision_audit_id \notin LegacyIds
         /\ row.id = <<"gatekeep-audit-", DecodeDecision(row).decision_audit_id>>
  <1> DEFINE e == EntryFromWire(row.payload)
  <1>1. /\ Addressed(row, DecisionType) /\ DecodeDecision(row) = e /\ e # Rejected
        /\ row.id = <<"gatekeep-audit-", e.decision_audit_id>>
        /\ row.tenant = e.tenant /\ ValidateCurrent(e)
    <2> HIDE DEF e
    <2> QED BY DEF DecodeDecision, e
  <1>2. CurrentFields \subseteq DOMAIN row.payload BY <1>1 DEF EntryFromWire
  <1>3. "schema_version" \in DOMAIN row.payload BY <1>2 DEF CurrentFields
  <1> HIDE DEF e
  <1>4. e.binding = e.tenant /\ e.decision_audit_id \notin LegacyIds
    BY <1>1 DEF ValidateCurrent, ValidOccurrence, Acceptable
  <1> QED BY <1>1, <1>3, <1>4

LEMMA LegacyNamesNone ==
  ASSUME NEW row, DecodeLegacy(row) # Rejected
  PROVE  /\ Addressed(row, DecisionType)
         /\ "schema_version" \notin DOMAIN row.payload
         /\ DecodeLegacy(row) = row.payload
         /\ row.tenant = row.payload.tenant
  <1> DEFINE e == LegacyFromWire(row.payload)
  <1>1. /\ Addressed(row, DecisionType) /\ DecodeLegacy(row) = e /\ e # Rejected
        /\ row.tenant = e.tenant
    <2> HIDE DEF e
    <2> QED BY DEF DecodeLegacy, e
  <1>2. e = row.payload /\ DOMAIN row.payload \subseteq LegacyFields
    BY <1>1 DEF LegacyFromWire
  <1>3. "schema_version" \notin LegacyFields BY DEF LegacyFields, LegacyRequired
  <1> HIDE DEF e
  <1> QED BY <1>1, <1>2, <1>3

LEMMA AttemptsAreTyped ==
  ASSUME NEW row, DecodeAttempt(row) # Rejected
  PROVE  /\ Addressed(row, AttemptType)
         /\ DecodeAttempt(row).tenant = row.tenant
         /\ DecodeAttempt(row).binding = row.tenant
         /\ DecodeAttempt(row).occurrence.id \notin LegacyIds
         /\ row.id = <<"gatekeep-attempt-", DecodeAttempt(row).occurrence.id>>
  <1> DEFINE a == AttemptFromWire(row.payload)
  <1>1. /\ Addressed(row, AttemptType) /\ DecodeAttempt(row) = a /\ a # Rejected
        /\ row.tenant = a.tenant /\ row.id = <<"gatekeep-attempt-", a.occurrence.id>>
    <2> HIDE DEF a
    <2> QED BY DEF DecodeAttempt, a
  <1>2. ValidAttempt(a)
    <2> DEFINE b == [row.payload EXCEPT !.occurrence = Occurrence(@.id, @.at)]
    <2>1. a = b /\ ValidAttempt(b)
      <3> HIDE DEF b
      <3> QED BY <1>1 DEF AttemptFromWire, b
    <2> QED BY <2>1
  <1> HIDE DEF a
  <1>3. a.tenant = a.binding /\ a.occurrence.id \notin LegacyIds
    BY <1>2 DEF ValidAttempt, ValidOccurrence, Acceptable
  <1> QED BY <1>1, <1>3

LEMMA TypesDiffer ==
  ASSUME NEW row
  PROVE  ~(Addressed(row, DecisionType) /\ Addressed(row, AttemptType))
  BY DEF Addressed, DecisionType, AttemptType

LEMMA OneReaderHolds == OneReader
  <1> SUFFICES ASSUME NEW r \in rows
               PROVE  Cardinality({i \in 1 .. 3 :
                        <<DecodeDecision(r), DecodeLegacy(r), DecodeAttempt(r)>>[i] # Rejected}) <= 1
    BY DEF OneReader
  <1> DEFINE D == DecodeDecision(r)
             L == DecodeLegacy(r)
             A == DecodeAttempt(r)
             S == {i \in 1 .. 3 : <<D, L, A>>[i] # Rejected}
  <1>1. /\ ~(D # Rejected /\ L # Rejected)
        /\ ~(D # Rejected /\ A # Rejected)
        /\ ~(L # Rejected /\ A # Rejected)
    BY CurrentNamesSchema, LegacyNamesNone, AttemptsAreTyped, TypesDiffer, Zenon
  <1> HIDE DEF D, L, A
  <1>2. S \in {{}, {1}, {2}, {3}} BY <1>1
  <1> HIDE DEF S
  <1>3. /\ Cardinality({}) = 0 /\ Cardinality({1}) = 1
        /\ Cardinality({2}) = 1 /\ Cardinality({3}) = 1
    BY FS_EmptySet, FS_Singleton
  <1>4. Cardinality(S) <= 1 BY <1>2, <1>3
  <1> QED BY <1>4 DEF S, D, L, A

(***************************************************************************)
(* The order of observations.  The prover has no induction over data, so   *)
(* each of these takes a least counterexample.                             *)
(***************************************************************************)
LEMMA Least ==
  ASSUME NEW T, T \subseteq Nat, T # {}
  PROVE  \E n \in T : \A m \in T : n <= m
  <1> DEFINE R == OpToRel(<, Nat)
  <1>1. R = {ss \in Nat \X Nat : ss[1] < ss[2]} BY DEF OpToRel
  <1>2. IsWellFoundedOn(R, Nat) BY NatLessThanWellFounded
  <1> HIDE DEF R
  <1>3. PICK n \in T : \A m \in T : ~(<<m, n>> \in R)
    BY <1>2, WFMin, Zenon
  <1>4. ASSUME NEW m \in T PROVE n <= m
    <2>1. m \in Nat /\ n \in Nat BY <1>3
    <2>2. <<m, n>> \notin R BY <1>3
    <2>3. ~(m < n) BY <1>1, <2>1, <2>2
    <2> QED BY <2>1, <2>3
  <1> QED BY <1>3, <1>4

Injective(f, n) == \A i, j \in 1 .. n : i # j => f[i] # f[j]
SortedBy(f, q, n) == \A i, j \in 1 .. n : i < j => f[q[i]] < f[q[j]]

\* One more number is put before the first that exceeds it.
LEMMA Insertion ==
  ASSUME NEW l \in Nat, NEW m, m = l + 1, NEW f \in [1 .. m -> Int], Injective(f, m),
         NEW p \in [1 .. l -> 1 .. l], SortedBy(f, p, l)
  PROVE  \E q \in [1 .. m -> 1 .. m] : SortedBy(f, q, m)
  <1> DEFINE K == {i \in 1 .. l : f[p[i]] > f[m]}
  <1> HIDE DEF K
  <1>0. m \in Nat /\ m \in 1 .. m /\ \A i \in 1 .. l : i \in 1 .. m /\ i # m OBVIOUS
  <1>1. \E k \in 1 .. m : /\ \A i \in 1 .. l : i < k => f[p[i]] < f[m]
                          /\ \A i \in 1 .. l : k <= i => f[m] < f[p[i]]
    <2>1. ASSUME NEW i \in 1 .. l
          PROVE  p[i] \in 1 .. m /\ p[i] # m /\ f[p[i]] \in Int /\ f[m] \in Int
      <3>1. p[i] \in 1 .. l OBVIOUS
      <3> QED BY <1>0, <3>1
    <2>2. ASSUME NEW i \in 1 .. l, i \notin K PROVE f[p[i]] < f[m]
      <3>1. f[p[i]] # f[m] BY <1>0, <2>1 DEF Injective
      <3>2. ~(f[p[i]] > f[m]) BY <2>2 DEF K
      <3> QED BY <2>1, <3>1, <3>2
    <2>3. CASE K = {}
      <3>1. \A i \in 1 .. l : ~(m <= i) OBVIOUS
      <3> QED BY <1>0, <2>2, <2>3, <3>1
    <2>4. CASE K # {}
      <3>1. K \subseteq Nat BY DEF K
      <3>2. PICK k \in K : \A i \in K : k <= i BY <2>4, <3>1, Least
      <3>3. k \in 1 .. m /\ k \in 1 .. l /\ f[p[k]] > f[m] BY <3>2 DEF K
      <3>4. ASSUME NEW i \in 1 .. l, i < k PROVE f[p[i]] < f[m]
        <4>1. i \notin K BY <3>2, <3>3, <3>4
        <4> QED BY <2>2, <4>1
      <3>5. ASSUME NEW i \in 1 .. l, k <= i PROVE f[m] < f[p[i]]
        <4>1. CASE i = k BY <2>1, <3>3, <4>1
        <4>2. CASE k < i
          <5>1. f[p[k]] < f[p[i]] BY <3>3, <4>2 DEF SortedBy
          <5> QED BY <2>1, <3>3, <5>1
        <4> QED BY <3>3, <3>5, <4>1, <4>2
      <3> QED BY <3>3, <3>4, <3>5
    <2> QED BY <2>3, <2>4
  <1>2. PICK k \in 1 .. m : /\ \A i \in 1 .. l : i < k => f[p[i]] < f[m]
                            /\ \A i \in 1 .. l : k <= i => f[m] < f[p[i]]
    BY <1>1
  <1> DEFINE q == [i \in 1 .. m |-> IF i < k THEN p[i] ELSE IF i = k THEN m ELSE p[i - 1]]
  <1>3. q \in [1 .. m -> 1 .. m]
    <2> SUFFICES ASSUME NEW i \in 1 .. m PROVE q[i] \in 1 .. m OBVIOUS
    <2>1. CASE i < k
      <3>1. i \in 1 .. l BY <2>1
      <3>2. p[i] \in 1 .. l BY <3>1
      <3> QED BY <2>1, <3>2
    <2>2. CASE i = k BY <2>2
    <2>3. CASE k < i
      <3>1. i - 1 \in 1 .. l BY <2>3
      <3>2. p[i - 1] \in 1 .. l BY <3>1
      <3> QED BY <2>3, <3>2
    <2> QED BY <2>1, <2>2, <2>3
  <1>4. ASSUME NEW i \in 1 .. m, NEW j \in 1 .. m, i < j PROVE f[q[i]] < f[q[j]]
    <2>1. CASE j < k
      <3>1. i \in 1 .. l /\ j \in 1 .. l BY <1>4, <2>1
      <3>2. q[i] = p[i] /\ q[j] = p[j] BY <1>4, <2>1
      <3> QED BY <1>4, <3>1, <3>2 DEF SortedBy
    <2>2. CASE j = k
      <3>1. i \in 1 .. l /\ q[i] = p[i] /\ q[j] = m BY <1>4, <2>2
      <3> QED BY <1>2, <1>4, <2>2, <3>1
    <2>3. CASE i < k /\ k < j
      <3>1. i \in 1 .. l /\ j - 1 \in 1 .. l /\ i < j - 1 BY <2>3
      <3>2. q[i] = p[i] /\ q[j] = p[j - 1] BY <2>3
      <3> HIDE DEF q
      <3> QED BY <3>1, <3>2 DEF SortedBy
    <2>4. CASE i = k
      <3>1. j - 1 \in 1 .. l /\ k <= j - 1 /\ q[i] = m /\ q[j] = p[j - 1] BY <1>4, <2>4
      <3> HIDE DEF q
      <3> QED BY <1>2, <3>1
    <2>5. CASE k < i
      <3>1. i - 1 \in 1 .. l /\ j - 1 \in 1 .. l /\ i - 1 < j - 1 BY <1>4, <2>5
      <3>2. q[i] = p[i - 1] /\ q[j] = p[j - 1] BY <1>4, <2>5
      <3> HIDE DEF q
      <3> QED BY <3>1, <3>2 DEF SortedBy
    <2> QED BY <1>4, <2>1, <2>2, <2>3, <2>4, <2>5
  <1> HIDE DEF q
  <1> QED BY <1>3, <1>4 DEF SortedBy

LEMMA SortExists ==
  ASSUME NEW n \in Nat, NEW f \in [1 .. n -> Int], Injective(f, n)
  PROVE  \E q \in [1 .. n -> 1 .. n] : SortedBy(f, q, n)
  <1> DEFINE Fails(g, m) == /\ Injective(g, m)
                            /\ ~(\E q \in [1 .. m -> 1 .. m] : SortedBy(g, q, m))
             T == {m \in Nat : \E g \in [1 .. m -> Int] : Fails(g, m)}
  <1>1. ASSUME T # {} PROVE FALSE
    <2>1. PICK m \in T : \A l \in T : m <= l BY <1>1, Least
    <2>2. PICK g \in [1 .. m -> Int] : Fails(g, m) BY <2>1
    <2>3. m # 0
      <3>1. SUFFICES ASSUME m = 0 PROVE FALSE OBVIOUS
      <3>2. [i \in 1 .. m |-> i] \in [1 .. m -> 1 .. m] OBVIOUS
      <3>3. SortedBy(g, [i \in 1 .. m |-> i], m) BY <3>1 DEF SortedBy
      <3> QED BY <2>2, <3>2, <3>3
    <2>4. m \in Nat \ {0} /\ m - 1 \in Nat BY <2>1, <2>3
    <2>5. m - 1 \notin T
      <3>1. ~(m <= m - 1) BY <2>4
      <3> HIDE DEF T
      <3> QED BY <2>1, <3>1
    <2> DEFINE h == [i \in 1 .. (m - 1) |-> g[i]]
    <2>6. h \in [1 .. (m - 1) -> Int] BY <2>2, <2>4
    <2>7. Injective(h, m - 1) BY <2>2, <2>4 DEF Injective
    <2>8. ~Fails(h, m - 1) BY <2>4, <2>5, <2>6
    <2>9. PICK p \in [1 .. (m - 1) -> 1 .. (m - 1)] : SortedBy(h, p, m - 1) BY <2>7, <2>8
    <2>10. SortedBy(g, p, m - 1) BY <2>9, <2>4 DEF SortedBy
    <2>11. Injective(g, m) BY <2>2
    <2>12. \E q \in [1 .. m -> 1 .. m] : SortedBy(g, q, m)
      <3>1. m = (m - 1) + 1 BY <2>4
      <3> HIDE DEF T, Fails
      <3> QED BY <3>1, <2>4, <2>9, <2>10, <2>11, Insertion, Zenon
    <2> QED BY <2>2, <2>12
  <1> QED BY <1>1

Observation == [fact : Int, value : BOOLEAN]
Observations == Seq(Observation)
Ascending(obs) == \A i, j \in DOMAIN obs : i < j => obs[i].fact < obs[j].fact

\* What the CHOOSE of SortByFact looks for.
Sorts(q, obs) ==
  \A i, j \in DOMAIN obs : i < j => q[i] # q[j] /\ obs[q[i]].fact <= obs[q[j]].fact

LEMMA ObservationsTyped ==
  ASSUME NEW obs \in Observations
  PROVE  /\ Len(obs) \in Nat /\ DOMAIN obs = 1 .. Len(obs)
         /\ \A i \in DOMAIN obs : obs[i] \in Observation /\ obs[i].fact \in Int
         /\ obs = [i \in DOMAIN obs |-> obs[i]]
  <1>1. /\ Len(obs) \in Nat /\ DOMAIN obs = 1 .. Len(obs)
        /\ \A i \in DOMAIN obs : obs[i] \in Observation
        /\ obs = [i \in DOMAIN obs |-> obs[i]]
    BY DEF Observations
  <1>2. \A o \in Observation : o.fact \in Int BY DEF Observation
  <1> QED BY <1>1, <1>2

LEMMA SortIsChosen ==
  ASSUME NEW obs \in Observations, \E q \in [DOMAIN obs -> DOMAIN obs] : Sorts(q, obs)
  PROVE  \E q \in [DOMAIN obs -> DOMAIN obs] :
           Sorts(q, obs) /\ SortByFact(obs) = [i \in DOMAIN obs |-> obs[q[i]]]
  <1> DEFINE q == CHOOSE q \in [DOMAIN obs -> DOMAIN obs] :
                    \A i, j \in DOMAIN obs :
                      i < j => q[i] # q[j] /\ obs[q[i]].fact <= obs[q[j]].fact
  <1>1. q \in [DOMAIN obs -> DOMAIN obs] /\ Sorts(q, obs) BY Zenon DEF Sorts
  <1>2. SortByFact(obs) = [i \in DOMAIN obs |-> obs[q[i]]] BY Zenon DEF SortByFact
  <1> HIDE DEF q
  <1> QED BY <1>1, <1>2

LEMMA SortAscends ==
  ASSUME NEW obs \in Observations, DistinctFacts(obs)
  PROVE  SortByFact(obs) \in Observations /\ Ascending(SortByFact(obs))
  <1> DEFINE n == Len(obs)
             f == [i \in 1 .. n |-> obs[i].fact]
             s == SortByFact(obs)
  <1>1. n \in Nat /\ DOMAIN obs = 1 .. n /\ f \in [1 .. n -> Int]
    BY ObservationsTyped
  <1>2. Injective(f, n) BY <1>1 DEF Injective, DistinctFacts
  <1>3. \E q \in [1 .. n -> 1 .. n] : SortedBy(f, q, n)
    <2> HIDE DEF n, f
    <2> QED BY <1>1, <1>2, SortExists
  <1>4. \E q \in [DOMAIN obs -> DOMAIN obs] : Sorts(q, obs)
    <2>1. PICK q \in [1 .. n -> 1 .. n] : SortedBy(f, q, n) BY <1>3
    <2> SUFFICES Sorts(q, obs) BY <1>1
    <2> SUFFICES ASSUME NEW i \in 1 .. n, NEW j \in 1 .. n, i < j
                 PROVE  q[i] # q[j] /\ obs[q[i]].fact <= obs[q[j]].fact
      BY <1>1 DEF Sorts
    <2>2. f[q[i]] < f[q[j]] BY <2>1 DEF SortedBy
    <2>3. /\ q[i] \in 1 .. n /\ q[j] \in 1 .. n
          /\ f[q[i]] = obs[q[i]].fact /\ f[q[j]] = obs[q[j]].fact
          /\ f[q[i]] \in Int /\ f[q[j]] \in Int
      BY <1>1, <2>1
    <2> HIDE DEF f
    <2> QED BY <2>2, <2>3
  <1>5. PICK q \in [DOMAIN obs -> DOMAIN obs] :
          Sorts(q, obs) /\ s = [i \in DOMAIN obs |-> obs[q[i]]]
    BY <1>4, SortIsChosen
  <1> HIDE DEF s
  <1>6. s \in Observations
    <2>1. s \in [1 .. n -> Observation] BY <1>1, <1>5, ObservationsTyped
    <2> HIDE DEF n
    <2> QED BY <1>1, <2>1 DEF Observations
  <1>7. ASSUME NEW i \in DOMAIN s, NEW j \in DOMAIN s, i < j PROVE s[i].fact < s[j].fact
    <2>1. i \in DOMAIN obs /\ j \in DOMAIN obs /\ s[i] = obs[q[i]] /\ s[j] = obs[q[j]]
      BY <1>5
    <2>2. q[i] # q[j] /\ s[i].fact <= s[j].fact BY <1>5, <1>7, <2>1 DEF Sorts
    <2>3. s[i].fact # s[j].fact BY <1>5, <2>1, <2>2 DEF DistinctFacts
    <2>4. s[i].fact \in Int /\ s[j].fact \in Int BY <1>6, <1>7, ObservationsTyped
    <2> QED BY <2>2, <2>3, <2>4
  <1> QED BY <1>6, <1>7 DEF s, Ascending

\* An increasing map of 1 .. n into itself moves nothing.
LEMMA IncreasingIsIdentity ==
  ASSUME NEW n \in Nat, NEW q \in [1 .. n -> 1 .. n],
         \A i, j \in 1 .. n : i < j => q[i] < q[j],
         NEW i \in 1 .. n
  PROVE  q[i] = i
  <1> DEFINE Low == {k \in 1 .. n : q[k] < k}
             High == {d \in 0 .. n : n - d \in 1 .. n /\ n - d < q[n - d]}
  <1>1. ASSUME Low # {} PROVE FALSE
    <2>1. Low \subseteq Nat OBVIOUS
    <2>2. PICK k \in Low : \A l \in Low : k <= l
      <3> HIDE DEF Low
      <3> QED BY <1>1, <2>1, Least
    <2>3. k \in 1 .. n /\ q[k] \in 1 .. n /\ q[k] < k BY <2>2
    <2>4. q[q[k]] < q[k] BY <2>3
    <2>5. q[k] \in Low BY <2>3, <2>4
    <2> HIDE DEF Low
    <2>6. k <= q[k] BY <2>2, <2>5
    <2> QED BY <2>3, <2>6
  <1>2. ASSUME High # {} PROVE FALSE
    <2>1. High \subseteq Nat OBVIOUS
    <2>2. PICK d \in High : \A e \in High : d <= e
      <3> HIDE DEF High
      <3> QED BY <1>2, <2>1, Least
    <2> DEFINE k == n - d
    <2>3. d \in 0 .. n /\ k \in 1 .. n /\ q[k] \in 1 .. n /\ k < q[k] BY <2>2
    <2>4. q[k] < q[q[k]] BY <2>3
    <2>5. n - q[k] \in 0 .. n /\ n - (n - q[k]) = q[k] BY <2>3
    <2>6. n - q[k] \in High BY <2>3, <2>4, <2>5
    <2> HIDE DEF High
    <2>7. d <= n - q[k] BY <2>2, <2>6
    <2> QED BY <2>3, <2>7
  <1>3. i \notin Low BY <1>1
  <1>4. n - i \notin High BY <1>2
  <1>5. n - i \in 0 .. n /\ n - (n - i) = i OBVIOUS
  <1>6. ~(q[i] < i) BY <1>3
  <1>7. ~(i < q[i]) BY <1>4, <1>5
  <1>8. q[i] \in 1 .. n OBVIOUS
  <1> QED BY <1>6, <1>7, <1>8

LEMMA AscendingIsSorted ==
  ASSUME NEW obs \in Observations, Ascending(obs)
  PROVE  SortByFact(obs) = obs
  <1> DEFINE n == Len(obs)
  <1>1. n \in Nat /\ DOMAIN obs = 1 .. n /\ \A i \in 1 .. n : obs[i].fact \in Int
    BY ObservationsTyped
  <1>2. \E q \in [DOMAIN obs -> DOMAIN obs] : Sorts(q, obs)
    <2> DEFINE id == [i \in DOMAIN obs |-> i]
    <2>1. id \in [DOMAIN obs -> DOMAIN obs] OBVIOUS
    <2>2. Sorts(id, obs) BY <1>1 DEF Sorts, Ascending
    <2> HIDE DEF id
    <2> QED BY <2>1, <2>2
  <1>3. PICK q \in [DOMAIN obs -> DOMAIN obs] :
          Sorts(q, obs) /\ SortByFact(obs) = [i \in DOMAIN obs |-> obs[q[i]]]
    BY <1>2, SortIsChosen
  <1> HIDE DEF n
  <1>4. ASSUME NEW i \in 1 .. n, NEW j \in 1 .. n, i < j PROVE q[i] < q[j]
    <2>1. /\ q[i] \in 1 .. n /\ q[j] \in 1 .. n /\ q[i] # q[j]
          /\ obs[q[i]].fact <= obs[q[j]].fact
      BY <1>1, <1>3, <1>4 DEF Sorts
    <2>2. ASSUME q[j] < q[i] PROVE FALSE
      <3>1. obs[q[j]].fact < obs[q[i]].fact BY <1>1, <2>1, <2>2 DEF Ascending
      <3> QED BY <1>1, <2>1, <3>1
    <2> QED BY <1>1, <2>1, <2>2
  <1>5. \A i \in 1 .. n : q[i] = i BY <1>1, <1>3, <1>4, IncreasingIsIdentity
  <1>6. SortByFact(obs) = [i \in DOMAIN obs |-> obs[i]] BY <1>1, <1>3, <1>5
  <1> QED BY <1>6, ObservationsTyped

(***************************************************************************)
(* Evidence: reading puts it in the order its constructor keeps.           *)
(***************************************************************************)
LEMMA ResolvedIsFixed ==
  ASSUME NEW v, Resolved(v)
  PROVE  WellFormedEvidence(v) /\ EvidenceFromWire(v) = v
  <1>1. v \in EvidenceRecords /\ ValidEvidence(v) /\ Ascending(v.observations)
    BY DEF Resolved, Ascending
  <1>2. v.observations \in Observations
    BY <1>1 DEF EvidenceRecords, Observations, Observation
  <1>3. SortByFact(v.observations) = v.observations BY <1>1, <1>2, AscendingIsSorted
  <1>4. EvidenceFromWire(v) = v BY <1>1, <1>3 DEF EvidenceFromWire, EvidenceRecords
  <1>5. DistinctFacts(v.observations)
    <2> SUFFICES ASSUME NEW i \in DOMAIN v.observations, NEW j \in DOMAIN v.observations, i # j
                 PROVE  v.observations[i].fact # v.observations[j].fact
      BY DEF DistinctFacts
    <2>1. /\ i \in Nat /\ j \in Nat
          /\ v.observations[i].fact \in Int /\ v.observations[j].fact \in Int
      BY <1>2, ObservationsTyped
    <2>2. i < j \/ j < i BY <2>1
    <2>3. \/ v.observations[i].fact < v.observations[j].fact
          \/ v.observations[j].fact < v.observations[i].fact
      BY <1>1, <2>2 DEF Ascending
    <2> QED BY <2>1, <2>3
  <1> QED BY <1>1, <1>4, <1>5 DEF WellFormedEvidence

LEMMA ReadingResolves ==
  ASSUME NEW v \in EvidenceRecords, WellFormedEvidence(v)
  PROVE  Resolved(EvidenceFromWire(v))
  <1> DEFINE s == SortByFact(v.observations)
  <1>1. v.observations \in Observations
    BY DEF EvidenceRecords, Observations, Observation
  <1>2. s \in Observations /\ Ascending(s) BY <1>1, SortAscends DEF WellFormedEvidence
  <1> HIDE DEF s
  <1>3. EvidenceFromWire(v) = [v EXCEPT !.observations = s] BY DEF EvidenceFromWire, s
  <1>4. /\ EvidenceFromWire(v).observations = s
        /\ EvidenceFromWire(v).observed_at = v.observed_at
        /\ EvidenceFromWire(v).fresh_until = v.fresh_until
    BY <1>3 DEF EvidenceRecords
  <1>5. EvidenceFromWire(v) \in EvidenceRecords
    BY <1>2, <1>3 DEF EvidenceRecords, Observations, Observation
  <1>6. ValidEvidence(EvidenceFromWire(v)) BY <1>4 DEF WellFormedEvidence, ValidEvidence
  <1> QED BY <1>2, <1>4, <1>5, <1>6 DEF Resolved, Ascending

(***************************************************************************)
(* Entries.                                                                *)
(***************************************************************************)
Entry(version, id, at, anchor, d, binding, evidence, tenant) ==
  [schema_version |-> version, decision_audit_id |-> id, occurred_at |-> at,
   anchor |-> anchor, decision |-> d, binding |-> binding,
   fact_resolution |-> evidence, tenant |-> tenant]

\* What the payload w says, in this release's terms.
Said(version, w) ==
  Entry(version, w.decision_audit_id, Normalize(w.occurred_at), w.anchor, w.decision,
        w.binding, EvidenceFromWire(w.fact_resolution), w.tenant)

Readable(w) ==
  /\ CurrentFields \subseteq DOMAIN w /\ "policy_hash_version" \in DOMAIN w.anchor
  /\ w.anchor.policy_hash_version = HashFormat
  /\ WellFormedEvidence(w.fact_resolution)
  /\ w.schema_version \in {1, SchemaVersion}
  /\ Acceptable(w.decision_audit_id, w.occurred_at)

\* An entry is its eight fields, and none of them is that of Rejected.
LEMMA EntryFieldsOf ==
  ASSUME NEW version, NEW id, NEW at, NEW anchor, NEW d, NEW binding, NEW evidence, NEW tenant,
         NEW e, e = Entry(version, id, at, anchor, d, binding, evidence, tenant)
  PROVE  /\ e.schema_version = version /\ e.decision_audit_id = id /\ e.occurred_at = at
         /\ e.anchor = anchor /\ e.decision = d /\ e.binding = binding
         /\ e.fact_resolution = evidence /\ e.tenant = tenant
         /\ DOMAIN e = CurrentFields /\ e # Rejected
         /\ \A v : [e EXCEPT !.schema_version = v]
                     = Entry(v, id, at, anchor, d, binding, evidence, tenant)
  <1>1. DOMAIN e = CurrentFields BY DEF Entry, CurrentFields
  <1>2. e # Rejected
    <2>1. DOMAIN Rejected = {"rejected"} BY DEF Rejected
    <2>2. "tenant" \in DOMAIN e BY <1>1 DEF CurrentFields
    <2> QED BY <2>1, <2>2
  <1>3. \A v : [e EXCEPT !.schema_version = v]
                 = Entry(v, id, at, anchor, d, binding, evidence, tenant)
    BY DEF Entry
  <1> QED BY <1>1, <1>2, <1>3 DEF Entry

LEMMA NewEntryIs ==
  ASSUME NEW occ, NEW anchor, NEW d, NEW binding, NEW evidence, NEW tenant
  PROVE  LET e == Entry(SchemaVersion, occ.id, occ.at, anchor, d, binding, evidence, tenant)
         IN  NewEntry(occ, anchor, d, binding, evidence, tenant)
               = IF ValidateCurrent(e) THEN e ELSE Rejected
  BY Zenon DEF NewEntry, Entry

LEMMA EntryFromWireIs ==
  ASSUME NEW w
  PROVE  EntryFromWire(w) =
           IF /\ Readable(w) /\ ValidateCurrent(Said(SchemaVersion, w))
              /\ ValidateCurrent(Said(w.schema_version, w))
           THEN Said(w.schema_version, w) ELSE Rejected
  <1>1. CASE ~Readable(w) BY <1>1 DEF Readable, EntryFromWire
  <1>2. CASE Readable(w)
    <2> DEFINE occ == Occurrence(w.decision_audit_id, w.occurred_at)
               e == NewEntry(occ, w.anchor, w.decision, w.binding,
                             EvidenceFromWire(w.fact_resolution), w.tenant)
               kept == [e EXCEPT !.schema_version = w.schema_version]
    <2>1. EntryFromWire(w) = IF e # Rejected /\ ValidateCurrent(kept) THEN kept ELSE Rejected
      BY <1>2, Zenon DEF Readable, EntryFromWire
    <2>2. occ.id = w.decision_audit_id /\ occ.at = Normalize(w.occurred_at)
      BY <1>2 DEF Readable, Occurrence
    <2> HIDE DEF occ
    <2>3. e = IF ValidateCurrent(Said(SchemaVersion, w)) THEN Said(SchemaVersion, w) ELSE Rejected
      BY <2>2, NewEntryIs, Zenon DEF Said
    <2> HIDE DEF e
    <2>4. CASE ValidateCurrent(Said(SchemaVersion, w))
      <3>1. e = Said(SchemaVersion, w) BY <2>3, <2>4
      <3>2. e # Rejected /\ kept = Said(w.schema_version, w)
        <4>1. e = Entry(SchemaVersion, w.decision_audit_id, Normalize(w.occurred_at), w.anchor,
                        w.decision, w.binding, EvidenceFromWire(w.fact_resolution), w.tenant)
          BY <3>1 DEF Said
        <4>2. e # Rejected BY <4>1, EntryFieldsOf
        <4>3. kept = Entry(w.schema_version, w.decision_audit_id, Normalize(w.occurred_at),
                           w.anchor, w.decision, w.binding,
                           EvidenceFromWire(w.fact_resolution), w.tenant)
          BY <4>1, EntryFieldsOf
        <4> QED BY <4>2, <4>3 DEF Said
      <3> HIDE DEF kept
      <3> QED BY <1>2, <2>1, <2>4, <3>2
    <2>5. CASE ~ValidateCurrent(Said(SchemaVersion, w))
      <3> HIDE DEF kept
      <3> QED BY <2>1, <2>3, <2>5
    <2> QED BY <2>4, <2>5
  <1> QED BY <1>1, <1>2

\* An entry as this release holds it.
Sound(e) ==
  /\ e = Entry(e.schema_version, e.decision_audit_id, e.occurred_at, e.anchor,
               e.decision, e.binding, e.fact_resolution, e.tenant)
  /\ ValidateCurrent(e) /\ Resolved(e.fact_resolution)
  /\ "policy_hash_version" \in DOMAIN e.anchor

LEMMA NormalizeFixed ==
  ASSUME NEW t \in Nat
  PROVE  /\ t % Micro = 0 => Normalize(t) = t
         /\ Normalize(t) \in 0 .. t
  <1>1. t % Micro \in 0 .. t
    <2>1. Micro \in Nat \ {0} BY HistoryAssumption
    <2>2. t % Micro \in Nat /\ t = Micro * (t \div Micro) + (t % Micro)
          /\ t \div Micro \in Nat
      BY <2>1
    <2>3. Micro * (t \div Micro) \in Nat BY <2>1, <2>2
    <2> QED BY <2>2, <2>3
  <1> QED BY <1>1 DEF Normalize

\* An entry in current or in schema 1 form is valid in current form.
LEMMA ValidInEveryVersion ==
  ASSUME NEW e, NEW u, ValidateCurrent(e), u.schema_version = SchemaVersion,
         u.decision_audit_id = e.decision_audit_id, u.occurred_at = e.occurred_at,
         u.anchor = e.anchor, u.decision = e.decision, u.binding = e.binding,
         u.fact_resolution = e.fact_resolution, u.tenant = e.tenant
  PROVE  ValidateCurrent(u)
  BY DEF ValidateCurrent, SchemaVersion

LEMMA SoundIsRead ==
  ASSUME NEW e, Sound(e)
  PROVE  EntryFromWire(e) = e /\ e # Rejected /\ DOMAIN e = CurrentFields
  <1>1. DOMAIN e = CurrentFields /\ e # Rejected
    <2>1. e = Entry(e.schema_version, e.decision_audit_id, e.occurred_at, e.anchor,
                    e.decision, e.binding, e.fact_resolution, e.tenant)
      BY DEF Sound
    <2> QED BY <2>1, EntryFieldsOf
  <1>2. /\ e.schema_version \in {1, SchemaVersion}
        /\ e.anchor.policy_hash_version = HashFormat
        /\ ValidOccurrence(e.decision_audit_id, e.occurred_at)
    BY DEF Sound, ValidateCurrent
  <1>3. /\ Acceptable(e.decision_audit_id, e.occurred_at)
        /\ e.occurred_at \in Nat /\ e.occurred_at % Micro = 0
    BY <1>2, HistoryAssumption DEF ValidOccurrence, Acceptable
  <1>4. Normalize(e.occurred_at) = e.occurred_at BY <1>3, NormalizeFixed
  <1>5. /\ WellFormedEvidence(e.fact_resolution)
        /\ EvidenceFromWire(e.fact_resolution) = e.fact_resolution
    BY ResolvedIsFixed DEF Sound
  <1>6. Readable(e) BY <1>1, <1>2, <1>3, <1>5 DEF Sound, Readable
  <1>7. Said(e.schema_version, e) = e BY <1>4, <1>5, Zenon DEF Said, Sound
  <1>8. ValidateCurrent(Said(SchemaVersion, e))
    <2> DEFINE u == Said(SchemaVersion, e)
    <2>1. /\ u.schema_version = SchemaVersion
          /\ u.decision_audit_id = e.decision_audit_id /\ u.occurred_at = e.occurred_at
          /\ u.anchor = e.anchor /\ u.decision = e.decision /\ u.binding = e.binding
          /\ u.fact_resolution = e.fact_resolution /\ u.tenant = e.tenant
      BY <1>4, <1>5 DEF Said, Entry
    <2> HIDE DEF u
    <2>2. ValidateCurrent(u) BY <2>1, ValidInEveryVersion, Zenon DEF Sound
    <2> QED BY <2>2 DEF u
  <1> QED BY <1>1, <1>6, <1>7, <1>8, EntryFromWireIs DEF Sound

\* What the decision decoder accepts is sound, and a payload that a 4.x
\* serializer wrote is read as it is.
LEMMA ReadIsSound ==
  ASSUME NEW r, IsRow(r), DecodeDecision(r) # Rejected
  PROVE  /\ Sound(DecodeDecision(r))
         /\ DecodeDecision(r).tenant \in Tenants
         /\ DecodeDecision(r).decision_audit_id \in Ids \union LegacyIds
         /\ Canonical(r.payload) => DecodeDecision(r) = r.payload
  <1> DEFINE w == r.payload
             e == EntryFromWire(w)
  <1>1. /\ DecodeDecision(r) = e /\ e # Rejected /\ ValidateCurrent(e)
        /\ r.tenant = e.tenant /\ r.id = <<"gatekeep-audit-", e.decision_audit_id>>
    <2> HIDE DEF e
    <2> QED BY DEF DecodeDecision, e, w
  <1>2. e = Said(w.schema_version, w) /\ Readable(w)
    <2> HIDE DEF w
    <2> QED BY <1>1, EntryFromWireIs
  <1> HIDE DEF e
  <1>3. e = Entry(w.schema_version, w.decision_audit_id, Normalize(w.occurred_at), w.anchor,
                  w.decision, w.binding, EvidenceFromWire(w.fact_resolution), w.tenant)
    BY <1>2, Zenon DEF Said
  <1>4. /\ e = Entry(e.schema_version, e.decision_audit_id, e.occurred_at, e.anchor,
                     e.decision, e.binding, e.fact_resolution, e.tenant)
        /\ e.fact_resolution = EvidenceFromWire(w.fact_resolution) /\ e.anchor = w.anchor
    <2> HIDE DEF w
    <2>1. /\ e.schema_version = w.schema_version
          /\ e.decision_audit_id = w.decision_audit_id
          /\ e.occurred_at = Normalize(w.occurred_at)
          /\ e.anchor = w.anchor /\ e.decision = w.decision /\ e.binding = w.binding
          /\ e.fact_resolution = EvidenceFromWire(w.fact_resolution) /\ e.tenant = w.tenant
      BY <1>3, EntryFieldsOf
    <2> QED BY <1>3, <2>1
  <1>5. /\ w.fact_resolution \in EvidenceRecords /\ WellFormedEvidence(w.fact_resolution)
        /\ "policy_hash_version" \in DOMAIN w.anchor
    <2>1. "fact_resolution" \in DOMAIN w BY <1>2 DEF Readable, CurrentFields
    <2> QED BY <1>2, <2>1 DEF Readable, IsRow, IsPayload
  <1>6. Resolved(e.fact_resolution) BY <1>4, <1>5, ReadingResolves
  <1>7. Sound(e) BY <1>1, <1>4, <1>5, <1>6 DEF Sound
  <1>8. e.tenant \in Tenants /\ e.decision_audit_id \in Ids \union LegacyIds
    <2>1. r.id[2] = e.decision_audit_id BY <1>1
    <2> QED BY <1>1, <2>1 DEF IsRow
  <1>9. ASSUME Canonical(w) PROVE e = w
    <2>1. w = [k \in CurrentFields |-> w[k]] BY <1>9 DEF IsRow, IsPayload, Canonical
    <2>2. e = Entry(w.schema_version, w.decision_audit_id, w.occurred_at, w.anchor,
                    w.decision, w.binding, w.fact_resolution, w.tenant)
      BY <1>3, <1>9 DEF Canonical
    <2> HIDE DEF w
    <2>3. w = Entry(w.schema_version, w.decision_audit_id, w.occurred_at, w.anchor,
                    w.decision, w.binding, w.fact_resolution, w.tenant)
      BY <2>1 DEF CurrentFields, Entry
    <2> QED BY <2>2, <2>3
  <1> QED BY <1>1, <1>7, <1>8, <1>9

LEMMA RowFieldsOf ==
  ASSUME NEW tenant, NEW source, NEW type, NEW prefix, NEW id, NEW time, NEW payload, NEW bytes,
         NEW r, r = Row(tenant, source, type, prefix, id, time, payload, bytes)
  PROVE  /\ r = [k \in RowFields |-> r[k]] /\ r # Rejected
         /\ r.tenant = tenant /\ r.source = source /\ r.type = type
         /\ r.content = "application/json" /\ r.id = <<prefix, id>> /\ r.time = time
         /\ r.payload = payload /\ r.bytes = bytes
  <1>1. "tenant" \in DOMAIN r /\ "tenant" \notin DOMAIN Rejected BY DEF Row, Rejected
  <1>2. r = [k \in RowFields |-> r[k]] BY DEF Row, RowFields
  <1> QED BY <1>1, <1>2 DEF Row

LEMMA EventIsRead ==
  ASSUME NEW e, Sound(e), e.tenant \in Tenants, e.decision_audit_id \in Ids \union LegacyIds,
         NEW bytes \in Nat, NEW row, row = EventFromEntry(e, bytes), row # Rejected
  PROVE  /\ IsRow(row) /\ DecodeDecision(row) = e /\ DecodeLegacy(row) = Rejected
         /\ row.type = DecisionType /\ row.tenant = e.tenant /\ row.source = Source
         /\ row.time \in 0 .. Portable /\ row.bytes \in 0 .. MaxBytes
  <1>1. /\ row = Row(e.tenant, Source, DecisionType, "gatekeep-audit-", e.decision_audit_id,
                     e.occurred_at, e, bytes)
        /\ bytes <= MaxBytes
    BY DEF EventFromEntry
  <1>2. ValidOccurrence(e.decision_audit_id, e.occurred_at) /\ ValidateCurrent(e)
    BY DEF Sound, ValidateCurrent
  <1>3. e.occurred_at \in 0 .. Portable /\ e.occurred_at \in Nat
    BY <1>2, HistoryAssumption DEF ValidOccurrence, Acceptable
  <1>4. EntryFromWire(e) = e /\ e # Rejected /\ DOMAIN e = CurrentFields BY SoundIsRead
  <1>5. IsPayload(e)
    <2>1. e = [k \in CurrentFields |-> e[k]] BY DEF Sound, Entry, CurrentFields
    <2> QED BY <1>4, <2>1 DEF Sound, Resolved, IsPayload
  <1>6. /\ IsRow(row) /\ row.tenant = e.tenant /\ row.source = Source /\ row.type = DecisionType
        /\ row.content = "application/json" /\ row.payload = e
        /\ row.id = <<"gatekeep-audit-", e.decision_audit_id>> /\ row.time = e.occurred_at
        /\ row.bytes = bytes
    <2>1. /\ row.tenant = e.tenant /\ row.source = Source /\ row.type = DecisionType
          /\ row.content = "application/json" /\ row.payload = e
          /\ row.id = <<"gatekeep-audit-", e.decision_audit_id>> /\ row.time = e.occurred_at
          /\ row.bytes = bytes
      BY <1>1, RowFieldsOf
    <2>2. row = [k \in RowFields |-> row[k]] BY <1>1, RowFieldsOf
    <2>3. row.id = <<row.id[1], row.id[2]>> /\ row.id[2] = e.decision_audit_id BY <2>1
    <2>4. IsRow(row) BY <1>3, <1>5, <2>1, <2>2, <2>3, HistoryAssumption DEF IsRow
    <2> QED BY <2>1, <2>4
  <1>7. ~(bytes > MaxBytes) /\ row.bytes \in 0 .. MaxBytes
    BY <1>1, <1>6, HistoryAssumption
  <1>8. DecodeDecision(row) = e BY <1>2, <1>4, <1>6, <1>7 DEF DecodeDecision, Addressed
  <1>9. DecodeLegacy(row) = Rejected
    <2>1. "schema_version" \in DOMAIN row.payload BY <1>4, <1>6 DEF CurrentFields
    <2> QED BY <2>1, LegacyNamesNone
  <1> QED BY <1>3, <1>6, <1>7, <1>8, <1>9

\* What AuditEntry::new accepts.
LEMMA NewIsSound ==
  ASSUME NEW id, NEW at, NEW policy, NEW d, NEW binding, NEW evidence, NEW tenant,
         Acceptable(id, at), Resolved(evidence),
         NEW e, e # Rejected,
         e = NewEntry(Occurrence(id, at), Anchor(policy), d, binding, evidence, tenant)
  PROVE  /\ Sound(e) /\ e.tenant = tenant /\ e.decision_audit_id = id
         /\ e.decision = d /\ e.anchor.policy = policy
  <1> DEFINE occ == Occurrence(id, at)
  <1>1. occ.id = id BY DEF Occurrence
  <1> HIDE DEF occ
  <1>2. /\ e = Entry(SchemaVersion, occ.id, occ.at, Anchor(policy), d, binding, evidence, tenant)
        /\ ValidateCurrent(e)
    BY NewEntryIs DEF occ
  <1>3. /\ e.schema_version = SchemaVersion
        /\ e.decision_audit_id = occ.id /\ e.occurred_at = occ.at
        /\ e.anchor = Anchor(policy) /\ e.decision = d /\ e.binding = binding
        /\ e.fact_resolution = evidence /\ e.tenant = tenant
    BY <1>2, EntryFieldsOf
  <1>4. /\ e = Entry(e.schema_version, e.decision_audit_id, e.occurred_at, e.anchor,
                     e.decision, e.binding, e.fact_resolution, e.tenant)
        /\ Resolved(e.fact_resolution)
    BY <1>2, <1>3
  <1>5. "policy_hash_version" \in DOMAIN e.anchor /\ e.anchor.policy = policy
    BY <1>3 DEF Anchor
  <1> QED BY <1>1, <1>2, <1>3, <1>4, <1>5 DEF Sound

AttemptOf(occ, policy, tenant, binding, failure) ==
  [schema_version |-> 1, occurrence |-> occ, anchor |-> Anchor(policy),
   tenant |-> tenant, binding |-> binding, failure |-> failure]

\* An attempt is read as it was written.
LEMMA AttemptIsRead ==
  ASSUME NEW id \in Ids \union LegacyIds, NEW at, NEW policy, NEW tenant \in Tenants,
         NEW binding, NEW failure, NEW bytes \in Nat, NEW occ, occ = Occurrence(id, at),
         occ # Rejected, NEW a,
         a = AttemptOf(occ, policy, tenant, binding, failure),
         ValidAttempt(a), NEW row, row = EventFromAttempt(a, bytes), row # Rejected
  PROVE  /\ IsRow(row) /\ DecodeAttempt(row) = a /\ row.type = AttemptType
         /\ row.time \in 0 .. Portable /\ row.bytes \in 0 .. MaxBytes
  <1>1. occ = [id |-> id, at |-> Normalize(at)] BY DEF Occurrence
  <1>2. occ.id = id BY <1>1
  <1>3. /\ a.tenant = tenant /\ a.occurrence = occ /\ a.anchor = Anchor(policy)
        /\ DOMAIN a = AttemptFields /\ a = [k \in DOMAIN a |-> a[k]]
    BY DEF AttemptFields, AttemptOf
  <1>4. ValidOccurrence(occ.id, occ.at) BY <1>3 DEF ValidAttempt
  <1>5. Acceptable(occ.id, occ.at) /\ occ.at \in 0 .. Portable /\ occ.at \in Nat
        /\ occ.at % Micro = 0
    BY <1>4, HistoryAssumption DEF ValidOccurrence, Acceptable
  <1>6. Normalize(occ.at) = occ.at BY <1>5, NormalizeFixed
  <1>7. Occurrence(occ.id, occ.at) = occ BY <1>1, <1>5, <1>6 DEF Occurrence
  <1>8. [a EXCEPT !.occurrence = Occurrence(@.id, @.at)] = a BY <1>3, <1>7
  <1>9. Anchor(policy).policy_hash_version = HashFormat
        /\ "policy_hash_version" \in DOMAIN Anchor(policy)
    BY DEF Anchor
  <1>10. AttemptFromWire(a) = a BY <1>3, <1>5, <1>8, <1>9 DEF AttemptFromWire
  <1>11. a # Rejected
    <2>1. "tenant" \in DOMAIN a /\ "tenant" \notin DOMAIN Rejected
      BY <1>3 DEF AttemptFields, Rejected
    <2> QED BY <2>1
  <1>12. /\ row = Row(a.tenant, Source, AttemptType, "gatekeep-attempt-", a.occurrence.id,
                      a.occurrence.at, a, bytes)
         /\ bytes <= MaxBytes
    BY DEF EventFromAttempt
  <1>13. /\ row.tenant = tenant /\ row.source = Source /\ row.type = AttemptType
         /\ row.content = "application/json" /\ row.payload = a
         /\ row.id = <<"gatekeep-attempt-", a.occurrence.id>> /\ row.time = a.occurrence.at
         /\ row.bytes = bytes
    BY <1>3, <1>12 DEF Row
  <1>14. row = [k \in RowFields |-> row[k]] BY <1>12 DEF Row, RowFields
  <1>15. row.id = <<row.id[1], row.id[2]>> /\ row.id[2] = id BY <1>2, <1>3, <1>13
  <1>16. IsPayload(a)
    <2>1. "fact_resolution" \notin AttemptFields BY DEF AttemptFields
    <2> QED BY <1>3, <2>1 DEF IsPayload
  <1>17. IsRow(row)
    BY <1>3, <1>5, <1>13, <1>14, <1>15, <1>16, HistoryAssumption DEF IsRow
  <1>18. ~(bytes > MaxBytes) /\ row.bytes \in 0 .. MaxBytes
    BY <1>12, <1>13, HistoryAssumption
  <1>19. DecodeAttempt(row) = a
    <2> USE <1>3, <1>10, <1>11, <1>13, <1>18
    <2> QED BY DEF DecodeAttempt, Addressed
  <1> QED BY <1>3, <1>5, <1>13, <1>17, <1>18, <1>19

(***************************************************************************)
(* The inductive invariant, and what a write has to bring along.           *)
(***************************************************************************)
HistoryInv == TypeOK /\ WrittenIsRead /\ ImportKeepsDecision

Recorded(row, record) ==
  record = IF row.type = AttemptType THEN DecodeAttempt(row) ELSE DecodeDecision(row)

Imported(row, record, from) ==
  /\ from # row
  /\ row.tenant = from.tenant /\ row.source = from.source
  /\ record.decision = from.payload.decision
  /\ record.anchor.policy = from.payload.anchor.policy
  /\ DecodeLegacy(from) # Rejected /\ DecodeLegacy(row) = Rejected

LEMMA StoreKeeps ==
  ASSUME HistoryInv, NEW row, NEW record, NEW from, Store(row, record, from),
         IsRow(row), row.time \in 0 .. Portable, row.bytes \in 0 .. MaxBytes,
         Recorded(row, record),
         from # Nil => from \in rows /\ Imported(row, record, from)
  PROVE  HistoryInv'
  <1> DEFINE new == [row |-> row, record |-> record, from |-> from]
  <1>1. rows' = rows \union {row} /\ written' = written \union {new} BY DEF Store
  <1>2. new.row = row /\ new.record = record /\ new.from = from OBVIOUS
  <1> HIDE DEF new
  <1>3. TypeOK' BY <1>1, <1>2 DEF HistoryInv, TypeOK
  <1>4. WrittenIsRead'
    <2> SUFFICES ASSUME NEW w \in written'
                 PROVE  w.record = IF w.row.type = AttemptType THEN DecodeAttempt(w.row)
                                   ELSE DecodeDecision(w.row)
      BY DEF WrittenIsRead
    <2>1. CASE w = new BY <1>2, <2>1 DEF Recorded
    <2>2. CASE w \in written BY <2>2 DEF HistoryInv, WrittenIsRead
    <2> QED BY <1>1, <2>1, <2>2
  <1>5. ImportKeepsDecision'
    <2> SUFFICES ASSUME NEW w \in written', w.from # Nil
                 PROVE  w.from \in rows' /\ Imported(w.row, w.record, w.from)
      BY DEF ImportKeepsDecision, Imported
    <2>1. CASE w = new BY <1>1, <1>2, <2>1
    <2>2. CASE w \in written BY <1>1, <2>2 DEF HistoryInv, ImportKeepsDecision, Imported
    <2> QED BY <1>1, <2>1, <2>2
  <1> QED BY <1>3, <1>4, <1>5 DEF HistoryInv

LEMMA DecisionStored ==
  ASSUME HistoryInv, NEW e, Sound(e), e.tenant \in Tenants,
         e.decision_audit_id \in Ids \union LegacyIds, NEW bytes \in Nat, NEW from,
         Store(EventFromEntry(e, bytes), e, from),
         from # Nil => /\ from \in rows /\ DecodeLegacy(from) # Rejected
                       /\ e.tenant = from.tenant /\ from.source = Source
                       /\ e.decision = from.payload.decision
                       /\ e.anchor.policy = from.payload.anchor.policy
  PROVE  HistoryInv'
  <1> DEFINE row == EventFromEntry(e, bytes)
  <1>1. row # Rejected BY DEF Store
  <1>2. Store(row, e, from) OBVIOUS
  <1> HIDE DEF row
  <1>3. /\ IsRow(row) /\ DecodeDecision(row) = e /\ DecodeLegacy(row) = Rejected
        /\ row.type = DecisionType /\ row.tenant = e.tenant /\ row.source = Source
        /\ row.time \in 0 .. Portable /\ row.bytes \in 0 .. MaxBytes
    BY <1>1, EventIsRead DEF row
  <1>4. Recorded(row, e) BY <1>3 DEF Recorded, DecisionType, AttemptType
  <1>5. ASSUME from # Nil PROVE from \in rows /\ Imported(row, e, from)
    BY <1>3, <1>5 DEF Imported
  <1> QED BY <1>2, <1>3, <1>4, <1>5, StoreKeeps

LEMMA RecordKeeps ==
  ASSUME HistoryInv, NEW x \in Inputs, Record(x)
  PROVE  HistoryInv'
  <1> DEFINE e == NewEntry(Occurrence(x.id, x.at), Anchor(x.policy), x.decision, x.binding,
                           x.evidence, x.tenant)
  <1>1. /\ Occurrence(x.id, x.at) # Rejected /\ e # Rejected
        /\ Store(EventFromEntry(e, x.bytes), e, Nil)
    BY Zenon DEF Record
  <1>2. Acceptable(x.id, x.at) BY <1>1 DEF Occurrence
  <1>3. /\ x.id \in Ids \union LegacyIds /\ x.tenant \in Tenants /\ x.bytes \in Nat
        /\ Resolved(x.evidence)
    BY InputsAssumption
  <1>4. Sound(e) /\ e.tenant = x.tenant /\ e.decision_audit_id = x.id
    BY <1>1, <1>2, <1>3, NewIsSound
  <1> HIDE DEF e
  <1> QED BY <1>1, <1>3, <1>4, DecisionStored

LEMMA RecordAttemptKeeps ==
  ASSUME HistoryInv, NEW x \in AttemptInputs, RecordAttempt(x)
  PROVE  HistoryInv'
  <1> DEFINE occ == Occurrence(x.id, x.at)
             a == AttemptOf(occ, x.policy, x.tenant, x.binding, x.failure)
             row == EventFromAttempt(a, x.bytes)
  <1>1. occ # Rejected /\ ValidAttempt(a) /\ Store(row, a, Nil)
    BY Zenon DEF RecordAttempt, AttemptOf
  <1>2. x.id \in Ids \union LegacyIds /\ x.tenant \in Tenants /\ x.bytes \in Nat
    BY InputsAssumption
  <1>3. row # Rejected
    <2> HIDE DEF row
    <2> QED BY <1>1 DEF Store
  <1>4. /\ IsRow(row) /\ DecodeAttempt(row) = a /\ row.type = AttemptType
        /\ row.time \in 0 .. Portable /\ row.bytes \in 0 .. MaxBytes
    <2>1. /\ occ = Occurrence(x.id, x.at) /\ row = EventFromAttempt(a, x.bytes)
          /\ a = AttemptOf(occ, x.policy, x.tenant, x.binding, x.failure)
      OBVIOUS
    <2> HIDE DEF row, a, occ
    <2> QED BY <1>1, <1>2, <1>3, <2>1, AttemptIsRead
  <1> HIDE DEF row, a
  <1>5. Recorded(row, a) BY <1>4 DEF Recorded
  <1> QED BY <1>1, <1>4, <1>5, StoreKeeps

LEMMA ImportKeeps ==
  ASSUME HistoryInv, NEW r \in rows, NEW x \in ImportInputs, Import(r, x)
  PROVE  HistoryInv'
  <1> DEFINE l == DecodeLegacy(r)
             e == IntoCurrent(l, x)
  <1>1. l # Rejected /\ e # Rejected /\ Store(EventFromEntry(e, r.bytes), e, r)
    BY Zenon DEF Import
  <1>2. IsRow(r) BY DEF HistoryInv, TypeOK
  <1>3. r.tenant \in Tenants /\ r.bytes \in Nat BY <1>2 DEF IsRow
  <1>4. l = r.payload /\ r.tenant = l.tenant /\ Addressed(r, DecisionType)
    BY <1>1, LegacyNamesNone
  <1>5. x.id \in Ids \union LegacyIds /\ Resolved(x.evidence) BY InputsAssumption
  <1> HIDE DEF l
  <1>6. /\ Acceptable(x.id, x.at)
        /\ e = NewEntry(Occurrence(x.id, x.at), Anchor(l.anchor.policy), l.decision,
                        x.binding, x.evidence, l.tenant)
    BY <1>1, Zenon DEF IntoCurrent
  <1> HIDE DEF e
  <1>7. /\ Sound(e) /\ e.tenant = l.tenant /\ e.decision_audit_id = x.id
        /\ e.decision = l.decision /\ e.anchor.policy = l.anchor.policy
    BY <1>1, <1>5, <1>6, NewIsSound
  <1>8. r.source = Source BY <1>4 DEF Addressed
  <1>9. DecodeLegacy(r) # Rejected BY <1>1 DEF l
  <1> QED BY <1>1, <1>3, <1>4, <1>5, <1>7, <1>8, <1>9, DecisionStored

LEMMA RerecordKeeps ==
  ASSUME HistoryInv, NEW r \in rows, Rerecord(r)
  PROVE  HistoryInv'
  <1> DEFINE e == DecodeDecision(r)
  <1>1. e # Rejected /\ Store(EventFromEntry(e, r.bytes), e, Nil) BY Zenon DEF Rerecord
  <1>2. IsRow(r) BY DEF HistoryInv, TypeOK
  <1>3. r.bytes \in Nat BY <1>2 DEF IsRow
  <1>4. Sound(e) /\ e.tenant \in Tenants /\ e.decision_audit_id \in Ids \union LegacyIds
    BY <1>1, <1>2, ReadIsSound
  <1> HIDE DEF e
  <1> QED BY <1>1, <1>3, <1>4, DecisionStored

\* Every record and every import is added with what the readers make of it, and
\* the table only grows (Record, RecordAttempt, Import, Rerecord).
THEOREM HistoryInvariant == Spec => []HistoryInv
  <1>1. Init => HistoryInv
    <2> SUFFICES ASSUME Init PROVE HistoryInv OBVIOUS
    <2>1. \A r \in rows : IsRow(r) BY HistoriesAssumption DEF Init
    <2> QED BY <2>1 DEF Init, HistoryInv, TypeOK, WrittenIsRead, ImportKeepsDecision
  <1>2. HistoryInv /\ [Next]_vars => HistoryInv'
    <2> SUFFICES ASSUME HistoryInv, [Next]_vars PROVE HistoryInv' OBVIOUS
    <2>1. CASE \E x \in Inputs : Record(x) BY <2>1, RecordKeeps
    <2>2. CASE \E x \in AttemptInputs : RecordAttempt(x) BY <2>2, RecordAttemptKeeps
    <2>3. CASE \E r \in rows : Rerecord(r) BY <2>3, RerecordKeeps
    <2>4. CASE \E r \in rows : \E x \in ImportInputs : Import(r, x) BY <2>4, ImportKeeps
    <2>5. CASE UNCHANGED vars
      BY <2>5 DEF vars, HistoryInv, TypeOK, WrittenIsRead, ImportKeepsDecision
    <2> QED BY <2>1, <2>2, <2>3, <2>4, <2>5 DEF Next
  <1> QED BY <1>1, <1>2, PTL DEF Spec

(***************************************************************************)
(* The theorems.                                                           *)
(***************************************************************************)
\* The table holds only rows, and what this release writes has a portable time
\* and a size within the bound (event_from_entry, event_from_attempt).
THEOREM HistoryTypeCorrect == Spec => []TypeOK
  <1>1. HistoryInv => TypeOK BY DEF HistoryInv
  <1> QED BY <1>1, HistoryInvariant, PTL

LEMMA RereadReplays ==
  ASSUME NEW r, IsRow(r), DecodeDecision(r) # Rejected, Canonical(r.payload)
  PROVE  EventFromEntry(DecodeDecision(r), r.bytes) = r
  <1> DEFINE e == DecodeDecision(r)
  <1>1. e = r.payload /\ Sound(e) BY ReadIsSound
  <1>2. /\ Addressed(r, DecisionType) /\ e.tenant = r.tenant
        /\ e.decision_audit_id \notin LegacyIds
        /\ r.id = <<"gatekeep-audit-", e.decision_audit_id>>
    BY CurrentNamesSchema
  <1>3. r.time = e.occurred_at /\ ~(r.bytes > MaxBytes)
    <2> DEFINE u == EntryFromWire(r.payload)
    <2> HIDE DEF u
    <2> QED BY DEF DecodeDecision, u
  <1>4. r.bytes <= MaxBytes BY <1>3, HistoryAssumption DEF IsRow
  <1> HIDE DEF e
  <1>5. ValidateCurrent(e) BY <1>1 DEF Sound
  <1>6. EventFromEntry(e, r.bytes) = Row(e.tenant, Source, DecisionType, "gatekeep-audit-",
                                         e.decision_audit_id, e.occurred_at, e, r.bytes)
    BY <1>2, <1>4, <1>5 DEF EventFromEntry
  <1>7. Row(e.tenant, Source, DecisionType, "gatekeep-audit-", e.decision_audit_id,
            e.occurred_at, e, r.bytes) = r
    <2>1. r = [k \in RowFields |-> r[k]] BY DEF IsRow
    <2>2. r = [tenant |-> r.tenant, source |-> r.source, type |-> r.type,
               content |-> r.content, id |-> r.id, time |-> r.time, payload |-> r.payload,
               bytes |-> r.bytes]
      BY <2>1 DEF RowFields
    <2>3. /\ r.source = Source /\ r.type = DecisionType /\ r.content = "application/json"
      BY <1>2 DEF Addressed
    <2> QED BY <1>1, <1>2, <1>3, <2>2, <2>3 DEF Row
  <1> QED BY <1>6, <1>7 DEF e

\* Whatever earlier writers left: every event this release writes decodes to the
\* record that was handed in, and an event in canonical form that was read can
\* be recorded again as a replay (event_from_entry, decode_decision_audit,
\* AuditEntry::deserialize, event_from_attempt, decode_authorization_attempt).
THEOREM WritesRoundTrip == Spec => []RoundTrips
  <1>1. HistoryInv => RoundTrips
    <2> SUFFICES ASSUME HistoryInv PROVE RereadIsReplay BY DEF HistoryInv, RoundTrips
    <2>1. \A r \in rows : IsRow(r) BY DEF HistoryInv, TypeOK
    <2> QED BY <2>1, RereadReplays DEF RereadIsReplay
  <1> QED BY <1>1, HistoryInvariant, PTL

\* No stored row is accepted by two of the three decoders, and what a decoder
\* accepts is in the tenant and source of its row and not under an imported
\* identity (decode_decision_audit, decode_legacy_decision_audit,
\* decode_authorization_attempt).
THEOREM RowsHaveOneReader == Spec => []ReadersAreExact
  <1>1. HistoryInv => ReadersAreExact
    <2> SUFFICES ASSUME HistoryInv PROVE ReadInItsScope BY OneReaderHolds DEF ReadersAreExact
    <2> SUFFICES ASSUME NEW r \in rows
                 PROVE  /\ DecodeDecision(r) # Rejected =>
                             /\ DecodeDecision(r).tenant = r.tenant
                             /\ DecodeDecision(r).binding = r.tenant
                             /\ r.source = Source /\ r.id[2] \in Ids
                        /\ DecodeAttempt(r) # Rejected =>
                             /\ DecodeAttempt(r).tenant = r.tenant
                             /\ DecodeAttempt(r).binding = r.tenant
                             /\ r.source = Source /\ r.id[2] \in Ids
      BY DEF ReadInItsScope
    <2>1. r.id[2] \in Ids \union LegacyIds BY DEF HistoryInv, TypeOK, IsRow
    <2>2. ASSUME DecodeDecision(r) # Rejected
          PROVE  /\ DecodeDecision(r).tenant = r.tenant /\ DecodeDecision(r).binding = r.tenant
                 /\ r.source = Source /\ r.id[2] \in Ids
      <3> DEFINE e == DecodeDecision(r)
      <3>1. /\ Addressed(r, DecisionType) /\ e.tenant = r.tenant /\ e.binding = r.tenant
            /\ e.decision_audit_id \notin LegacyIds
            /\ r.id = <<"gatekeep-audit-", e.decision_audit_id>>
        BY <2>2, CurrentNamesSchema
      <3> HIDE DEF e
      <3>2. r.id[2] = e.decision_audit_id BY <3>1
      <3>3. r.source = Source /\ r.id[2] \in Ids BY <2>1, <3>1, <3>2 DEF Addressed
      <3> QED BY <3>1, <3>3 DEF e
    <2>3. ASSUME DecodeAttempt(r) # Rejected
          PROVE  /\ DecodeAttempt(r).tenant = r.tenant /\ DecodeAttempt(r).binding = r.tenant
                 /\ r.source = Source /\ r.id[2] \in Ids
      <3> DEFINE a == DecodeAttempt(r)
      <3>1. /\ Addressed(r, AttemptType) /\ a.tenant = r.tenant /\ a.binding = r.tenant
            /\ a.occurrence.id \notin LegacyIds
            /\ r.id = <<"gatekeep-attempt-", a.occurrence.id>>
        BY <2>3, AttemptsAreTyped
      <3> HIDE DEF a
      <3>2. r.id[2] = a.occurrence.id BY <3>1
      <3>3. r.source = Source /\ r.id[2] \in Ids BY <2>1, <3>1, <3>2 DEF Addressed
      <3> QED BY <3>1, <3>3 DEF a
    <2> QED BY <2>2, <2>3
  <1> QED BY <1>1, HistoryInvariant, PTL

\* An import keeps the decision and the tenant of the legacy row, writes a
\* record that is not itself legacy, and leaves the row it was made from
\* (decode_legacy_decision_audit, LegacyAuditEntry::into_current).
THEOREM ImportsKeepDecisions == Spec => []ImportKeepsDecision
  <1>1. HistoryInv => ImportKeepsDecision BY DEF HistoryInv
  <1> QED BY <1>1, HistoryInvariant, PTL

=============================================================================
