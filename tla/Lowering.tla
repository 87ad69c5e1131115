------------------------------ MODULE Lowering ------------------------------
(***************************************************************************)
(* gatekeep-sqlx: what remains of a policy is lowered to a WHERE filter    *)
(* and a grade column.                                                     *)
(*                                                                         *)
(* A fragment is modelled by the SQL value it has on a row: TRUE, FALSE or *)
(* Null for a filter, an ordinal or Null for a grade.  The application's   *)
(* predicate for a fact reads one nullable column.  `nulls` is the         *)
(* backend's GRADE_FUNCTION_PROPAGATES_NULL: TRUE for SQLite and MySQL,    *)
(* FALSE for Postgres.                                                     *)
(***************************************************************************)
EXTENDS Reduction, Integers

CONSTANTS
  Ordinal(_),      \* SqlOutcome::to_sql_ordinal
  Tenant,          \* the context's tenant
  Tenants,
  Null

ASSUME NullAssumption == Null \notin BOOLEAN /\ Null \notin Int /\ Null \notin Tenants

ASSUME TenantAssumption == Tenant \in Tenants

\* "a total-order SQL ordinal": it orders the outcomes as the lattice does.
ASSUME OrdinalAssumption ==
  \A x, y \in Outcomes : Ordinal(x) \in Int /\ (Leq(x, y) <=> Ordinal(x) <= Ordinal(y))

Truth == {TRUE, FALSE, Null}

Rows == [tenant : Tenants \union {Null}, column : [Facts -> Truth]]

(***************************************************************************)
(* SQL's three-valued connectives over the set of the operands' values.    *)
(***************************************************************************)
SqlAnd(X) == IF FALSE \in X THEN FALSE ELSE IF Null \in X THEN Null ELSE TRUE
SqlOr(X) == IF TRUE \in X THEN TRUE ELSE IF Null \in X THEN Null ELSE FALSE
SqlNot(x) == IF x = Null THEN Null ELSE ~x

CaseWhen(x, then, else) == IF x = TRUE THEN then ELSE else

\* Slip: the predicate is used as it is, NULL included.
IsTrueBare(x) == x

\* (predicate) IS TRUE
IsTrue(x) == x = TRUE

Values(table, arms) == {table[arms[i]] : i \in DOMAIN arms}

LowerConditionNode(c, at, r) ==
  CASE c.kind = "always" -> TRUE
    [] c.kind = "never"  -> FALSE
    [] c.kind = "has"    -> IsTrue(r.column[c.fact])
    [] c.kind = "not"    -> SqlNot(at[c.arm])
    [] c.kind = "all"    -> IF c.arms = <<>> THEN FALSE ELSE SqlAnd(Values(at, c.arms))
    [] c.kind = "any"    -> IF c.arms = <<>> THEN FALSE ELSE SqlOr(Values(at, c.arms))

LowerConditionTable(c, r) ==
  LET at[n \in 1 .. Len(c)] == LowerConditionNode(c[n], at, r) IN at

LowerCondition(c, r) == Root(LowerConditionTable(c, r), c)

-----------------------------------------------------------------------------
(***************************************************************************)
(* Grades.  LEAST and GREATEST skip NULL in Postgres; min, max, LEAST and  *)
(* GREATEST return NULL in SQLite and MySQL, so the adapter guards them.   *)
(***************************************************************************)
Extreme(pick, X) == IF pick = "min" THEN Min(X) ELSE Max(X)

Native(pick, grades, nulls) ==
  LET X == {grades[i] : i \in DOMAIN grades} \ {Null}
  IN  IF X = {} \/ (nulls /\ \E i \in DOMAIN grades : grades[i] = Null) THEN Null
      ELSE Extreme(pick, X)

\* Slip: the backend's function is trusted to skip NULL.
NullSafePairUnguarded(pick, left, right) == Native(pick, <<left, right>>, TRUE)

\* null_safe_grade_pair
NullSafePair(pick, left, right) ==
  IF left = Null THEN right ELSE IF right = Null THEN left
  ELSE Native(pick, <<left, right>>, TRUE)

NullSafe(pick, grades) ==
  LET safe[i \in 1 .. Len(grades)] ==
        IF i = 1 THEN grades[1] ELSE NullSafePair(pick, safe[i - 1], grades[i])
  IN  safe[Len(grades)]

\* Slip: COALESCE, the first grade that is not NULL.
GradeSetFirst(pick, grades, nulls) ==
  LET graded == {i \in DOMAIN grades : grades[i] # Null}
  IN  IF graded = {} THEN Null ELSE grades[Min(graded)]

\* grade_set
GradeSet(pick, grades, nulls) ==
  IF grades = <<>> THEN Null
  ELSE IF nulls THEN NullSafe(pick, grades)
  ELSE Native(pick, grades, nulls)

\* carries_obligation
ObligedNode(p, at) ==
  CASE p.kind = "grant" -> p.obligations # {}
    [] p.kind = "permit_trace" -> p.decision.obligations # {}
    [] p.kind \in {"all", "any"} -> \E i \in DOMAIN p.arms : at[p.arms[i]]
    [] p.kind = "or_else" -> at[p.primary] \/ at[p.fallback]
    [] OTHER -> FALSE

CarriesObligation(p) == LET at[n \in 1 .. Len(p)] == ObligedNode(p[n], at) IN at

\* try_fold_pruned with the adapter's should_descend: a fallback that carries
\* an obligation is not visited, as nobody could discharge it per row.
Pruned(p, obliged) == obliged[p.fallback]

Plan(filter, grade) == [filter |-> filter, grade |-> grade]

Field(arms, name) == [i \in DOMAIN arms |-> arms[i][name]]

Filters(arms) == {arms[i].filter : i \in DOMAIN arms}

\* lower_node
LowerNode(p, at, obliged, r, nulls) ==
  LET arms == At(at, p.arms)
      primary == at[p.primary]
      fallback == at[p.fallback]
      filter == LowerCondition(p.condition, r)
  IN  CASE p.kind = "permit" -> Plan(TRUE, Ordinal(p.outcome))
        [] p.kind = "permit_trace" -> Plan(TRUE, Ordinal(p.decision.effect))
        [] p.kind \in {"deny", "deny_trace"} -> Plan(FALSE, Null)
        [] p.kind = "grant" -> Plan(filter, CaseWhen(filter, Ordinal(p.outcome), Null))
        [] p.kind \in {"all", "any"} /\ p.arms = <<>> -> Plan(FALSE, Null)
        [] p.kind = "all" /\ p.arms # <<>> ->
             Plan(SqlAnd(Filters(arms)), GradeSet("min", Field(arms, "grade"), nulls))
        [] p.kind = "any" /\ p.arms # <<>> ->
             Plan(SqlOr(Filters(arms)), GradeSet("max", Field(arms, "grade"), nulls))
        [] p.kind = "or_else" ->
             IF Pruned(p, obliged) THEN primary
             ELSE Plan(SqlOr({primary.filter, fallback.filter}),
                       CaseWhen(primary.filter, primary.grade, fallback.grade))

LowerTable(p, r, nulls) ==
  LET obliged == CarriesObligation(p)
      at[n \in 1 .. Len(p)] == LowerNode(p[n], at, obliged, r, nulls)
  IN  at

\* lower_policy
Lower(p, r, nulls) == Root(LowerTable(p, r, nulls), p)

\* Slip: the fallback is visited whatever it obliges to.
LowerFilterOrElseWhole(p, at, obliged) == SqlOr({at[p.primary], at[p.fallback]})

LowerFilterOrElse(p, at, obliged) ==
  SqlOr({at[p.primary]} \union (IF Pruned(p, obliged) THEN {} ELSE {at[p.fallback]}))

\* lower_filter_node: the filter without a grade
LowerFilterNode(p, at, obliged, r) ==
  CASE p.kind \in {"permit", "permit_trace"} -> TRUE
    [] p.kind \in {"deny", "deny_trace"} -> FALSE
    [] p.kind = "grant" -> LowerCondition(p.condition, r)
    [] p.kind = "or_else" -> LowerFilterOrElse(p, at, obliged)
    [] p.kind = "all" -> IF p.arms = <<>> THEN FALSE ELSE SqlAnd(Values(at, p.arms))
    [] p.kind = "any" -> IF p.arms = <<>> THEN FALSE ELSE SqlOr(Values(at, p.arms))

LowerFilterTable(p, r) ==
  LET obliged == CarriesObligation(p)
      at[n \in 1 .. Len(p)] == LowerFilterNode(p[n], at, obliged, r)
  IN  at

\* lower_filter
LowerFilter(p, r) == Root(LowerFilterTable(p, r), p)

\* tenant_column = bind
TenantGuard(r) == IF r.tenant = Null THEN Null ELSE r.tenant = Tenant

\* Slip: the tenant predicate is OR-ed to the policy.
EnforceTenantFilterOr(filter, r) == SqlOr({TenantGuard(r), filter})

EnforceTenantFilter(filter, r) == SqlAnd({TenantGuard(r), filter})

\* Slip: only the filter is guarded.
EnforceTenantProjectionBare(grade, r) == grade

EnforceTenantProjection(grade, r) == CaseWhen(EnforceTenantFilter(TRUE, r), grade, Null)

\* lower_result
LowerResult(result, r, nulls) ==
  LET plan == IF ~result.resolved THEN Lower(result.residual, r, nulls)
              ELSE IF IsPermit(result.decision) THEN Plan(TRUE, Ordinal(result.decision.effect))
              ELSE Plan(FALSE, Null)
  IN  Plan(EnforceTenantFilter(plan.filter, r), EnforceTenantProjection(plan.grade, r))

-----------------------------------------------------------------------------
(***************************************************************************)
(* What the lowering makes of a residual.  It omits a fallback that        *)
(* carries an obligation.  It conjoins: the grade of a row that is not     *)
(* selected need not be NULL.  It misgrades when such a grade takes part   *)
(* in a maximum, or when a fallback takes over from a primary whose own    *)
(* fallback was omitted.                                                   *)
(***************************************************************************)
Traits(omits, conjoins, misgrades) ==
  [omits |-> omits, conjoins |-> conjoins, misgrades |-> misgrades]

Some(arms, trait) == \E i \in DOMAIN arms : arms[i][trait]

OrElseTraits(primary, fallback) ==
  Traits(primary.omits \/ fallback.omits, primary.conjoins \/ fallback.conjoins,
         primary.omits \/ primary.misgrades \/ fallback.misgrades)

TraitsNode(p, at, obliged) ==
  LET arms == At(at, p.arms)
  IN  CASE p.kind = "all" -> Traits(Some(arms, "omits"), TRUE, Some(arms, "misgrades"))
        [] p.kind = "any" -> Traits(Some(arms, "omits"), Some(arms, "conjoins"),
                                    Some(arms, "conjoins") \/ Some(arms, "misgrades"))
        [] p.kind = "or_else" ->
             IF Pruned(p, obliged) THEN [at[p.primary] EXCEPT !.omits = TRUE]
             ELSE OrElseTraits(at[p.primary], at[p.fallback])
        [] OTHER -> Traits(FALSE, FALSE, FALSE)

TraitsTable(p) ==
  LET obliged == CarriesObligation(p)
      at[n \in 1 .. Len(p)] == TraitsNode(p[n], at, obliged)
  IN  at

\* Of what partial_evaluate returned
OmitsFallback(result) ==
  ~result.resolved /\ Root(TraitsTable(result.residual), result.residual).omits
MisgradesRows(result) ==
  ~result.resolved /\ Root(TraitsTable(result.residual), result.residual).misgrades

\* The facts of a row: a NULL predicate does not hold.
FactsOfRow(pf, r) == Present(pf) \union {f \in Unknown(pf) : r.column[f] = TRUE}

=============================================================================
