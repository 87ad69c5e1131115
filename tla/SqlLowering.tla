---------------------------- MODULE SqlLowering ----------------------------
(***************************************************************************)
(* gatekeep-sqlx: an authorized list.  The request's facts are known, row  *)
(* facts are left unknown, what remains of the policy becomes a query, and *)
(* the database evaluates it on one row after another.                     *)
(***************************************************************************)
EXTENDS PartialEvaluation, Lowering

CONSTANT NoRow

VARIABLE row       \* the row the database is looking at

svars == <<pvars, row>>

-----------------------------------------------------------------------------
ListInit == ResidualInit /\ row = NoRow

\* The service reduces its policy and builds the query once.
ReduceOnce == Reduce /\ UNCHANGED row

\* The database evaluates the fragments on one row after another.
Scan(r) ==
  /\ held # NoResidual
  /\ row' = r
  /\ UNCHANGED pvars

ListNext == ReduceOnce \/ \E r \in Rows : Scan(r)

ListSpec == ListInit /\ [][ListNext]_svars

-----------------------------------------------------------------------------
\* What the row is on each backend.
OnRow(nulls) == LowerResult(held, row, nulls)

Selected == OnRow(TRUE).filter = TRUE

RowFacts == FactsOfRow(facts, row)

Complete == ~OmitsFallback(held)
Misgrades == MisgradesRows(held)

Scanning == held # NoResidual /\ row # NoRow

\* A row leaves the database only if it is the tenant's own and evaluating
\* the whole policy on that row's facts permits it, NULL columns and negated
\* conditions included (lower_result, enforce_tenant_filter).
SelectedIsPermitted ==
  (Scanning /\ Selected) => /\ row.tenant = Tenant
                            /\ IsPermit(Evaluate(policy, RowFacts))

\* No permitted row is hidden, unless its permit hangs on a fallback whose
\* obligation cannot be discharged in SQL (lower_node, carries_obligation).
PermittedIsSelected ==
  (Scanning /\ Complete /\ row.tenant = Tenant /\ IsPermit(Evaluate(policy, RowFacts)))
    => Selected

\* The query selects exactly the permitted rows of the tenant.
FilterIsExact == SelectedIsPermitted /\ PermittedIsSelected

\* The grade of a selected row never exceeds the granted outcome and equals
\* it when no fallback was left out, unless a conjunction lies below a
\* disjunction or an omitted fallback in the primary of another or_else
\* (grade_set, case_when); and selecting the grade without the filter shows
\* nothing of another tenant (enforce_tenant_projection).
GradeIsFaithful ==
  /\ (Scanning /\ Selected /\ ~Misgrades) =>
       LET granted == Ordinal(Evaluate(policy, RowFacts).effect)
           grade == OnRow(TRUE).grade
       IN  grade # Null /\ grade <= granted /\ (Complete => grade = granted)
  /\ (Scanning /\ row.tenant # Tenant) => OnRow(TRUE).grade = Null /\ OnRow(FALSE).grade = Null

\* Postgres skips NULL grades, SQLite and MySQL propagate them: the guarded
\* form gives every backend the same column (null_safe_grade_pair).  And
\* lower_filter and lower_result are two walks over one residual: a service
\* that lists through one and counts through the other sees the same rows.
LoweringsAgree ==
  /\ Scanning => OnRow(TRUE) = OnRow(FALSE)
  /\ (Scanning /\ ~held.resolved) =>
       EnforceTenantFilter(LowerFilter(held.residual, row), row) = OnRow(TRUE).filter

\* What query.rs says of the grade: "Projection computing the row's granted
\* outcome", for every policy that is lowered completely.
GradeIsGranted ==
  (Scanning /\ Selected /\ Complete) =>
    OnRow(TRUE).grade = Ordinal(Evaluate(policy, RowFacts).effect)

=============================================================================
