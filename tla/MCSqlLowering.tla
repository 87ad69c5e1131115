--------------------------- MODULE MCSqlLowering ---------------------------
(***************************************************************************)
(* Two ordered tiers, two facts, nullable columns, rows of this tenant, of *)
(* another one and of none.                                                *)
(***************************************************************************)
EXTENDS SqlLowering

CONSTANTS a, b

MCFacts == {a, b}
MCOutcomes == {"shared", "full"}
MCOrdinal(o) == IF o = "full" THEN 1 ELSE 0
MCMeet(x, y) == IF "shared" \in {x, y} THEN "shared" ELSE "full"
MCJoin(x, y) == IF "full" \in {x, y} THEN "full" ELSE "shared"

MCObligations == {"review"}
MCLabels == {NoLabel}

Clauses ==
  {Grant("full", <<Has(a)>>, {}, NoLabel),
   Grant("shared", <<Has(b), Has(a), Not(2), AnyOf(<<1, 3>>)>>, {}, NoLabel),
   Grant("full", <<Has(a), Not(1)>>, {}, NoLabel),
   Grant("shared", <<Has(b)>>, {"review"}, NoLabel)}

Leaves == Clauses \union {Deny, Permit("shared"), Permit("full"), AllOf(<<>>), AnyOf(<<>>)}

Composed(m, n) == {AllOf(<<m, n>>), AnyOf(<<m, n>>), OrElse(m, n)}

Pairs(X) == {<<x, y, c>> : x, y \in X, c \in Composed(1, 2)}

MCPolicies ==
  Pairs(Leaves)
  \union {p \o <<z, c>> : p \in Pairs(Clauses), z \in Clauses, c \in Composed(3, 4) \union Composed(4, 3)}
  \union {<<x, y, z, AnyOf(<<1, 2, 3>>)>> : x, y, z \in Clauses}

=============================================================================
