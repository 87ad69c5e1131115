------------------------ MODULE MCPartialEvaluation ------------------------
(***************************************************************************)
(* Every composition of two and three clauses over two facts, with a       *)
(* lattice that has incomparable outcomes, and every condition of depth    *)
(* two.                                                                    *)
(***************************************************************************)
EXTENDS PartialEvaluation

CONSTANTS a, b

MCFacts == {a, b}

\* Sets of permissions: {"read"} and {"write"} are incomparable.
MCOutcomes == {{}, {"read"}, {"write"}, {"read", "write"}}
MCMeet(x, y) == x \intersect y
MCJoin(x, y) == x \union y

MCObligations == {"notify", "log", "review"}
MCLabels == {NoLabel, "reader", "writer", "full", "guest", "deep"}

\* Two arms under each connective
Connected(m, n) == {AllOf(<<m, n>>), AnyOf(<<m, n>>)}

Atoms == <<Has(a), Has(b), Not(1), Always, Never>>
Compound ==
  {Atoms \o <<c>> : c \in {AllOf(<<>>), AnyOf(<<>>)}
                          \union UNION {Connected(m, n) : m, n \in 1 .. 5}}
DeepConditions ==
  Compound \union {c \o <<Not(6)>> : c \in Compound}
  \union {Atoms \o <<AnyOf(<<n, 2>>), AllOf(<<m, 6>>)>> : m, n \in 1 .. 5}
  \union {Atoms \o <<AllOf(<<m, 2>>), Not(n), AnyOf(<<6, 7>>)>> : m, n \in 1 .. 5}

Clauses ==
  {Deny, Permit({"read"}),
   Grant({"read"}, <<Has(a)>>, {"notify"}, "reader"),
   Grant({"write"}, <<Has(b)>>, {"log"}, "writer"),
   Grant({"read", "write"}, <<Has(a), Not(1)>>, {}, "full"),
   Grant({"read"}, <<Has(b)>>, {"review"}, "guest")}

Composed(m, n) == Connected(m, n) \union {OrElse(m, n)}

Pairs == {<<x, y, c>> : x, y \in Clauses, c \in Composed(1, 2)}

MCPolicies ==
  {<<Grant({"read"}, c, {}, "deep")>> : c \in DeepConditions}
  \union {<<AllOf(<<>>)>>, <<AnyOf(<<>>)>>}
  \union Pairs \union {p \o <<z, c>> : p \in Pairs, z \in Clauses, c \in Composed(3, 4) \union Composed(4, 3)}

=============================================================================
