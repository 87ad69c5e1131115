------------------------- MODULE PartialEvaluation -------------------------
(***************************************************************************)
(* A service that keeps a residual (partial.rs): it reduces its policy     *)
(* with the facts it knows, holds what is left while further facts become  *)
(* known, and completes it when all of them are.                           *)
(***************************************************************************)
EXTENDS Reduction

CONSTANTS
  Policies,        \* the policies a service may hold
  NoResidual

ASSUME PoliciesAssumption == \A p \in Policies : IsPolicy(p)

VARIABLES
  policy,
  facts,           \* PartialFacts: the presence of every fact
  held             \* the Residual the service holds, or NoResidual

pvars == <<policy, facts, held>>

-----------------------------------------------------------------------------
ResidualInit ==
  /\ policy \in Policies
  /\ facts \in PartialFacts
  /\ held = NoResidual

Reduce ==
  /\ held = NoResidual
  /\ held' = PartialEvaluate(policy, facts)
  /\ UNCHANGED <<policy, facts>>

\* A fact that was deferred becomes known (with_present, with_absent).
Learn(f, value) ==
  /\ held # NoResidual
  /\ facts[f] = "unknown"
  /\ facts' = [facts EXCEPT ![f] = value]
  /\ UNCHANGED <<policy, held>>

ResidualNext == Reduce \/ \E f \in Facts, value \in {"present", "absent"} : Learn(f, value)

ResidualSpec == ResidualInit /\ [][ResidualNext]_pvars

-----------------------------------------------------------------------------
\* evaluate, with its loops, early returns and kept permits, computes the
\* meet, join and fallback of what the clauses grant.
EvaluateDenotes == Evaluate(policy, Present(facts)).effect = Meaning(policy, Present(facts))

\* A decision is determined by the facts its trace says were consulted:
\* facts that were skipped by an early return cannot change it, and every
\* consulted fact is one that required_facts announces (evaluate).
ConsultedDetermines ==
  LET d == Evaluate(policy, Present(facts))
  IN  /\ d.consulted \subseteq RequiredFacts(policy)
      /\ \A S \in SUBSET Facts :
           S \intersect d.consulted = Present(facts) \intersect d.consulted =>
             Evaluate(policy, S) = d

\* A residual that was reduced from fewer facts and kept since, completed
\* with whatever the other facts turn out to be, has the effect of evaluating
\* the policy outright, although arms were dropped and reordered
\* (partial_evaluate, complete_residual).
PartialPreservesEffect ==
  held # NoResidual =>
    \A S \in Completions(facts) : CompleteResidual(held, S).effect = Evaluate(policy, S).effect

\* A completed decision can be audited: its trace agrees with its effect, and
\* the consulted facts it lists, those dropped by the reduction included,
\* justify it against the original policy (complete_residual, AuditEntry).
CompletedIsAuditable ==
  held # NoResidual =>
    \A S \in Completions(facts) :
      LET d == CompleteResidual(held, S)
      IN  /\ ValidSemantics(d)
          /\ \A T \in SUBSET Facts : T \intersect d.consulted = S \intersect d.consulted =>
               Evaluate(policy, T).effect = d.effect

\* What is left of a policy never asks for a fact that was known when it was
\* reduced, and asks for something (required_residual_facts).
ResidualAsksUnknown ==
  [][held = NoResidual /\ ~held'.resolved =>
       /\ RequiredFacts(held'.residual) # {}
       /\ RequiredFacts(held'.residual) \subseteq Unknown(facts)]_held

\* What tests/core.rs asserts of one policy, for every policy: completing a
\* residual attaches the obligations that evaluating outright attaches.
PartialPreservesObligations ==
  held # NoResidual =>
    \A S \in Completions(facts) :
      CompleteResidual(held, S).obligations = Evaluate(policy, S).obligations

=============================================================================
