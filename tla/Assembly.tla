------------------------------ MODULE Assembly ------------------------------
(***************************************************************************)
(* What Authorizer::assemble works on: the tenant binding of a Context,    *)
(* the resolver's FactResolution with its observations, the checks both    *)
(* must pass at the receipt clock reading, and the AuditEntry built from   *)
(* them.  Every entry point of the boundary ends here: single calls        *)
(* (module Authorizer) and the items of a batch (module Batch).            *)
(*                                                                         *)
(* Policy evaluation is a constant function here; module Evaluation models *)
(* it.                                                                     *)
(***************************************************************************)
EXTENDS Naturals, AuditSink

CONSTANTS
  Facts, Tenants, Policies, Decisions,
  Required,      \* required_facts of each policy
  Decide,        \* evaluate: the decision for each set of present facts
  MaxTime        \* bound: clock readings are 0..MaxTime

Time == 0 .. MaxTime

Bindings ==
  [kind : {"verified", "trusted"}, tenant : Tenants,
   authenticated_at : Time, valid_from : Time, valid_until : Time]

\* ApplicationVerifiedTenantBinding::new
WellFormedBinding(b) ==
  b.kind = "verified" => b.valid_from < b.valid_until /\ b.authenticated_at <= b.valid_until

\* Context::new_at refuses a tenant that its binding does not name.
WellFormedCall(c) == c.tenant = c.binding.tenant /\ WellFormedBinding(c.binding)

Observations ==
  [fact : Facts, value : BOOLEAN, observed_at : Time, fresh_until : Time \union {Nil}]

AllResolutions ==
  [known : SUBSET Facts, present : SUBSET Facts, observed_at : Time,
   fresh_until : Time \union {Nil}, observations : SUBSET Observations]

\* FactResolution::new and FactObservation::new
WellFormedWindow(x) == x.fresh_until # Nil => x.observed_at <= x.fresh_until

\* FactObservation::match_all: one observation per fact, and each one agrees
\* with an explicitly resolved fact.
MatchAll(res) ==
  /\ \A o, p \in res.observations : o.fact = p.fact => o = p
  /\ \A o \in res.observations :
       o.fact \in res.known /\ o.value = (o.fact \in res.present)

WellFormedResolution(res) ==
  /\ res.present \subseteq res.known
  /\ WellFormedWindow(res)
  /\ \A o \in res.observations : WellFormedWindow(o)
  /\ MatchAll(res)

ASSUME TimeAssumption == MaxTime \in Nat
ASSUME PolicyAssumption ==
  /\ Required \in [Policies -> SUBSET Facts]
  /\ Decide \in [Policies -> [SUBSET Facts -> Decisions]]
\* evaluate reads only the facts required_facts lists (ConsultedDeterminesHolds in PolicyProofs).
ASSUME EvaluateReadsRequired ==
  \A p \in Policies : \A S \in SUBSET Facts :
    Decide[p][S] = Decide[p][S \intersect Required[p]]

(***************************************************************************)
(* Validation at a clock reading: half-open windows, no skew grace.        *)
(***************************************************************************)
BindingValidAt(b, t) ==
  b.kind = "verified" => /\ b.authenticated_at <= t
                         /\ b.valid_from <= t
                         /\ t < b.valid_until

ContextValidAt(c, t) == c.tenant = c.binding.tenant /\ BindingValidAt(c.binding, t)

FreshAt(x, t) == x.observed_at <= t /\ (x.fresh_until # Nil => t < x.fresh_until)

ResolutionValidAt(res, t) == FreshAt(res, t) /\ \A o \in res.observations : FreshAt(o, t)

Checked(c) == c.op # "authorize_policy"

Complete(c, res) == Checked(c) => Required[c.policy] \subseteq res.known

(***************************************************************************)
(* evaluate, and the AuditEntry of the decision.                           *)
(***************************************************************************)
FromDecision(c, occ, res) ==
  [kind |-> "decision", tenant |-> c.tenant, id |-> occ.id, at |-> occ.at,
   policy |-> c.policy, binding |-> c.binding,
   outcome |-> Decide[c.policy][res.present], evidence |-> res]

=============================================================================
