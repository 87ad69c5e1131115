---------------------------- MODULE MCAuthorizer ----------------------------
(***************************************************************************)
(* Small instances of Authorizer.  Policy p permits when f is present and  *)
(* g is absent; policy q reads f only.  Bindings expire inside the run.    *)
(***************************************************************************)
EXTENDS Authorizer, TLC

CONSTANTS f, g, p, q, t1, t2

MCFacts == {f, g}
MCTenants == {t1, t2}
MCPolicies == {p, q}
MCDecisions == {"permit", "deny"}
MCRequired == p :> {f, g} @@ q :> {f}
MCDecide ==
  [x \in MCPolicies |-> [S \in SUBSET MCFacts |->
     IF f \in S /\ (x = p => g \notin S) THEN "permit" ELSE "deny"]]

Binding(t, until) ==
  [kind |-> "verified", tenant |-> t, authenticated_at |-> 0,
   valid_from |-> 0, valid_until |-> until]

Trusted(t) == [Binding(t, 0) EXCEPT !.kind = "trusted"]

CallerOccurrence == [id |-> [owner |-> Nil, run |-> 0, use |-> "decision"], at |-> 0]

CallOf(op, x, b, occ) ==
  [op |-> op, policy |-> x, tenant |-> b.tenant, binding |-> b, occurrence |-> occ]

Obs(x, v, at) == [fact |-> x, value |-> v, observed_at |-> at, fresh_until |-> Nil]

Res(known, present, at, until, obs) ==
  [known |-> known, present |-> present, observed_at |-> at, fresh_until |-> until,
   observations |-> obs]

\* Every caller-visible operation; two tenants; expiring and trusted bindings.
MixedCalls ==
  {CallOf("authorize", p, Binding(t1, 1), CallerOccurrence),
   CallOf("authorize_resource", q, Trusted(t2), CallerOccurrence),
   CallOf("authorize_policy", p, Trusted(t1), Nil),
   CallOf("prepare_resolution", q, Binding(t1, 1), Nil),
   CallOf("recording", p, Binding(t1, 1), Nil)}

\* Complete with evidence, complete and short-lived, incomplete, and observed
\* later than the earliest receipt.
MixedResolutions ==
  {Res({f, g}, {f}, 0, Nil, {Obs(f, TRUE, 0), Obs(g, FALSE, 0)}),
   Res({f, g}, {f, g}, 0, 1, {}),
   Res({f}, {f}, 1, Nil, {Obs(f, TRUE, 1)})}

\* One caller that supplies its occurrence and calls authorize again.
RetryCalls == {CallOf("authorize", q, Trusted(t1), CallerOccurrence)}
RetryResolutions == {Res({f}, {f}, 0, Nil, {}), Res({f}, {f}, 1, Nil, {})}

=============================================================================
