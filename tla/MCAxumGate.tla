----------------------------- MODULE MCAxumGate -----------------------------
(***************************************************************************)
(* Two requests under one supplied occurrence.  A policy denies with a     *)
(* visible reason, hidden with a reason, or hidden without one, depending  *)
(* on the facts.                                                           *)
(***************************************************************************)
EXTENDS AxumGate, TLC

CONSTANTS f, g, p, q, t1, r1, r2, en, code, other, generic

MCFacts == {f, g}
MCDecisions == {"permit", "deny_visible", "deny_bare", "deny_hidden", "deny_unlabelled"}
MCClause ==
  "permit" :> [effect |-> "permit", shape |-> "forbidden", reason |-> Nil] @@
  "deny_visible" :> [effect |-> "deny", shape |-> "forbidden", reason |-> code] @@
  "deny_bare" :> [effect |-> "deny", shape |-> "forbidden", reason |-> Nil] @@
  "deny_hidden" :> [effect |-> "deny", shape |-> "hidden", reason |-> other] @@
  "deny_unlabelled" :> [effect |-> "deny", shape |-> "hidden", reason |-> Nil]

MCRequired == p :> {f, g} @@ q :> {f}
MCDecide ==
  p :> [S \in SUBSET MCFacts |->
          IF f \notin S THEN "deny_hidden" ELSE IF g \in S THEN "permit" ELSE "deny_visible"] @@
  q :> [S \in SUBSET MCFacts |-> IF f \in S THEN "deny_bare" ELSE "deny_unlabelled"]

Trusted == [kind |-> "trusted", tenant |-> t1, authenticated_at |-> 0, valid_from |-> 0, valid_until |-> 0]
Shared == [id |-> [owner |-> Nil, run |-> 0, use |-> "decision"], at |-> 0]

CallOf(op, x, b, occ) ==
  [op |-> op, policy |-> x, tenant |-> t1, binding |-> b, occurrence |-> occ]

MCCalls ==
  {CallOf("authorize", p, Trusted, Shared), CallOf("authorize_resource", q, Trusted, Nil),
   CallOf("prepare", q, Trusted, Nil), CallOf("recording", p, Trusted, Nil)}

ResOf(present) ==
  [known |-> {f, g}, present |-> present, observed_at |-> 0, fresh_until |-> Nil, observations |-> {}]
MCResolutions == {ResOf({}), ResOf({f}), ResOf({f, g})}

MCLocale == r1 :> en @@ r2 :> en
=============================================================================
