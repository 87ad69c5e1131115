------------------------ MODULE MCRelationLifecycle ------------------------
(***************************************************************************)
(* Small instances of RelationLifecycle: the two directed block scopes and *)
(* the timed restriction of the consumer.                                  *)
(***************************************************************************)
EXTENDS RelationLifecycle

CONSTANTS forward, reverse, restricted, c1, c2, c3, c4, k1, k2, k3, k4, k5, s1

MCAdmissionScopes == <<forward, reverse, restricted>>

Command(id, body, scope, k, at, until) ==
  [id |-> id, body |-> body, scope |-> scope, assignment |-> k, at |-> at, until |-> until]

Block == Command(c1, 0, forward, k1, 0, Nil)
\* The same id with another body, for another pair.
Reused == Command(c1, 1, reverse, k2, 0, Nil)
Restriction == Command(c2, 0, restricted, k3, 0, 1)
Replacement == Command(c3, 0, restricted, k4, 1, 2)
\* A command whose notification id another producer has used.
Preempted == Command(c4, 0, reverse, k5, 0, Nil)

MCCommands == {Block, Reused, Restriction, Replacement, Preempted}

Apply(c) == [op |-> "apply", command |-> c, at |-> c.at]
Renew(c) == [op |-> "renew", command |-> c, at |-> c.at]
RevokeJob(s) == [op |-> "revoke", scope |-> s, at |-> 0]
Admit(at, audited) == [op |-> "admit", session |-> s1, at |-> at, audit_denial |-> audited]

MCForeign == {Event("notification", "command", c4, Nil, 0, {})}

\* Retries, reuse and revocation; a timed restriction and its renewal;
\* admissions before and at the deadline and without a time.
MCJobs ==
  {Apply(Block), Apply(Reused), Apply(Preempted), RevokeJob(forward),
   Apply(Restriction), Apply(Replacement), Renew(Replacement),
   Admit(0, TRUE), Admit(1, FALSE), Admit(Nil, FALSE)}

=============================================================================
