------------------------------ MODULE MCBatch ------------------------------
(***************************************************************************)
(* A small instance of Batch: two callers, contexts of two tenants, one    *)
(* binding that expires during the run, an occurrence of the application's *)
(* own that both batches carry, and a provider that errs at one position,  *)
(* counts wrong or returns facts that go stale.                            *)
(***************************************************************************)
EXTENDS Batch, TLC

CONSTANTS f, p, t1, t2

MCRequired == p :> {f}
MCDecide == p :> [S \in SUBSET {f} |-> IF f \in S THEN "permit" ELSE "deny"]

Trusted(t) ==
  [kind |-> "trusted", tenant |-> t, authenticated_at |-> 0, valid_from |-> 0, valid_until |-> 0]
Expiring(t) ==
  [kind |-> "verified", tenant |-> t, authenticated_at |-> 0, valid_from |-> 0, valid_until |-> 1]

Plain(b) == [tenant |-> b.tenant, binding |-> b, occurrence |-> Nil]
Supplied(b) ==
  [Plain(b) EXCEPT !.occurrence = [id |-> [owner |-> Nil, run |-> 0, item |-> 0], at |-> 0]]

SubmissionOf(contexts, limit) == [policy |-> p, contexts |-> contexts, limit |-> limit]

Present == [known |-> {f}, present |-> {f}, observed_at |-> 0, fresh_until |-> Nil, observations |-> {}]
Absent == [Present EXCEPT !.present = {}, !.fresh_until = 1]

MCResolutions == {Present, Absent}

\* No contexts, too many, and two batches that share one supplied identity.
MCSubmissions ==
  {SubmissionOf(<<>>, 1),
   SubmissionOf(<<Plain(Trusted(t1)), Plain(Trusted(t2))>>, 1),
   SubmissionOf(<<Supplied(Trusted(t1)), Plain(Expiring(t2))>>, 2),
   SubmissionOf(<<Plain(Trusted(t2)), Supplied(Trusted(t1))>>, 2)}

MCLoads == {<<Present>>, <<ItemError, Absent>>, <<Present, Absent>>}

=============================================================================
