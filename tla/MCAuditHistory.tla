--------------------------- MODULE MCAuditHistory ---------------------------
(***************************************************************************)
(* Small tables: rows of every earlier release, rows of another source,    *)
(* rows stored under the wrong tenant, rows with unknown or missing        *)
(* fields, and inputs at the edges of time, size and consistency.          *)
(***************************************************************************)
EXTENDS AuditHistory, FiniteSetsExt

CONSTANTS t1, t2, s1, s2, i1, i2, l1, p

Clause(kind, code) == [kind |-> kind, code |-> code, shape |-> "forbidden", unsatisfied |-> {1}]

DecisionOf(effect, obligations, consulted, clause, reason) ==
  [effect |-> effect, obligations |-> obligations, consulted |-> consulted,
   decisive |-> clause, denial_reason |-> reason,
   trace |-> [decisive |-> clause, consulted |-> consulted]]

Saw(v) == {[fact |-> 1, present |-> v]}

Granted == DecisionOf("permit", {"log"}, Saw(TRUE), Clause("permit", Nil), Nil)
Refused ==
  DecisionOf("deny", {}, Saw(FALSE), Clause("deny", "code"),
             [code |-> "code", shape |-> "forbidden", missing |-> {1}])
\* A denial that keeps an obligation, and one that gives no reason.
Tampered == [Refused EXCEPT !.obligations = {"log"}]
Unexplained == [Refused EXCEPT !.denial_reason = Nil]

Evidence(obs) == [observed_at |-> 0, fresh_until |-> Nil, observations |-> obs]
Obs(n, v) == [fact |-> n, value |-> v]

Input(id, at, d, tenant, binding, obs, bytes) ==
  [id |-> id, at |-> at, policy |-> p, decision |-> d, tenant |-> tenant,
   binding |-> binding, evidence |-> Evidence(obs), bytes |-> bytes]

MCInputs ==
  {Input(i1, 1, Granted, t1, t1, <<Obs(1, TRUE), Obs(2, FALSE)>>, 1),
   Input(i2, 3, Refused, t2, t2, <<>>, 1),
   Input(i2, 3, Refused, t2, t2, <<>>, 2),
   Input(i1, 4, Granted, t1, t1, <<>>, 1),
   Input(l1, 2, Granted, t1, t1, <<>>, 1),
   Input(i1, 2, Granted, t1, t2, <<>>, 1),
   Input(i1, 2, Granted, t1, t1, <<Obs(1, FALSE)>>, 1),
   Input(i1, 2, Tampered, t1, t1, <<>>, 1),
   Input(i1, 2, Unexplained, t1, t1, <<>>, 1)}

AttemptInput(id, at, tenant, binding, bytes) ==
  [id |-> id, at |-> at, policy |-> p, tenant |-> tenant, binding |-> binding,
   failure |-> "resolution", bytes |-> bytes]

MCAttemptInputs ==
  {AttemptInput(i1, 3, t1, t1, 1), AttemptInput(i1, 3, t1, t2, 1), AttemptInput(i2, 2, t2, t2, 2)}

ImportInput(id, binding, version, obs) ==
  [id |-> id, at |-> 2, binding |-> binding, hash_version |-> version, evidence |-> Evidence(obs)]

MCImportInputs ==
  {ImportInput(i2, t1, 1, <<>>), ImportInput(i2, t2, 1, <<>>), ImportInput(i2, t1, 0, <<>>),
   ImportInput(l1, t1, 1, <<>>), ImportInput(i1, t1, 1, <<Obs(1, FALSE)>>)}

-----------------------------------------------------------------------------
\* What a release with schema 1 wrote.
V1Payload(id, at, d, obs) ==
  [schema_version |-> 1, decision_audit_id |-> id, occurred_at |-> at, anchor |-> Anchor(p),
   decision |-> d, binding |-> t1, fact_resolution |-> Evidence(obs), tenant |-> t1]

\* What a release before 4.0 wrote, without and with binding and evidence.
LegacyPayload(id, at, d) ==
  [decision_audit_id |-> id, occurred_at |-> at, anchor |-> [policy |-> p], decision |-> d,
   tenant |-> t1]
LateLegacyPayload(id, at, d) ==
  [decision_audit_id |-> id, occurred_at |-> at, anchor |-> [policy |-> p], decision |-> d,
   tenant |-> t1, binding |-> t1, fact_resolution |-> Evidence(<<>>)]

\* A later schema: fields this release does not know.
V3Payload(id) ==
  [schema_version |-> 3, decision_audit_id |-> id, occurred_at |-> 0, anchor |-> Anchor(p),
   decision |-> Granted, binding |-> t1, fact_resolution |-> Evidence(<<>>), tenant |-> t1,
   purpose |-> "unknown"]

RowOf(tenant, w) ==
  Row(tenant, s1, DecisionType, "gatekeep-audit-", w.decision_audit_id,
      w.occurred_at, w, 1)

V1Row == RowOf(t1, V1Payload(i1, 2, Granted, <<>>))

EarlierRows ==
  {V1Row,
   [V1Row EXCEPT !.tenant = t2],
   [V1Row EXCEPT !.source = s2],
   [V1Row EXCEPT !.time = 0],
   [V1Row EXCEPT !.type = AttemptType],
   RowOf(t1, V1Payload(i1, 2, Granted, <<Obs(1, TRUE)>>)),
   RowOf(t1, V1Payload(i2, 2, Tampered, <<>>)),
   RowOf(t1, [V1Payload(i2, 2, Granted, <<Obs(2, TRUE), Obs(1, TRUE)>>) EXCEPT !.schema_version = 2]),
   [RowOf(t1, V1Payload(i2, 3, Granted, <<>>)) EXCEPT !.time = 2],
   RowOf(t1, V3Payload(i1)),
   RowOf(t1, LegacyPayload(i1, 3, Refused)),
   RowOf(t1, LegacyPayload(l1, 1, Granted)),
   RowOf(t2, LegacyPayload(l1, 1, Granted)),
   RowOf(t1, LegacyPayload(l1, 5, Unexplained)),
   RowOf(t1, LateLegacyPayload(l1, 0, Granted))}

UniqueIds(S) == \A r, s \in S : Key(r) = Key(s) => r = s

MCHistories == {S \in kSubset(2, EarlierRows) \union kSubset(1, EarlierRows) : UniqueIds(S)}

=============================================================================
