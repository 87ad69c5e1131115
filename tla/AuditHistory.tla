---------------------------- MODULE AuditHistory ----------------------------
(***************************************************************************)
(* The durable representations of an audit record and their readers:       *)
(* AuditEntry and its serde contract (audit.rs, identity.rs), the event    *)
(* built from it and the three decoders (gatekeep-sqlx audit), and the     *)
(* import of pre-4.0 history.                                              *)
(*                                                                         *)
(* One Dovecote table holds rows of several writers: pre-4.0 and 4.0       *)
(* releases, this release, applications with another source, and rows a    *)
(* tool has changed.  A payload is a function from JSON field names to     *)
(* values, so that a field can be missing or unknown.  An instant counts   *)
(* ticks, Micro of them to the microsecond.  The writes are atomic here:   *)
(* module AuditSink has their transactions.                                *)
(***************************************************************************)
EXTENDS Integers, Sequences, FiniteSets

CONSTANTS
  Nil,
  Tenants, Source, Sources,   \* Source: the one this configuration names
  Ids,                        \* ordinary identities
  LegacyIds,                  \* identities with the `legacy-` prefix
  Inputs,                     \* what the application hands to AuditEntry::new
  AttemptInputs,              \* what it hands to AuthorizationAttempt::new
  ImportInputs,               \* what an importer supplies for into_current
  Histories,                  \* tables that earlier writers may have left
  Micro, Portable,            \* ticks to the microsecond; last portable tick
  MaxBytes,                   \* MAX_AUDIT_PAYLOAD_BYTES
  MaxRows                     \* bound: rows of the table

HashFormat == 1               \* POLICY_HASH_FORMAT_VERSION
SchemaVersion == 2            \* AUDIT_ENTRY_SCHEMA_VERSION
Rejected == [rejected |-> TRUE]

ASSUME HistoryAssumption ==
  /\ Micro \in Nat \ {0} /\ Portable \in Nat /\ MaxBytes \in Nat
  /\ Ids \intersect LegacyIds = {} /\ Source \in Sources

VARIABLES
  rows,      \* the Dovecote table
  written    \* history: row, record and imported row of every write of this release

vars == <<rows, written>>

-----------------------------------------------------------------------------
(***************************************************************************)
(* DecisionAuditOccurrence                                                 *)
(***************************************************************************)
\* Sub-microsecond precision is cut off once, by the constructor.
Normalize(t) == t - (t % Micro)

Acceptable(id, t) == id \notin LegacyIds /\ t \in 0 .. Portable

\* DecisionAuditOccurrence::new
Occurrence(id, t) ==
  IF Acceptable(id, t) THEN [id |-> id, at |-> Normalize(t)] ELSE Rejected

\* DecisionAuditOccurrence::validate
ValidOccurrence(id, t) == Acceptable(id, t) /\ t % Micro = 0

-----------------------------------------------------------------------------
(***************************************************************************)
(* AuditEntry.  `decision` holds the duplicated fields: effect,            *)
(* obligations, consulted, decisive, denial_reason and the trace.          *)
(***************************************************************************)
\* denial_reason_matches_trace
ReasonMatches(reason, clause) ==
  IF clause.code = Nil THEN reason = Nil
  ELSE reason = [code |-> clause.code, shape |-> clause.shape, missing |-> clause.unsatisfied]

\* validate_audit_semantics
ValidSemantics(d) ==
  /\ d.decisive = d.trace.decisive
  /\ d.consulted = d.trace.consulted
  /\ d.effect = d.decisive.kind
  /\ d.effect = "permit" => d.denial_reason = Nil
  /\ d.effect = "deny" => d.obligations = {} /\ ReasonMatches(d.denial_reason, d.decisive)

\* FactResolutionEvidence::validate
ValidEvidence(v) == v.fresh_until = Nil \/ v.fresh_until >= v.observed_at

\* FactObservation::validate_all
DistinctFacts(obs) ==
  \A i, j \in DOMAIN obs : i # j => obs[i].fact # obs[j].fact

ObservationsAgree(v, d) ==
  \A i \in DOMAIN v.observations : \A c \in d.consulted :
    c.fact = v.observations[i].fact => c.present = v.observations[i].value

\* AuditEntry::validate_current
ValidateCurrent(e) ==
  /\ e.schema_version \in {1, SchemaVersion}
  /\ e.schema_version = 1 => e.fact_resolution.observations = <<>>
  /\ ObservationsAgree(e.fact_resolution, e.decision)
  /\ ValidOccurrence(e.decision_audit_id, e.occurred_at)
  /\ e.anchor.policy_hash_version = HashFormat
  /\ e.binding = e.tenant
  /\ ValidEvidence(e.fact_resolution)
  /\ ValidSemantics(e.decision)

\* AuditEntry::new, from an occurrence that its own constructor accepted
NewEntry(occ, anchor, d, binding, evidence, tenant) ==
  LET e == [schema_version |-> SchemaVersion, decision_audit_id |-> occ.id,
            occurred_at |-> occ.at, anchor |-> anchor, decision |-> d,
            binding |-> binding, fact_resolution |-> evidence, tenant |-> tenant]
  IN  IF ValidateCurrent(e) THEN e ELSE Rejected

\* PolicyAnchor::new
Anchor(policy) == [policy |-> policy, policy_hash_version |-> HashFormat]

-----------------------------------------------------------------------------
(***************************************************************************)
(* Deserialization.  Unknown fields are ignored by the current shapes and  *)
(* refused by the legacy ones.                                             *)
(***************************************************************************)
CurrentFields ==
  {"schema_version", "decision_audit_id", "occurred_at", "anchor", "decision",
   "binding", "fact_resolution", "tenant"}
LegacyRequired == {"decision_audit_id", "occurred_at", "anchor", "decision", "tenant"}
LegacyFields == LegacyRequired \union {"binding", "fact_resolution"}

\* sort_by fact: no position is taken twice.
SortByFact(obs) ==
  LET D == DOMAIN obs
      from == CHOOSE q \in [D -> D] :
                \A i, j \in D : i < j => q[i] # q[j] /\ obs[q[i]].fact <= obs[q[j]].fact
  IN  [i \in D |-> obs[from[i]]]

\* FactResolutionEvidence: observations are put in fact order.
EvidenceFromWire(v) == [v EXCEPT !.observations = SortByFact(@)]

WellFormedEvidence(v) == ValidEvidence(v) /\ DistinctFacts(v.observations)

EvidenceRecords ==
  [observed_at : Int, fresh_until : Int \union {Nil},
   observations : Seq([fact : Int, value : BOOLEAN])]

\* Evidence of a resolution: with_observations refuses a second observation of
\* a fact and keeps them in fact order.
Resolved(v) ==
  /\ v \in EvidenceRecords /\ ValidEvidence(v)
  /\ \A i, j \in DOMAIN v.observations :
       i < j => v.observations[i].fact < v.observations[j].fact

\* Slip: what is read is what this release would write.
EntryFromWireUpgraded(w) ==
  LET occ == Occurrence(w.decision_audit_id, w.occurred_at)
  IN  IF /\ CurrentFields \subseteq DOMAIN w /\ "policy_hash_version" \in DOMAIN w.anchor
         /\ w.anchor.policy_hash_version = HashFormat
         /\ WellFormedEvidence(w.fact_resolution)
         /\ w.schema_version \in {1, SchemaVersion}
         /\ occ # Rejected
      THEN NewEntry(occ, w.anchor, w.decision, w.binding,
                    EvidenceFromWire(w.fact_resolution), w.tenant)
      ELSE Rejected

\* AuditEntry::deserialize
EntryFromWire(w) ==
  IF ~(/\ CurrentFields \subseteq DOMAIN w /\ "policy_hash_version" \in DOMAIN w.anchor
       /\ w.anchor.policy_hash_version = HashFormat
       /\ WellFormedEvidence(w.fact_resolution)
       /\ w.schema_version \in {1, SchemaVersion}
       /\ Acceptable(w.decision_audit_id, w.occurred_at))
  THEN Rejected
  ELSE LET e == NewEntry(Occurrence(w.decision_audit_id, w.occurred_at), w.anchor, w.decision,
                         w.binding, EvidenceFromWire(w.fact_resolution), w.tenant)
           kept == [e EXCEPT !.schema_version = w.schema_version]
       IN  IF e # Rejected /\ ValidateCurrent(kept) THEN kept ELSE Rejected

\* Slip: the legacy shape ignores fields it does not know.
LegacyFromWirePermissive(w) ==
  IF /\ LegacyRequired \subseteq DOMAIN w
     /\ "fact_resolution" \in DOMAIN w => WellFormedEvidence(w.fact_resolution)
  THEN w ELSE Rejected

\* LegacyAuditEntry, LegacyPolicyAnchor: deny_unknown_fields
LegacyFromWire(w) ==
  IF /\ LegacyRequired \subseteq DOMAIN w /\ DOMAIN w \subseteq LegacyFields
     /\ DOMAIN w.anchor = {"policy"}
     /\ "fact_resolution" \in DOMAIN w => WellFormedEvidence(w.fact_resolution)
  THEN w ELSE Rejected

\* AuthorizationAttempt::validate
ValidAttempt(a) ==
  /\ a.schema_version = 1
  /\ a.tenant = a.binding
  /\ ValidOccurrence(a.occurrence.id, a.occurrence.at)

AttemptFields == {"schema_version", "occurrence", "anchor", "tenant", "binding", "failure"}

\* AuthorizationAttempt: try_from AttemptWire
AttemptFromWire(w) ==
  IF ~(/\ AttemptFields \subseteq DOMAIN w
       /\ "policy_hash_version" \in DOMAIN w.anchor /\ w.anchor.policy_hash_version = HashFormat
       /\ Acceptable(w.occurrence.id, w.occurrence.at))
  THEN Rejected
  ELSE LET a == [w EXCEPT !.occurrence = Occurrence(@.id, @.at)]
       IN  IF ValidAttempt(a) THEN a ELSE Rejected

-----------------------------------------------------------------------------
(***************************************************************************)
(* Events and their decoders.  A row is an event and its storage tenant.   *)
(* Event identities are the prefix and the record's own identity.          *)
(***************************************************************************)
DecisionType == "gatekeep.decision_audit_recorded"
AttemptType == "gatekeep.authorization_attempt_failed"

Row(tenant, source, type, prefix, id, time, payload, bytes) ==
  [tenant |-> tenant, source |-> source, type |-> type, content |-> "application/json",
   id |-> <<prefix, id>>, time |-> time, payload |-> payload, bytes |-> bytes]

\* Slip: the size of the encoded entry is not looked at.
EventFromEntryUnbounded(e, bytes) ==
  IF ValidateCurrent(e) /\ e.decision_audit_id \notin LegacyIds
  THEN Row(e.tenant, Source, DecisionType, "gatekeep-audit-", e.decision_audit_id,
           e.occurred_at, e, bytes)
  ELSE Rejected

\* event_from_entry
EventFromEntry(e, bytes) ==
  IF ValidateCurrent(e) /\ e.decision_audit_id \notin LegacyIds /\ bytes <= MaxBytes
  THEN Row(e.tenant, Source, DecisionType, "gatekeep-audit-", e.decision_audit_id,
           e.occurred_at, e, bytes)
  ELSE Rejected

\* event_from_attempt
EventFromAttempt(a, bytes) ==
  IF ValidAttempt(a) /\ bytes <= MaxBytes
  THEN Row(a.tenant, Source, AttemptType, "gatekeep-attempt-", a.occurrence.id,
           a.occurrence.at, a, bytes)
  ELSE Rejected

\* Stream, source, type and content type; and JSON data.
Addressed(row, type) ==
  row.source = Source /\ row.type = type /\ row.content = "application/json"

\* Slip: the page's tenant is not compared with the payload's.
DecodeDecisionUnrouted(row) ==
  IF ~Addressed(row, DecisionType) \/ row.bytes > MaxBytes THEN Rejected
  ELSE LET e == EntryFromWire(row.payload)
       IN  IF /\ e # Rejected
              /\ row.id = <<"gatekeep-audit-", e.decision_audit_id>> /\ row.time = e.occurred_at
           THEN e ELSE Rejected

\* decode_decision_audit, decode_event, decode_payload
DecodeDecision(row) ==
  IF ~Addressed(row, DecisionType) \/ row.bytes > MaxBytes THEN Rejected
  ELSE LET e == EntryFromWire(row.payload)
       IN  IF /\ e # Rejected
              /\ row.id = <<"gatekeep-audit-", e.decision_audit_id>> /\ row.time = e.occurred_at
              /\ row.tenant = e.tenant
              /\ ValidateCurrent(e)
           THEN e ELSE Rejected

\* decode_legacy_decision_audit
DecodeLegacy(row) ==
  IF ~Addressed(row, DecisionType) THEN Rejected
  ELSE LET e == LegacyFromWire(row.payload)
       IN  IF /\ e # Rejected
              /\ row.id = <<"gatekeep-audit-", e.decision_audit_id>> /\ row.time = e.occurred_at
              /\ row.tenant = e.tenant
           THEN e ELSE Rejected

\* decode_authorization_attempt
DecodeAttempt(row) ==
  IF ~Addressed(row, AttemptType) \/ row.bytes > MaxBytes THEN Rejected
  ELSE LET a == AttemptFromWire(row.payload)
       IN  IF /\ a # Rejected
              /\ row.tenant = a.tenant /\ row.time = a.occurrence.at
              /\ row.id = <<"gatekeep-attempt-", a.occurrence.id>>
           THEN a ELSE Rejected

RowFields == {"tenant", "source", "type", "content", "id", "time", "payload", "bytes"}

\* A payload may have any fields; evidence, if it has some, is of the shape that
\* serde asks for.
IsPayload(w) ==
  /\ w = [k \in DOMAIN w |-> w[k]]
  /\ "fact_resolution" \in DOMAIN w => w.fact_resolution \in EvidenceRecords

\* What Dovecote can hold.
IsRow(r) ==
  /\ r = [k \in RowFields |-> r[k]]
  /\ r.tenant \in Tenants /\ r.source \in Sources /\ r.bytes \in Nat
  /\ r.id = <<r.id[1], r.id[2]>> /\ r.id[2] \in Ids \union LegacyIds
  /\ r.time \in Int \union {Nil} /\ IsPayload(r.payload)

\* Inputs are as the constructors of their parts leave them.
ASSUME InputsAssumption ==
  /\ \A x \in Inputs \union AttemptInputs \union ImportInputs : x.id \in Ids \union LegacyIds
  /\ \A x \in Inputs \union AttemptInputs : x.tenant \in Tenants /\ x.bytes \in Nat
  /\ \A x \in Inputs \union ImportInputs : Resolved(x.evidence)
ASSUME HistoriesAssumption == \A H \in Histories : \A r \in H : IsRow(r)

-----------------------------------------------------------------------------
(***************************************************************************)
(* The operations.  A refused record changes nothing and is not a step.    *)
(***************************************************************************)
Key(row) == <<row.tenant, row.source, row.id>>

\* Enqueue: a new identity is inserted, an identical event is a replay, a
\* different event under a stored identity is refused.
Store(row, record, from) ==
  /\ row # Rejected
  /\ \A r \in rows : Key(r) = Key(row) => r = row
  /\ Cardinality(rows \union {row}) <= MaxRows
  /\ rows' = rows \union {row}
  /\ written' = written \union {[row |-> row, record |-> record, from |-> from]}

\* The application records a decision: AuditEntry::new, then the sink.
Record(x) ==
  LET occ == Occurrence(x.id, x.at)
      e == NewEntry(occ, Anchor(x.policy), x.decision, x.binding, x.evidence, x.tenant)
  IN  occ # Rejected /\ e # Rejected /\ Store(EventFromEntry(e, x.bytes), e, Nil)

\* AuthorizationAttempt::new and record_attempt
RecordAttempt(x) ==
  LET occ == Occurrence(x.id, x.at)
      a == [schema_version |-> 1, occurrence |-> occ, anchor |-> Anchor(x.policy),
            tenant |-> x.tenant, binding |-> x.binding, failure |-> x.failure]
  IN  occ # Rejected /\ ValidAttempt(a) /\ Store(EventFromAttempt(a, x.bytes), a, Nil)

\* Slip: the tenant is taken from what the importer supplies.
IntoCurrentRehomed(l, x) ==
  IF ~(Acceptable(x.id, x.at) /\ ValidSemantics(l.decision) /\ x.hash_version = HashFormat)
  THEN Rejected
  ELSE NewEntry(Occurrence(x.id, x.at), Anchor(l.anchor.policy), l.decision,
                x.binding, x.evidence, x.binding)

\* LegacyAuditEntry::into_current
IntoCurrent(l, x) ==
  IF ~(Acceptable(x.id, x.at) /\ ValidSemantics(l.decision) /\ x.hash_version = HashFormat)
  THEN Rejected
  ELSE NewEntry(Occurrence(x.id, x.at), Anchor(l.anchor.policy), l.decision,
                x.binding, x.evidence, l.tenant)

\* A migration reads a legacy row, maps it and records the result.
Import(row, x) ==
  LET l == DecodeLegacy(row)
      e == IntoCurrent(l, x)
  IN  l # Rejected /\ e # Rejected /\ Store(EventFromEntry(e, row.bytes), e, row)

\* A reader records again what it has read.
Rerecord(row) ==
  LET e == DecodeDecision(row)
  IN  e # Rejected /\ Store(EventFromEntry(e, row.bytes), e, Nil)

Init == rows \in Histories /\ written = {}

Next ==
  \/ \E x \in Inputs : Record(x)
  \/ \E x \in AttemptInputs : RecordAttempt(x)
  \/ \E row \in rows : Rerecord(row) \/ \E x \in ImportInputs : Import(row, x)

Spec == Init /\ [][Next]_vars

-----------------------------------------------------------------------------
\* What Dovecote can hold, and the portable instants of what is written here.
TypeOK ==
  /\ \A r \in rows : IsRow(r)
  /\ \A w \in written :
       w.row \in rows /\ w.row.time \in 0 .. Portable /\ w.row.bytes \in 0 .. MaxBytes

\* What this release writes, this release reads: every recorded, imported or
\* re-recorded event decodes, with the decoder of its own kind, to the record
\* that was handed in (event_from_entry and decode_decision_audit,
\* event_from_attempt and decode_authorization_attempt).
WrittenIsRead ==
  \A w \in written :
    w.record = IF w.row.type = AttemptType THEN DecodeAttempt(w.row) ELSE DecodeDecision(w.row)

\* As a 4.x serializer writes it: no other field, canonical time and order.
Canonical(w) ==
  /\ DOMAIN w = CurrentFields
  /\ w.occurred_at = Normalize(w.occurred_at)
  /\ w.fact_resolution = EvidenceFromWire(w.fact_resolution)

\* Reading and recording again is a replay, never a conflict, also for an
\* event that a release with schema 1 wrote: the entry keeps the version,
\* time and observation order its bytes were made of (AuditEntry::deserialize).
RereadIsReplay ==
  \A r \in rows :
    DecodeDecision(r) # Rejected /\ Canonical(r.payload) =>
      EventFromEntry(DecodeDecision(r), r.bytes) = r

\* Writing and reading are inverse in both directions.
RoundTrips == WrittenIsRead /\ RereadIsReplay

\* "Legacy data is never silently deserialized as a current AuditEntry", and a
\* decision is never read as an attempt: no stored row, whoever wrote it, is
\* accepted by two of the three decoders.
OneReader ==
  \A r \in rows :
    Cardinality({i \in 1 .. 3 :
      <<DecodeDecision(r), DecodeLegacy(r), DecodeAttempt(r)>>[i] # Rejected}) <= 1

\* A row read back in a page that mixes tenants and sources is accepted only
\* in its own: the record's tenant and its binding are the row's storage
\* tenant, the row carries this application's source, and the record's
\* identity is not one of imported history (decode_decision_audit,
\* decode_authorization_attempt).
ReadInItsScope ==
  \A r \in rows :
    /\ DecodeDecision(r) # Rejected =>
         /\ DecodeDecision(r).tenant = r.tenant /\ DecodeDecision(r).binding = r.tenant
         /\ r.source = Source /\ r.id[2] \in Ids
    /\ DecodeAttempt(r) # Rejected =>
         /\ DecodeAttempt(r).tenant = r.tenant /\ DecodeAttempt(r).binding = r.tenant
         /\ r.source = Source /\ r.id[2] \in Ids

\* Every row has at most one reader, and that one in its own scope.
ReadersAreExact == OneReader /\ ReadInItsScope

\* An import adds a current record of the same decision in the tenant the
\* legacy row is stored under, with an identity of its own, and leaves the
\* legacy row as it was (decode_legacy_decision_audit, into_current).
ImportKeepsDecision ==
  \A w \in written : w.from # Nil =>
    /\ w.from \in rows /\ w.from # w.row
    /\ w.row.tenant = w.from.tenant /\ w.row.source = w.from.source
    /\ w.record.decision = w.from.payload.decision
    /\ w.record.anchor.policy = w.from.payload.anchor.policy
    /\ DecodeLegacy(w.from) # Rejected /\ DecodeLegacy(w.row) = Rejected

=============================================================================
