# Gatekeep: a TLA+ model of the authorization boundary and what stands around it

Gatekeep is a Rust library for authorization decisions: an application states a
policy over facts, a resolver supplies the facts, the library evaluates the
policy, writes the decision to a durable audit and only then returns it. It also
evaluates policies partially and lowers what remains to SQL, to list the rows a
caller may see. Adapters put it behind Axum, word its denials with Fluent, take
facts from Keepsake relations and keep the audit in Dovecote; two example
services use it inside transactions of their own. This directory models these,
checks the models with TLC on small instances and proves, with TLAPS and for every
instance, every safety property the passing runs check: of the boundary and its
refinement of an abstract promise, of evaluation, partial evaluation and lowering, and
of the gate, the batch, the resolver, the audit history and the two services.

## Inventory

| Component | State | Operations | Interacts with | Correct when |
|---|---|---|---|---|
| `Authorizer` (`authorization.rs`, `pending.rs`) | per call: context, resolution, frozen entry | `authorize`, `authorize_policy`, `prepare`, `prepare_resolution`, `persist_pending` | resolver and sink (awaits), clock, observer | nothing is returned or observed before it is durable; evidence is judged when received |
| Attempts (`attempts.rs`, `attempt.rs`) | frozen attempt | `authorize_recording_attempts` | attempt sink | a failure reported as recorded is durable; never beside a decision |
| Context, bindings (`context.rs`, `tenant.rs`) | immutable | construction, `validate_at` | clock | tenant agrees with binding; windows hold at use |
| Resolutions, observations, replay (`resolution.rs`, `observation.rs`, `replay.rs`) | immutable | construction, `validate_at`, `replay` | clock, evaluation | windows hold at receipt; replay reproduces the decision |
| Audit sinks (`gatekeep-sqlx/src/audit`) | database rows, one transaction per record | `record`, `record_attempt`, the `_in_transaction` forms, decoding | database | one event per identity; identical retry accepted, changed payload refused |
| Evaluation (`evaluate.rs`, `policy_model.rs`, `facts.rs`, `decision.rs`) | none | `evaluate`, `required_facts`, `Policy::hash` | | the effect is the lattice meaning; the trace justifies it |
| Partial evaluation (`partial.rs`) | a residual, kept between requests | `partial_evaluate`, `complete_residual` | evaluation | completing later equals evaluating outright |
| SQL lowering (`gatekeep-sqlx/src/lib.rs`, `fragment`) | a query | `lower_result`, `lower`, `lower_filter` | partial evaluation, database | rows selected are the rows permitted; grades are the outcomes granted |
| Batch (`authorization/batch.rs`, `batch.rs`) | results so far | `authorize_batch`, `into_strict` | resolver, sink | results answer their contexts; what is durable is the reported prefix |
| Audit records (`audit.rs`, `identity.rs`, `gatekeep-sqlx/src/audit`) | rows of several releases and sources | construction, the three decoders, `into_current` | sinks, migration | what is written is read, by one reader, in its tenant |
| Keepsake resolver (`gatekeep-keepsake`) | bindings | `resolve_for_decision`, `resolve_for_query` | relation store, one read per subject | a fact is never reported beyond the assignment that made it present |
| Axum gate (`gatekeep-axum`) | none | `authorize`, `authorize_prepared`, `authorize_resource` | the authorizer, the reason catalog | a response tells only of durable decisions; hidden denials are one response |
| Fluent catalog (`gatekeep-fluent`) | bundles by locale, built at startup | `add_resource`, `set_*`, `render_reason` | the gate | not modelled: wording |
| Relation lifecycle (`examples/relation-lifecycle`) | relations, receipts, sessions, audit and outbox | `apply`, `admit`, `stage`, revocation in one transaction | Keepsake, sinks, PostgreSQL locks | all of a command or nothing; a retry is a replay; no admission past a block |
| Record service (`examples/record-service`) | permissions, records, audit | `read`, `list_records` | evaluation, lowering, SQLite's write lock | list and read grade alike; what is shown is durable |
| Authorized-list examples, explanation, inspection, testing | none | presentation | | not a matter of state |

What is hard here: the clock moves, or steps back, during every await; the reply
of a commit can be lost after it was applied; two calls can write under one
identity; a future can be dropped at any await; a frozen event is submitted again
by its holder; a residual outlives the facts it was reduced with; loops return
early and still have to account for what they read; SQL has a third truth value
and backends treat it differently; a batch persists item by item; a service's
own transaction holds locks over many awaits; a table keeps what releases with
other formats wrote. `PROJECT.json` lists these at their lines.

## Modules

- **`AuditSink`** — the transaction a Dovecote sink owns: `Begin`, `Enqueue`
  (inserted, or already enqueued), `EnqueueConflict`, `Commit`, `Rollback`,
  `LostReply`. `store` is the committed events, `txn` each writer's transaction.
  Dovecote and the database are external and modelled from what the sinks rely
  on. `Serialized` selects SQLite's `BEGIN IMMEDIATE`.
- **`Assembly`** (extends `AuditSink`) — what one decision is made of, shared by
  single calls and batches: bindings and their `validate_at`, freshness of a
  resolution, required facts, and the decision `Decide` gives.
- **`Authorizer`** (extends `Assembly`) — concurrent calls. Between two awaits
  the code is one action, split where it reads the clock a second time: `Invoke`
  and `Reinvoke` (up to the resolver's await; `prepare_resolution` is handed its
  facts and has none), `Receive`/`ResolverFails`
  (`assemble` up to the completeness check), `Stamp`/`AssembleFails` (evidence,
  evaluation, occurrence, entry), `RecordBegin`, `RecordEnqueue`,
  `RecordCommit`, `RecordConflict`, `RecordFails` (the sink), `Finish` (observer
  and return), `Attempt` (the record of a failure), `PersistPending` and
  `RetryAttempt` (the holder of a frozen event), `Drop` (a cancelled future) and
  `ClockStep`. Policies are a constant function `Decide`; its only assumption,
  that it reads no more than `Required`, is what the theorem
  `ConsultedDeterminesHolds` says of `evaluate`.
- **`AuditedDecision`** — the abstract promise: an append-only history with one
  event per identity; a decision is told to a caller, and shown to the observer,
  only out of that history and only about what the caller asked. `Authorizer`
  implements it through `Promise` (`history <- store`, `shown <- observed`,
  `reply <- answer`, `asked` the tenant and policy of the call).
- **`Evaluation`** — conditions and policies, `Evaluate` with the code's loops, early
  returns and kept permits, and the reference `Meaning`. A tree is the sequence of its
  nodes, in which the arms of a node are the positions of earlier nodes and the last
  node is the root; what a recursive function of the code computes is a table over the
  positions (`EvalTable`, `ConditionTable`, ...) whose entry for a node is one operator
  (`EvalNode`, ...), with one case per kind of node. `IsPolicy` says what a tree is: any
  policy the code can build, shared arms included.
- **`Reduction`** (extends `Evaluation`) — `partial_evaluate` and `complete_residual`.
  A residual has its nodes at the positions of the policy's: a reduced arm stays where
  the arm was, and a place that nothing refers to any more is inert.
- **`PartialEvaluation`** (extends `Reduction`) — a service that keeps a residual:
  `Reduce` makes it, `Learn` makes a deferred fact known.
- **`Lowering`** (extends `Reduction`) — the WHERE filter and the grade column of a
  residual. A fragment is modelled by the SQL value it has on a row, under three-valued
  logic. `Traits` tells which residuals lower incompletely or with a wrong grade.
- **`SqlLowering`** (extends `PartialEvaluation`, `Lowering`) — the list: the policy is
  reduced once and the query evaluated on one row after another (`Scan`).
- **`KeepsakeResolver`** — one resolution, in decision or query mode: `Start`
  (observation time, bindings, targets, grouping by subject slot: `todo` is the set of
  slots left to read), `Read` (one source read, of the first slot left in the order of
  the map, `IsFirst`; the scope check, the effective state, the collected deadline),
  `SourceFails`; meanwhile `Apply`, `RevokeBySubject` (through the target of a
  fact) and `ClockStep`. `past` is a history of the relations while the call
  reads. `EffectivePresence` is the form of the question for transactions.
- **`Batch`** (extends `Assembly`) — `authorize_batch`: the limit and the contexts
  are checked, one bulk load answers for all of them, then each item is
  assembled, stamped and recorded in a transaction of its own before the next
  begins. `results` is the vector under construction; `into_strict` follows it.
- **`AxumGate`** (extends `Authorizer`) — the handlers: every step of the boundary,
  and `Respond`, which turns its result into a permit, a 403, a 404 or a 500. Calls
  no handler waits for (`prepare`, recorded attempts) run beside them.
- **`AuditHistory`** — the durable forms. A payload is a function from JSON fields
  to values, a row adds storage tenant, source, type, identity and time. Actions
  record a decision or an attempt, import a legacy row, and record an entry that
  was read; the decoders are operators. `written` remembers what was handed in.
- **`RelationLifecycle`** — workers, each with one READ COMMITTED transaction; each
  statement is an action. `draft` holds a transaction's writes, `locks` the scopes
  and `shares` the authority rows it has locked. Keepsake, Dovecote and PostgreSQL are external.
- **`RecordService`** (extends `Lowering`) — the two
  handlers of the example under SQLite's write lock: the read evaluates the
  service's policy on the permission row, the list lowers the same policy with
  every fact unknown and runs it over the outer join.
- **`MCAuthorizer`, `MCBatch`, `MCAxumGate`, `MCAuditHistory`, `MCKeepsakeResolver`,
  `MCPartialEvaluation`, `MCSqlLowering`, `MCRelationLifecycle`, `MCRecordService`** —
  the instances.
- **`AuthorizerProofs`** (sink, boundary, refinement and gate), **`BatchProofs`,
  `KeepsakeResolverProofs`, `RelationLifecycleProofs`, `AuditHistoryProofs`,
  `PolicyProofs`** (evaluation, partial evaluation and lowering) and
  **`RecordServiceProofs`** — the proofs. **`Recursion`** is their library for tables
  that are filled in the order of their positions.

Definitions headed "Slip:" are not used by any specification. Each is the form a
plausible mistake would give the definition that follows it, and `PROJECT.json`
("mutants") names the property that refutes it.

### Abstractions

Payloads are reduced to what deduplication and the properties tell apart. An
event carries its tenant, identity, time, policy, binding, outcome and evidence;
an entry that differs in evidence is another payload. `DecisionAuditId::generate`
is modelled by the call it comes from, which is what makes it fresh; identities
chosen by the application are kept apart from those (`owner = Nil`). The source of
the events is one configuration value and does not appear. A clause's label,
reason code and deny shape are one `label`. Obligations and fact lists are sets:
the code deduplicates them. Failures of serialisation and of the clock's portable
range are nondeterministic. Keepsake's effective state is taken from the
repository's tests and its relation contract: due at the deadline itself,
unavailable without fulfilment evidence or with a disabled definition. A time
that Keepsake itself finds stale is left out of `Read`: the adapter asserts its
clock as authoritative. In `RelationLifecycle` the tenant is fixed, and Keepsake's
own lifecycle event is part of the change of the relation. In `RecordService` a
failed or dropped commit may or may not have taken effect. In `AuditHistory` the
writes are atomic, because `AuditSink` has their transactions, and sizes are one
number per payload.

## Runs

| Run | Asks | Bounds |
|---|---|---|
| `authorizer_safety` | nine invariants and the refinement below | two requests; two tenants, policies and facts; clock 0..1; each request issued up to twice; one lost reply or drop; 1,038,512 states |
| `authorizer_supplied_retry` | violated: see Findings | one request, issued twice |
| `gate` | responses over the whole boundary, and progress | two requests on the serialized sink, each through a handler or direct, issued up to twice; one shared occurrence; a permit and four kinds of denial; one fault; 178,251 states |
| `batch` | results, prefix, receipt and progress | two callers; an empty batch, one over its limit, two that share a supplied identity (two tenants, one expiring binding); a load that errs at a position, counts wrong or goes stale; one fault; 262,606 states |
| `lifecycle` | commands, retries, authority, expiry, admission, progress | two workers, three transactions out of ten jobs; a restriction due at 1 and its replacement due at 2; one authority change, one cancellation or lost reply; 149,499 states |
| `record_service` | reads and lists | two handlers, two records of the tenant and one of another, a permission without its record; emergency access until 1, clock 0..1; one permission change, one fault; page of one row; 364,522 states |
| `audit_history` | writers and readers of one table | every table of one or two of 15 earlier rows; nine entries, three attempts, five imports; five rows at most; 876 states |
| `keepsake` | resolution while relations change | two filled subject slots and one that is missing, five sets of facts, six assignments (two deadlines, fulfilment, disabled, another tenant); clock 0..2; two changes; 232,818 states |
| `partial` | evaluation and partial evaluation | every pair and triple of six clauses, conditions of depth two and three, two facts, a lattice with incomparable outcomes; 111,304 states |
| `partial_obligations` | violated: see Findings | as `partial` |
| `sql` | the query against evaluation | pairs of nine leaves, triples of four clauses nested to either side and side by side, two ordered outcomes, every row of two nullable columns with the tenant, another tenant or NULL; 380,799 states |
| `sql_grade` | violated: see Findings | as `sql` |

Why the bounds suffice: two requests make every race of the sink (it compares two
writers); two clock values let a window hold before and fail after an await, and
the reverse; the second issue of a request follows a lost reply of the first; a
second fault would repeat a situation the first one left. For evaluation, three
arms are needed for an arm to be dropped between two that stay, and two facts
with three presences for one known and one pending arm; two outcomes are needed to
be incomparable, and their meet and join to be neither. For the resolver, two
subjects make one gap between reads and two changes fit into it, and clock values
1 and 2 put a deadline before, at and after an observation. For a batch, two items
put a failure before or after a success, and one shared identity is what two
callers can contend for: an item holds its transaction for its own write only. For
the lifecycle, two transactions make every pair of conflicting statements, and three
let a command be applied, its relation revoked, expired or replaced, and the command
retried. For the history, one row per reason to refuse it and a second row to collide
with. The list needs two rows and a page of one to cut. Symmetry is not used:
requests, workers and tenants are distinguished by what they may do.

`partial` does not check deadlock: a service that knows every fact has nothing
left to do. Neither does `lifecycle`, which ends when the bounded number
of transactions has run; that no transaction waits for ever is `TransactionEnds`.
The other passing runs do check it.

### Properties

Invariants of the boundary: `UniqueEvents`, `ReturnedIsDurable`,
`ObservedIsDurable`, `JudgedAtReceipt` (evidence and binding were valid at the
reading that judged them, even if the clock stepped back), `FrozenNeverConflicts`
(retrying a frozen event is always accepted), `AttemptExcludesDecision` (no
attempt beside a decision of the same call), `FailureIsRecorded`, `ReplayAgrees`,
and the refinement `ImplementsPromise`. Liveness: `CallSettles`.

Evaluation: `EvaluateDenotes`, `ConsultedDetermines`; partial evaluation:
`PartialPreservesEffect`, `CompletedIsAuditable`, `ResidualAsksUnknown` (action).

SQL: `FilterIsExact` (selected is permitted and permitted is selected, except permits
that hang on a fallback with an obligation, which the lowering leaves out on
purpose), `GradeIsFaithful` (outside the two shapes of finding 3, `MisgradesRows`; no
grade for rows of another tenant), `LoweringsAgree` (backends, and the two walks
that build a filter).

Keepsake: `SubjectIsConsistent` (one subject's facts are those of one moment, in
its tenant), `FreshnessBoundsPresence` (an answer the boundary still accepts holds
no fact past its deadline, and no answer is refused for its own window),
`PathsAgree` (resolver and transaction form), `EvidenceIsCurrent`. An answer over
several subjects is no snapshot: the resolver reads them one await after another
under one observation time, so consistency is stated subject by subject.

Batch: `ResultsAnswerTheirContexts` (every `Ok`, and everything `into_strict` hands
out), `DurableIsPrefix` (durable is what was reported, named in an audit error, or
in flight; nothing for a batch refused as a whole), `ItemJudgedAtReceipt`; liveness:
`BatchSettles`.

Axum gate: `HiddenIsUniform`, `ResponseIsAudited`; its run also checks `CallSettles`.

Audit history: `RoundTrips` (`WrittenIsRead`, and `RereadIsReplay`: an entry of
schema 1 can be recorded again), `ReadersAreExact` (`OneReader`: no row is accepted
by two decoders; `ReadInItsScope`), `ImportKeepsDecision`.

Relation lifecycle: `CommitIsWhole`, `RetryIsReplayed`, `AuthorityHolds`,
`AdmittedUnblocked`; liveness: `TransactionEnds`.

Record service: `PermissionIsFenced`, `ListAgreesWithReads` (one story from
evaluation and from SQL), `AnswersMatchAudit` (`ShownIsDurable`,
`AbandonedLeavesNothing`).

Every component with state of its own has a type invariant. The run of the boundary
checks its own; all of them are proved, the record service's as `Tables` of its
inductive invariant.

### Fairness

`FairSpec` assumes that a polled future makes progress (`WF` of each request's
own steps: the executor polls what is ready, the resolver answers or fails and
the sink answers) and that the holder of a prepared decision keeps submitting it.
It assumes nothing of the clock, of new calls, of faults or of drops; faults are
bounded by `MaxFaults`, so "eventually" means once the sink stops failing. Weak
fairness is enough on the serialized sink, because a transaction that holds the
write lock belongs to a request that can always step.

The other fair specifications assume the same and no more: `WF` of each batch
caller's, of each handler's and of each transaction's own steps. A handler's steps include its
response; a transaction's statement is enabled only while the locks it needs are
free, so weak fairness does not hide a deadlock. That a waiter whose lock is
released and taken again in turn gets it at last holds here because the number of
transactions is bounded; PostgreSQL queues its waiters.

## Findings

1. **Retrying `authorize` with the same occurrence** (`authorizer_supplied_retry`).
   The guide for Axum says that a caller that may retry an ambiguous write can
   supply the same occurrence. `authorize` resolves again, so the second entry
   carries other evidence under the same identity; if the first write was applied
   the sink reports a conflict. The retry that works is `persist_pending` on the
   same `PendingDecision`, which is what `FrozenNeverConflicts` shows.
2. **Obligations across partial evaluation** (`partial_obligations`). `reduce_all`
   moves resolved permits before pending arms, and `Permit::meet` keeps the first
   of two equal permits. `All([Grant(read, a) with notify, Permit(read)])` reduced
   with `a` unknown and completed with `a` present loses `notify`. The effect is
   always preserved (`PartialPreservesEffect`).
3. **Grades of compound policies** (`sql_grade`). `grade_set` skips NULL for `All` too,
   so a conjunction that does not hold contributes the grade of the arms that do to a
   disjunction above it. A second shape came out of the proof of the grade: the lowering
   leaves out a fallback that carries an obligation, so when such an `or_else` is the
   primary of another one, the outer fallback also takes over where the omitted one
   grants. `OrElse(OrElse(full if a, shared if b [review]), full if not a)` on a row with
   `b` only is graded full, while evaluation grants shared. In both shapes the filter is
   right; the grade can exceed what evaluation grants.

## Proofs

Every safety property and the refinement that the passing runs check on small
instances are theorems for every value of the constants: any set of requests, callers
or workers, any calls, batches, commands and earlier tables, any lattice, policy, facts
and rows, any clock range and any bounds.

| Module | Theorems (property) |
|---|---|
| `AuthorizerProofs` | `TypeCorrect`, `EventsAreUnique`, `ReturnedDecisionsAreDurable`, `ObservedDecisionsAreDurable`, `AttemptsExcludeDecisions`, `GeneratedEventsNeverConflict`, `DecisionsAreJudgedAtReceipt`, `DurableDecisionsReplay`, `FailuresAreRecorded`, `BoundaryImplementsPromise` (`ImplementsPromise`); of the gate `ResponsesAreAudited`, `HiddenDenialsAreUniform`, `GateKeepsPromise` |
| `BatchProofs` | `BatchTypeCorrect`, `ResultsAnswer`, `DurablePrefix`, `ItemsAreJudgedAtReceipt` |
| `KeepsakeResolverProofs` | `ResolverTypeCorrect`, `SubjectsAreConsistent`, `FreshnessIsBounded`, `ReadPathsAgree`, `EvidenceStaysCurrent` |
| `RelationLifecycleProofs` | `LifecycleTypeCorrect`, `CommitsAreWhole`, `RetriesAreReplayed`, `AuthorityIsHeld`, `AdmissionsAreUnblocked` |
| `AuditHistoryProofs` | `HistoryTypeCorrect`, `WritesRoundTrip`, `RowsHaveOneReader`, `ImportsKeepDecisions` |
| `PolicyProofs` | `PolicyInvHolds`, `EvaluateDenotesHolds`, `ConsultedDeterminesHolds`, `PartialPreservesEffectHolds`, `CompletedIsAuditableHolds`, `ResidualAsksUnknownHolds` (action); `ListInvHolds`, `FilterIsExactHolds`, `GradeIsFaithfulHolds`, `LoweringsAgreeHolds` |
| `RecordServiceProofs` | `ServiceInvHolds`, `PermissionIsFencedHolds`, `AnswersMatchAuditHolds`, `ListAgreesWithReadsHolds` |

The properties of the state machines are not inductive by themselves; each module
defines the invariant that is, and proves it action by action. Those of policies are
proved by induction over the nodes of a tree.

**The sink.** `SinkInv`: an identity that a transaction has
inserted is not stored yet, a duplicate is stored as it is, and no two transactions
hold inserts of one identity. This is what makes `Commit` keep identities unique. The
boundary and the batch change the sink through its operations only; the three lemmas
about those operations (`SinkInitShape`, `SinkStepType`, `SinkStepInv`) stand at the
head of both proofs.

**The boundary.** Type correctness needs `Shape` (at which points a request holds a
call, a resolution and a frozen event) and `SinkShape`. `SafetyInv` adds `SinkInv` and:

- `Conduct`: only a request that is recording owns a transaction, and it carries
  that request's frozen event; a frozen event has the tenant and policy of the call
  and the identity of this run, or one the application supplied; nothing is frozen
  before the decision or the attempt is.
- `History`: a stored event under a generated identity comes from a run of its
  request that has begun; one of the present run is the frozen event, or was
  abandoned by a call that is over. Hence a fresh identity is not stored, and an
  attempt never meets a decision of its run.
- `Told`: an event that was recorded is stored, and only a finished call has a
  decision in hand.

`EvidenceInv` adds that a request about to stamp holds the inputs that passed
(`Judging`) and that every frozen or stored decision has the outcome its own evidence
gives (`Faithful`). From the receipt on nothing is judged again, so a clock that steps
back does not matter. The refinement (`PromiseStep`) maps `store`, `observed`, `answer`
and the question of the call. A write that lands, also one whose reply is lost, is an
abstract `Append`, which `SinkInv` allows; `Finish` of a decision is `Tell`, out of a
history in which `Told` finds it; a step that enters or fails a call is `NoDecision`,
since it leaves no decision in the answer; the others are `Record` or stutter.

**The gate.** A step of the gate is a step of the boundary or leaves it alone
(`GateStep`), so every theorem of the boundary holds of it. `GateInv` adds that a
response that tells of a decision stands beside the answer it was made from, which no
later step changes (`DecidedStays`).

**The batch.** `BatchInv` goes item by item: the result vector is one shorter than the
position of the loop (`Placed`), the frozen event is about that position (`Matches`,
`Conduct`), what was reported is durable (`Reports`), and every durable event of a
submission is named by a result or is the frozen one (`Named`).

**The resolver.** `ResolverInv`: a slot that has been read answers for one moment of
the call (`Settled`), later reads add pairs of their own slot only (`Attributed`), and
behind each present fact is an assignment that the deadline kept so far bounds
(`Backed`).

**The lifecycle.** What is committed forms a `Whole` (receipts, sessions, events), and
so do the writes of one open transaction; a commit is the union of two wholes. That
what a transaction read is still true when it commits is the frame lemma
`Undisturbed`: no other transaction changes a row whose scope it has locked or an
authority it has locked FOR SHARE, or commits a receipt for such a scope. `Origin` and
`Retired` tie each relation to the receipt that made it, `Told` the answers to the
receipts. The proof also shows that `stage` cannot meet a conflict.

**The history.** The decoders ask for fields that exclude one another and compare the
record with its row, so `RowsHaveOneReader` is settled row by row. `WritesRoundTrip`
holds because every conversion of a reader leaves alone what a constructor or a reader
has made: a time cut to the microsecond, and observations in fact order. That sorting
puts distinct facts in ascending order (`SortAscends`, from the insertion of one more
number), and that it leaves an ascending sequence alone (`AscendingIsSorted`), need
induction on the length; the proofs take a least counterexample instead (`Least`).

**Recursion.** The prover has no induction principle it can instantiate, and knows of a
recursive function only that it is some value satisfying its equation, if one exists.
`Recursion` supplies both for tables whose entry at `n` depends on earlier entries only
(`Local`): a table for one more position extends the one before, so a table for every
position exists, by the least length for which none does; a property of every entry
follows the same way from the least entry that lacks it. A recursive definition uses it
through an instance with its own step.

**Evaluation.** A condition's value is the reference value (`ConditionDenotes`). The
permit that `eval_all_by` carries from arm to arm is below every permit seen and above
every common lower bound, and dually for `eval_any_by` (`CommonMeets`, `WinningJoins`);
with the laws of the lattice that is the greatest lower and least upper bound of
`Meaning` (`MeaningIsEffect`). For the trace (`DecisionConsulted`): two sets of facts that
agree on what a loop consulted up to its first hit give each of those arms the same
value, so the loop stops at the same arm (`FirstHit`, `AllSame`).

**Partial evaluation.** `NodeReduced` states for every kind of node what its reduction
is: decided, or one of the few shapes the code leaves. `PolicyPreserved` then shows, by
induction, that on every completion a reduced node has the effect of the node, and that
what the reduction and the completion consulted together determine it. Effects do not
depend on the order of arms or on dropped ones, since they are bounds of sets;
obligations do, which is finding 2. `PolicyInv` says that the held residual was reduced
with facts that the facts known now extend, so every completion of these is one of those.

**Lowering.** A lowered condition is never NULL, since every predicate is under `IS TRUE`
(`LowerConditionIs`); hence the filter is TRUE or FALSE, true only where the residual
permits, and everywhere it permits unless a fallback was omitted (`FilterFacts`). The
guarded and the native grade function both give the least or greatest grade that is not
NULL (`GradeSetIs`, `SamePlans`). For the grade the induction needs more than the
property: a node that permits is graded at most what it grants, a node that conjoins
nothing and permits nothing has no grade (`GradeOf`, `GradeFacts`). The proof fails exactly at
the two shapes of finding 3, which `Traits` marks. Completion (`PolicyPreserved`) carries the result from the
residual to the policy.

**The record service.** `ServiceInv` follows a handler from await to await. Whoever is
between BEGIN IMMEDIATE and the end of its transaction holds the fence, so what it has
resolved is the permission row (`Decided`), and what it has counted and fetched is what
the tables still select (`Counted`, `Listed`); a staged event tells what the answer will
show (`NotFoundReady`, `ViewReady`, `ListReady`). For the list, the joined row with its
NULLs has the facts a read would resolve (`JoinedFacts`), the service's policy has no
obligation and none of the shapes that misgrade (`ListIsFaithful`), so a record matches
exactly when a read permits it and has the grade a read grants (`PlanIsRead`). The page
is the first rows by id (`NthExists`, `PageIsReads`).

### Assumptions

Those that the modules state, each evaluated by TLC in the runs: `Nil` is none of the
values it stands beside; calls, resolutions and evidence are well formed as their
constructors make them; an identity supplied by an application is not one that
`generate` yields; the policy reads only its required facts (`EvaluateReadsRequired`,
which `ConsultedDeterminesHolds` proves of `evaluate`); an assignment id names one
assignment of its tenant, and Keepsake generates it, so that two commands never create
the same one (`AssignmentIds`, `FreshAssignments`); what another producer enqueued
under a command's identity is not what `apply` would enqueue (`ForeignAssumption`); a
row of the table has Dovecote's columns, and evidence in it the shape serde asks for
(`HistoriesAssumption`). Nothing is assumed of what the payloads otherwise hold, nor
that earlier rows are valid, sorted or in their own tenant.

Of policies: the outcomes form a lattice (`LatticeAssumption`, the laws `check_lattice`
checks; it need not be finite or have bounds), every policy is a tree
(`PoliciesAssumption`), and for lowering the SQL ordinal orders the outcomes as the
lattice does (`OrdinalAssumption`, what `SqlOutcome` asks for). The record service's types
are those of its `policy.rs` (`RecordPolicyAssumption`), and its tables hold what the
schema lets them (`TablesAssumption`).

A definition by CASE is unfolded with Zenon only: this version's SMT translation does
not tell two CASE expressions apart that share their first arm.

### Only model-checked

The liveness properties `CallSettles`, `BatchSettles` and `TransactionEnds`: liveness
under fairness is out of the prover's reach. The three violated properties of the
findings are refuted by TLC.

## Not modelled

- Policy hashing and digests, and the bytes of serialised records: equality of
  payloads stands for them.
- Rendering of SQL text and placeholders, driver detection. A fact without a
  predicate makes lowering fail before a query exists, and is left out.
- The encoding of tenant and principal into a Keepsake subject.
- Explanation and inspection (presentation of a decision already made), HTTP
  encoding.
- The Fluent catalog: wording, built once at startup and only read afterwards. The
  gate uses it through one function of a reason and a locale, `Render`.
- The in-memory audit sink and the test helpers: fixtures.
- The authorized-list examples: a pipeline of modelled parts without state of its
  own, whose addition is SQL text.
- The claim and acknowledgement of notifications and the integrity scans in the
  relation lifecycle example; the record service's batch resolver, which only a
  benchmark and a test use.

## Plan

Done, in order: the sink, the boundary and its promise, with safety, progress,
refinement and the first theorems; evaluation, partial evaluation and lowering; the
Keepsake resolver; batches; resource calls and `prepare_resolution`; the relation
lifecycle and the record service as users of transactions they own; the durable
forms of the audit; the Axum gate.

The proofs followed in this order: the sink, the boundary with its refinement, the
gate, the batch, the resolver, the lifecycle, the history; then evaluation, partial
evaluation and lowering, for which trees became sequences of nodes, and the record
service on top of them.

Left, in order of importance:

1. A form of `PartialPreservesObligations` that the code keeps: for which policies the
   obligations survive the reordering of `reduce_all`.
2. The fairness of the waiters in the lifecycle without a bound on the transactions.
3. The claim and acknowledgement of notifications in the lifecycle example.
