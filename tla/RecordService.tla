--------------------------- MODULE RecordService ---------------------------
(***************************************************************************)
(* examples/record-service: one handler reads a record, another lists the  *)
(* records a person may see.  Both run inside one SQLite write transaction *)
(* (BEGIN IMMEDIATE) that also holds their audit event.  The read resolves *)
(* the permission row and evaluates the policy; the list leaves every fact *)
(* unknown and lowers the whole policy to SQL.                             *)
(*                                                                         *)
(* Permissions change between transactions and emergency access runs out   *)
(* with the clock.  Every await is a point of interleaving, failure and    *)
(* cancellation.  The grades of the two paths must be one grade.           *)
(***************************************************************************)
EXTENDS Lowering, FiniteSets

CONSTANTS
  Nil,
  People, Records,       \* record ids are numbers: ORDER BY id
  Stored,                \* the records table: [tenant, id]
  Workers,               \* handler futures
  Requests,              \* what they may be asked: [op, person, record]
  InitialAccess,         \* contents of record_access to begin with
  Changes,               \* permission rows that may be written
  PageLimit,             \* LIMIT of the list query
  MaxTime, MaxChanges,   \* bounds: clock, permission writes
  MaxFaults              \* bound: failures and dropped futures

Time == 0 .. MaxTime

VARIABLES
  now,
  access,      \* the record_access table
  fence,       \* who holds SQLite's write lock
  pc, request,
  seen,        \* read: the FactResolution; list: the clock reading it binds
  staged,      \* the event written in the open transaction
  result,      \* what the handler will answer
  answer,
  durable,
  changes, faults

workVars == <<pc, request, seen, staged, result, answer>>
vars == <<now, access, fence, workVars, durable, changes, faults>>

-----------------------------------------------------------------------------
(***************************************************************************)
(* policy.rs                                                               *)
(***************************************************************************)
RecordFacts == {"owner", "shared", "released", "emergency", "enabled"}
Access == {"released", "shared", "full"}

\* SqlOutcome::to_sql_ordinal, and the derived order of Access
Rank(o) == CASE o = "released" -> 0 [] o = "shared" -> 1 [] o = "full" -> 2

MeetAccess(x, y) == IF Rank(x) <= Rank(y) THEN x ELSE y
JoinAccess(x, y) == IF Rank(x) >= Rank(y) THEN x ELSE y

Clause(o, fact) == Grant(o, <<Has(fact)>>, {}, NoLabel)

\* read_policy: normal access takes precedence over the emergency fallback.
ReadPolicy ==
  <<Clause("full", "owner"), Clause("shared", "shared"), Clause("released", "released"),
    AnyOf(<<1, 2, 3>>), Clause("full", "emergency"), OrElse(4, 5), Clause("full", "enabled"),
    AllOf(<<7, 6>>)>>

(***************************************************************************)
(* resolver.rs                                                             *)
(***************************************************************************)
AccessRows ==
  [enabled : BOOLEAN, owner : BOOLEAN, shared : BOOLEAN, released : BOOLEAN,
   emergency_until : Time \union {Nil}]
Keys == [tenant : Tenants, person : People, record : Records]

KeyOf(tenant, q, id) == [tenant |-> tenant, person |-> q.person, record |-> id]

Live(row, t) == row.emergency_until # Nil /\ t < row.emergency_until

\* facts: no row, no permission.
FactsAt(row, t) ==
  IF row = Nil THEN {}
  ELSE {f \in RecordFacts \ {"emergency"} : row[f]}
       \union (IF Live(row, t) THEN {"emergency"} ELSE {})

\* resolution
Resolution(row, t) ==
  [facts |-> FactsAt(row, t), observed_at |-> t,
   fresh_until |-> IF row # Nil /\ Live(row, t) THEN row.emergency_until ELSE Nil]

Fresh(res, t) == res.observed_at <= t /\ (res.fresh_until # Nil => t < res.fresh_until)

(***************************************************************************)
(* list.rs: the policy with every fact unknown, lowered for SQLite.        *)
(***************************************************************************)
Unasked == [f \in Facts |-> "unknown"]

\* Slip: the permission of any tenant with a record of that id is joined.
JoinedAnyTenant(s, q) ==
  LET hits == {k \in Keys : k.person = q.person /\ k.record = s.id /\ access[k] # Nil}
  IN  IF hits = {} THEN Nil ELSE access[CHOOSE k \in hits : TRUE]

\* append_source: LEFT JOIN record_access on tenant, record and person
Joined(s, q) == access[KeyOf(s.tenant, q, s.id)]

\* Predicates::predicate on a joined row
Column(row, fact, t) ==
  IF row = Nil \/ (fact = "emergency" /\ row.emergency_until = Nil) THEN Null
  ELSE IF fact = "emergency" THEN row.emergency_until > t ELSE row[fact]

JoinedRow(s, q, t) ==
  [tenant |-> s.tenant, column |-> [f \in Facts |-> Column(Joined(s, q), f, t)]]

\* Policy::partial_evaluate with every fact unknown
ListResidual == PartialEvaluate(ReadPolicy, Unasked)

\* The fragments of the query on a stored row
PlanOn(s, q, t) == LowerResult(ListResidual, JoinedRow(s, q, t), TRUE)

Matching(q, t) == {s \in Stored : PlanOn(s, q, t).filter = TRUE}

\* The row of X at position i of ORDER BY id
Nth(X, i) == CHOOSE s \in X : Cardinality({r \in X : r.id < s.id}) = i - 1

\* ORDER BY id LIMIT PageLimit, with the grade of every row
Page(q, t) ==
  LET rows == Matching(q, t)
  IN  [i \in 1 .. Min({Cardinality(rows), PageLimit}) |->
         [id |-> Nth(rows, i).id, grade |-> PlanOn(Nth(rows, i), q, t).grade]]

-----------------------------------------------------------------------------
\* The policy's types are those of policy.rs.
ASSUME RecordPolicyAssumption ==
  /\ Facts = RecordFacts /\ Outcomes = Access
  /\ \A x, y \in Access : Meet(x, y) = MeetAccess(x, y) /\ Join(x, y) = JoinAccess(x, y)
  /\ \A x \in Access : Ordinal(x) = Rank(x)

\* The tables hold what the schema lets them.
ASSUME TablesAssumption ==
  /\ Records \subseteq Nat
  /\ IsFiniteSet(Stored) /\ Stored \subseteq [tenant : Tenants, id : Records]
  /\ InitialAccess \subseteq [Keys -> AccessRows \union {Nil}]
  /\ Changes \subseteq AccessRows \union {Nil}

ASSUME RequestsAssumption ==
  /\ Nil \notin Workers /\ PageLimit \in Nat /\ MaxTime \in Nat
  /\ \A q \in Requests :
       /\ q.op \in {"read", "list"} /\ q.person \in People
       /\ q.op = "read" => q.record \in Records

-----------------------------------------------------------------------------
NoResult == [kind |-> "none"]
Answer(status, body) == [status |-> status, body |-> body]
NoAnswer == Answer(0, Nil)

Init ==
  /\ now = 0
  /\ access \in InitialAccess
  /\ fence = Nil
  /\ pc = [w \in Workers |-> "idle"]
  /\ request = [w \in Workers |-> Nil]
  /\ seen = [w \in Workers |-> Nil]
  /\ staged = [w \in Workers |-> Nil]
  /\ result = [w \in Workers |-> NoResult]
  /\ answer = [w \in Workers |-> NoAnswer]
  /\ durable = {}
  /\ changes = 0 /\ faults = 0

Goto(w, label) == pc' = [pc EXCEPT ![w] = label]

\* The handler returns: its transaction, if it had begun one, has ended.
Return(w, a) ==
  /\ Goto(w, "done")
  /\ answer' = [answer EXCEPT ![w] = a]
  /\ fence' = IF fence = w THEN Nil ELSE fence
  /\ UNCHANGED <<now, access, request, seen, staged, result, changes>>

\* An error return drops the transaction, which rolls it back.
Abort(w) == Return(w, Answer(500, Nil)) /\ UNCHANGED durable

Arrive(w, q) ==
  /\ pc[w] = "idle"
  /\ Goto(w, "beginning")
  /\ request' = [request EXCEPT ![w] = q]
  /\ UNCHANGED <<now, access, fence, seen, staged, result, answer, durable, changes, faults>>

\* Slip: a deferred transaction, which takes no lock before its first write.
BeginDeferred(w) ==
  /\ pc[w] = "beginning"
  /\ Goto(w, IF request[w].op = "read" THEN "resolving" ELSE "planning")
  /\ UNCHANGED <<now, access, fence, request, seen, staged, result, answer, durable, changes, faults>>

\* begin_write
Begin(w) ==
  /\ pc[w] = "beginning" /\ fence = Nil
  /\ fence' = w
  /\ Goto(w, IF request[w].op = "read" THEN "resolving" ELSE "planning")
  /\ UNCHANGED <<now, access, request, seen, staged, result, answer, durable, changes, faults>>

-----------------------------------------------------------------------------
(***************************************************************************)
(* read                                                                    *)
(***************************************************************************)
Asked(w) == KeyOf(Tenant, request[w], request[w].record)

\* resolve_in_transaction
Resolve(w) ==
  /\ pc[w] = "resolving"
  /\ seen' = [seen EXCEPT ![w] = Resolution(access[Asked(w)], now)]
  /\ Goto(w, "preparing")
  /\ UNCHANGED <<now, access, fence, request, staged, result, answer, durable, changes, faults>>

\* Slip: the record goes through the sink's own transaction.
PrepareAndRecord(w) ==
  /\ pc[w] = "preparing"
  /\ Fresh(seen[w], now)
  /\ LET d == Evaluate(ReadPolicy, seen[w].facts)
         e == [kind |-> "decision", owner |-> w, key |-> Asked(w), outcome |-> d.effect, at |-> now]
     IN  /\ staged' = [staged EXCEPT ![w] = e]
         /\ durable' = durable \union {e}
         /\ Goto(w, IF IsPermit(d) THEN "projecting" ELSE "committing")
         /\ result' = [result EXCEPT ![w] = [kind |-> "not_found"]]
  /\ UNCHANGED <<now, access, fence, request, seen, answer, changes, faults>>

\* prepare_resolution, then record_decision_audit_in_transaction.  A denial
\* goes on to its commit.
PrepareAndAudit(w) ==
  /\ pc[w] = "preparing"
  /\ Fresh(seen[w], now)
  /\ LET d == Evaluate(ReadPolicy, seen[w].facts)
     IN  /\ staged' = [staged EXCEPT ![w] =
              [kind |-> "decision", owner |-> w, key |-> Asked(w), outcome |-> d.effect, at |-> now]]
         /\ Goto(w, IF IsPermit(d) THEN "projecting" ELSE "committing")
         /\ result' = [result EXCEPT ![w] = [kind |-> "not_found"]]
  /\ UNCHANGED <<now, access, fence, request, seen, answer, durable, changes, faults>>

PrepareStale(w) ==
  /\ pc[w] = "preparing" /\ ~Fresh(seen[w], now)
  /\ Abort(w) /\ UNCHANGED faults

\* Slip: notes come with every grade above the lowest.
FieldsWide(o) ==
  {"summary"} \union (IF Rank(o) >= 1 THEN {"shared_notes", "private_notes"} ELSE {})

\* The CASE columns of the SELECT in read, and of the list.
Fields(o) ==
  {"summary"} \union (IF Rank(o) >= 1 THEN {"shared_notes"} ELSE {})
              \union (IF Rank(o) = 2 THEN {"private_notes"} ELSE {})

Project(w) ==
  /\ pc[w] = "projecting"
  /\ [tenant |-> Tenant, id |-> request[w].record] \in Stored
  /\ result' = [result EXCEPT ![w] = [kind |-> "view", fields |-> Fields(staged[w].outcome)]]
  /\ Goto(w, "committing")
  /\ UNCHANGED <<now, access, fence, request, seen, staged, answer, durable, changes, faults>>

\* fetch_one: a permission row may outlive its record.
ProjectMissing(w) ==
  /\ pc[w] = "projecting"
  /\ [tenant |-> Tenant, id |-> request[w].record] \notin Stored
  /\ Abort(w) /\ UNCHANGED faults

-----------------------------------------------------------------------------
(***************************************************************************)
(* list_records                                                            *)
(***************************************************************************)
\* One clock reading for the context, the predicates and the event.
PlanList(w) ==
  /\ pc[w] = "planning"
  /\ seen' = [seen EXCEPT ![w] = [observed_at |-> now]]
  /\ Goto(w, "counting")
  /\ UNCHANGED <<now, access, fence, request, staged, result, answer, durable, changes, faults>>

Count(w) ==
  /\ pc[w] = "counting"
  /\ result' = [result EXCEPT ![w] =
       [kind |-> "list", total |-> Cardinality(Matching(request[w], seen[w].observed_at)),
        rows |-> <<>>]]
  /\ Goto(w, "fetching")
  /\ UNCHANGED <<now, access, fence, request, seen, staged, answer, durable, changes, faults>>

Fetch(w) ==
  /\ pc[w] = "fetching"
  /\ result' = [result EXCEPT ![w].rows = Page(request[w], seen[w].observed_at)]
  /\ Goto(w, "enqueuing")
  /\ UNCHANGED <<now, access, fence, request, seen, staged, answer, durable, changes, faults>>

\* The disclosure event names the rows and grades that were read.
EnqueueList(w) ==
  /\ pc[w] = "enqueuing"
  /\ staged' = [staged EXCEPT ![w] =
       [kind |-> "list", owner |-> w, person |-> request[w].person, rows |-> result[w].rows,
        at |-> seen[w].observed_at]]
  /\ Goto(w, "committing")
  /\ UNCHANGED <<now, access, fence, request, seen, result, answer, durable, changes, faults>>

-----------------------------------------------------------------------------
Commit(w) ==
  /\ pc[w] = "committing"
  /\ durable' = durable \union {staged[w]}
  /\ Return(w, Answer(IF result[w].kind = "not_found" THEN 404 ELSE 200, result[w]))
  /\ UNCHANGED faults

\* The transaction was rolled back, unless a commit under way took effect.
Undecided(w) ==
  \/ UNCHANGED durable
  \/ pc[w] = "committing" /\ durable' = durable \union {staged[w]}

\* A database error at any await: 500.
Fails(w) ==
  /\ pc[w] \notin {"idle", "done"} /\ faults < MaxFaults
  /\ faults' = faults + 1
  /\ Undecided(w)
  /\ Return(w, Answer(500, Nil))

\* The client is gone: the future is dropped and the transaction with it.
Drop(w) ==
  /\ pc[w] \notin {"idle", "done"} /\ faults < MaxFaults
  /\ faults' = faults + 1
  /\ Undecided(w)
  /\ Return(w, NoAnswer)

\* Somebody else's transaction on record_access.
Change(k, row) ==
  /\ fence = Nil /\ changes < MaxChanges
  /\ access' = [access EXCEPT ![k] = row]
  /\ changes' = changes + 1
  /\ UNCHANGED <<now, fence, workVars, durable, faults>>

ClockStep(t) ==
  /\ now' = t
  /\ UNCHANGED <<access, fence, workVars, durable, changes, faults>>

Step(w) ==
  \/ Begin(w)
  \/ Resolve(w) \/ PrepareAndAudit(w) \/ PrepareStale(w) \/ Project(w) \/ ProjectMissing(w)
  \/ PlanList(w) \/ Count(w) \/ Fetch(w) \/ EnqueueList(w)
  \/ Commit(w)

Next ==
  \/ \E w \in Workers : Step(w) \/ Fails(w) \/ Drop(w) \/ \E q \in Requests : Arrive(w, q)
  \/ \E k \in Keys, row \in Changes : Change(k, row)
  \/ \E t \in Time : ClockStep(t)

Spec == Init /\ [][Next]_vars

-----------------------------------------------------------------------------
\* Types; the grade of every fetched row is one the row reader knows.
TypeOK ==
  /\ now \in Time /\ changes \in 0 .. MaxChanges /\ faults \in 0 .. MaxFaults
  /\ access \in [Keys -> AccessRows \union {Nil}]
  /\ fence \in Workers \union {Nil}
  /\ pc \in [Workers -> {"idle", "beginning", "resolving", "preparing", "projecting", "planning",
                         "counting", "fetching", "enqueuing", "committing", "done"}]
  /\ request \in [Workers -> Requests \union {Nil}]
  /\ \A w \in Workers : result[w].kind = "list" =>
       \A i \in DOMAIN result[w].rows : result[w].rows[i].grade \in 0 .. 2
  /\ \A e \in durable : e.owner \in Workers /\ e.at \in Time

\* "BEGIN IMMEDIATE fences permission changes and projection through commit":
\* while a read is between its decision and its commit, evaluating the policy
\* on the permission row as it is now, at the time the decision was judged,
\* still gives the decision; emergency access that had run out by then was
\* refused (read, resolution).
PermissionIsFenced ==
  \A w \in Workers : pc[w] \in {"projecting", "committing"} /\ staged[w].kind = "decision" =>
    staged[w].outcome = Evaluate(ReadPolicy, FactsAt(access[staged[w].key], staged[w].at)).effect

\* The list and the point read tell one story: a record is counted exactly if
\* reading it at the list's time would be permitted, the rows are the first
\* PageLimit of those and each carries the grade that reading it would give,
\* although one path evaluates facts and the other SQL with NULL columns from
\* an outer join (list_records, lower_result).
ListAgreesWithReads ==
  \A w \in Workers : pc[w] \in {"enqueuing", "committing"} /\ result[w].kind = "list" =>
    LET q == request[w]
        Granted(id) ==
          Evaluate(ReadPolicy, FactsAt(access[KeyOf(Tenant, q, id)], seen[w].observed_at)).effect
        readable == {s.id : s \in {s \in Stored : s.tenant = Tenant /\ Granted(s.id) # Denied}}
        rows == result[w].rows
    IN  /\ result[w].total = Cardinality(readable)
        /\ Len(rows) = Min({Cardinality(readable), PageLimit})
        /\ \A i \in DOMAIN rows :
             /\ rows[i].id \in readable /\ rows[i].grade = Rank(Granted(rows[i].id))
             /\ Cardinality({id \in readable : id < rows[i].id}) = i - 1

\* What a client was shown, or told is not there, is durable: the event of
\* this very request names the grade whose fields were disclosed, the denial
\* behind the 404, or the rows of the list (read, list_records).
ShownIsDurable ==
  \A w \in Workers : answer[w].status \in {200, 404} =>
    \E e \in durable :
      /\ e.owner = w
      /\ answer[w].body.kind = "view" =>
           /\ e.kind = "decision" /\ e.key = Asked(w)
           /\ "shared_notes" \in answer[w].body.fields => e.outcome \in {"shared", "full"}
           /\ "private_notes" \in answer[w].body.fields => e.outcome = "full"
      /\ answer[w].body.kind = "not_found" =>
           e.kind = "decision" /\ e.key = Asked(w) /\ e.outcome = Denied
      /\ answer[w].body.kind = "list" =>
           e.kind = "list" /\ e.person = request[w].person /\ e.rows = answer[w].body.rows

\* A handler that gives up leaves no event behind: every durable event is of
\* a request whose transaction reached its commit, so a permit is durable
\* only for a record that could be shown
\* (record_decision_audit_in_transaction).
AbandonedLeavesNothing ==
  \A e \in durable :
    /\ pc[e.owner] = "done"
    /\ e.kind = "decision" /\ e.outcome # Denied =>
         [tenant |-> Tenant, id |-> e.key.record] \in Stored

\* Answers and audit tell the same: nothing is shown that is not durable, and
\* nothing is durable that was abandoned.
AnswersMatchAudit == ShownIsDurable /\ AbandonedLeavesNothing

=============================================================================
