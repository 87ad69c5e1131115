-------------------------- MODULE RelationLifecycle --------------------------
(***************************************************************************)
(* The relation-lifecycle consumer: application rows, Keepsake relations,  *)
(* Gatekeep decision audits and Dovecote notifications in one caller-owned *)
(* READ COMMITTED transaction.                                             *)
(*                                                                         *)
(* Each worker runs one transaction at a time: apply a command, admit a    *)
(* session, renew (stage the due expiries, then apply a replacement), or   *)
(* revoke.  Every statement is an await, hence an action.  A statement     *)
(* sees what is committed and its own transaction's writes.                *)
(*                                                                         *)
(* External: Keepsake (observe_in_transaction locks a relation scope, also *)
(* an absent one; an Applied row keeps its identity until it is revoked or *)
(* expired), Dovecote (an event is unique under its id; an identical one   *)
(* is accepted, another is refused) and PostgreSQL's row locks.  The       *)
(* tenant is fixed; Keepsake's own lifecycle event is part of the change   *)
(* of the relation.                                                        *)
(***************************************************************************)
EXTENDS Naturals, Sequences, FiniteSets

CONSTANTS
  Workers,       \* transactions that may be open at once
  Jobs,          \* what a caller may run in a transaction
  Commands,      \* ApplyKeepsake values
  Sessions,      \* session ids
  Scopes,        \* relation scopes: (subject, relation id)
  AdmissionScopes, \* the scopes admission_facts reads, in its order
  Foreign,       \* notifications another producer has already enqueued
  MaxTime,       \* bound: instants are 0..MaxTime
  MaxJobs,       \* bound: transactions begun
  MaxToggles,    \* bound: changes of an authority row
  MaxFaults,     \* bound: cancellations and lost commit replies
  Nil

Time == 0 .. MaxTime

Principals == {"operator", "alice"}

Assignments == {c.assignment : c \in Commands}

CommandIds == {c.id : c \in Commands}

\* A relation row in state Applied: its identity and its expiry policy.
Rows == [id : Assignments, until : Time \union {Nil}]

\* Event identities: the command's audit id, the session id, `expired-<id>`.
EventKeys ==
  [of : {"command"}, id : CommandIds] \union [of : {"session"}, id : Sessions]
  \union [of : {"expired"}, id : Assignments]

Events ==
  [kind : {"decision", "notification"}, key : EventKeys, about : Commands \union {Nil},
   at : Time, seen : SUBSET Scopes]

Receipts == [id : CommandIds, command : Commands, assignment : Assignments]

ASSUME ScopesAssumption == AdmissionScopes \in Seq(Scopes) \ {<<>>}
ASSUME CommandsAssumption ==
  \A c \in Commands :
    c.scope \in Scopes /\ c.at \in Time /\ c.until \in Time \union {Nil}
\* Keepsake generates an assignment's identity: commands under different ids
\* never create the same one.
ASSUME FreshAssignments ==
  \A c, d \in Commands : c.assignment = d.assignment => c.id = d.id
\* What another producer enqueues under a command's identity is not what
\* apply would enqueue.
ASSUME ForeignAssumption ==
  \A e \in Foreign : e \in Events /\ e.key.of = "command" /\ e.about = Nil
ASSUME ModelValues == /\ Nil \notin Workers /\ Nil \notin Jobs /\ Nil \notin Commands
                      /\ Nil \notin Rows
ASSUME BoundsAssumption ==
  MaxTime \in Nat /\ MaxJobs \in Nat /\ MaxToggles \in Nat /\ MaxFaults \in Nat
ASSUME JobsAssumption ==
  \A j \in Jobs :
    /\ j.op \in {"apply", "admit", "renew", "revoke"}
    /\ j.op \in {"apply", "renew"} => j.command \in Commands
    /\ j.op = "admit" => j.session \in Sessions /\ j.audit_denial \in BOOLEAN
    /\ j.op = "revoke" => j.scope \in Scopes
    /\ j.at \in Time \union {Nil} /\ (j.op = "renew" => j.at \in Time)

-----------------------------------------------------------------------------
VARIABLES
  \* committed rows
  enabled,       \* application_authorities
  relation,      \* the Applied row of each scope
  receipts,      \* application_actions
  sessions,      \* application_sessions
  events,        \* dovecote_events
  \* row locks
  shares,        \* FOR SHARE holders of each authority row
  locks,         \* holder of each relation scope
  \* open transactions
  phase, job,
  todo,          \* scopes still to observe
  seen,          \* facts found present
  draft,         \* uncommitted writes
  outcome,
  \* history and bounds
  told,          \* what callers have been told after a commit
  begun, toggles, faults

dbVars == <<enabled, relation, receipts, sessions, events>>
lockVars == <<shares, locks>>
txVars == <<phase, job, todo, seen, draft, outcome>>
bounds == <<begun, toggles, faults>>
vars == <<dbVars, lockVars, txVars, told, bounds>>

Phases ==
  {"idle", "auth", "expire", "observe", "receipt", "write", "audit", "notify",
   "decide", "revoke", "returned", "failed"}

NoOutcome == [is |-> "none", id |-> Nil]
Outcomes ==
  [is : {"none", "applied", "replayed", "denied", "admitted", "revoked", "conflict", "error"},
   id : Assignments \union {Nil}]

\* No change of a scope is Nil -> Nil; a scope outside the domain is untouched.
NoDraft == [relation |-> <<>>, receipts |-> {}, sessions |-> {}, events |-> {}]

RowChanges == UNION {[D -> Rows \union {Nil}] : D \in SUBSET Scopes}
Drafts ==
  [relation : RowChanges, receipts : SUBSET Receipts, sessions : SUBSET Sessions,
   events : SUBSET Events]

TypeOK ==
  /\ enabled \in [Principals -> BOOLEAN]
  /\ relation \in [Scopes -> Rows \union {Nil}]
  /\ receipts \subseteq Receipts
  /\ sessions \subseteq Sessions
  /\ events \subseteq Events
  /\ shares \in [Principals -> SUBSET Workers]
  /\ locks \in [Scopes -> Workers \union {Nil}]
  /\ phase \in [Workers -> Phases]
  /\ job \in [Workers -> Jobs \union {Nil}]
  /\ todo \in [Workers -> Seq(Scopes)]
  /\ seen \in [Workers -> SUBSET Scopes]
  /\ draft \in [Workers -> Drafts]
  /\ outcome \in [Workers -> Outcomes]
  /\ told \subseteq [job : Jobs, outcome : Outcomes]
  /\ begun \in 0 .. MaxJobs /\ toggles \in 0 .. MaxToggles /\ faults \in 0 .. MaxFaults

Init ==
  /\ enabled = [p \in Principals |-> TRUE]
  /\ relation = [s \in Scopes |-> Nil]
  /\ receipts = {} /\ sessions = {} /\ events = Foreign
  /\ shares = [p \in Principals |-> {}]
  /\ locks = [s \in Scopes |-> Nil]
  /\ phase = [w \in Workers |-> "idle"]
  /\ job = [w \in Workers |-> Nil]
  /\ todo = [w \in Workers |-> <<>>]
  /\ seen = [w \in Workers |-> {}]
  /\ draft = [w \in Workers |-> NoDraft]
  /\ outcome = [w \in Workers |-> NoOutcome]
  /\ told = {}
  /\ begun = 0 /\ toggles = 0 /\ faults = 0

-----------------------------------------------------------------------------
(***************************************************************************)
(* Statements.                                                             *)
(***************************************************************************)
\* What a statement of transaction w reads in a scope it has locked.
Visible(w, s) == IF s \in DOMAIN draft[w].relation THEN draft[w].relation[s] ELSE relation[s]

WithRow(d, s, row) ==
  [d EXCEPT !.relation = [x \in DOMAIN d.relation \union {s} |->
                            IF x = s THEN row ELSE d.relation[x]]]

Goto(w, p) == phase' = [phase EXCEPT ![w] = p]

Return(w, is, id) ==
  /\ Goto(w, IF is \in {"conflict", "error"} THEN "failed" ELSE "returned")
  /\ outcome' = [outcome EXCEPT ![w] = [is |-> is, id |-> id]]

\* Another transaction has written an event under the same identity and is
\* still open: the insert waits.
Awaited(w, e) ==
  \E v \in Workers \ {w} : \E f \in draft[v].events : f.kind = e.kind /\ f.key = e.key

Refused(e) == \E f \in events : f.kind = e.kind /\ f.key = e.key /\ f # e

Event(kind, of, id, about, at, facts) ==
  [kind |-> kind, key |-> [of |-> of, id |-> id], about |-> about, at |-> at, seen |-> facts]

\* record_decision_audit_in_transaction and outbox.enqueue of the events es:
\* wait, be refused with the whole transaction, or go on.
Waiting(w, es) == \E e \in es : Awaited(w, e)

Accepted(es) == \A e \in es : ~Refused(e)

Conflict(w) == Return(w, "conflict", Nil) /\ UNCHANGED draft

\* Slip: an absent scope has no row to lock.
LockScopeIfPresent(w, s) ==
  IF relation[s] = Nil THEN UNCHANGED locks
  ELSE locks[s] \in {Nil, w} /\ locks' = [locks EXCEPT ![s] = w]

\* observe_in_transaction
LockScope(w, s) ==
  /\ locks[s] \in {Nil, w}
  /\ locks' = [locks EXCEPT ![s] = w]

-----------------------------------------------------------------------------
(***************************************************************************)
(* Begin, and authenticate: SELECT enabled ... FOR SHARE.                  *)
(***************************************************************************)
Principal(j) == IF j.op = "admit" THEN "alice" ELSE "operator"

Begin(w, j) ==
  /\ phase[w] = "idle" /\ begun < MaxJobs
  /\ begun' = begun + 1
  /\ job' = [job EXCEPT ![w] = j]
  /\ Goto(w, IF j.op = "revoke" THEN "observe" ELSE "auth")
  /\ todo' = [todo EXCEPT ![w] =
       CASE j.op = "admit"  -> AdmissionScopes
         [] j.op = "revoke" -> <<j.scope>>
         [] OTHER           -> <<j.command.scope>>]
  /\ UNCHANGED <<dbVars, lockVars, seen, draft, outcome, told, toggles, faults>>

Admitting(w) ==
  \/ /\ enabled[Principal(job[w])]
     /\ Goto(w, IF job[w].op = "renew" THEN "expire" ELSE "observe")
     /\ UNCHANGED outcome
  \/ /\ ~enabled[Principal(job[w])]
     /\ Return(w, IF job[w].op = "renew" THEN "error" ELSE "denied", Nil)

\* Slip: the authority is read without FOR SHARE.
AuthenticateUnlocked(w) ==
  /\ phase[w] = "auth"
  /\ Admitting(w)
  /\ UNCHANGED <<dbVars, lockVars, job, todo, seen, draft, told, bounds>>

Authenticate(w) ==
  /\ phase[w] = "auth"
  /\ shares' = [shares EXCEPT ![Principal(job[w])] = @ \union {w}]
  /\ Admitting(w)
  /\ UNCHANGED <<dbVars, locks, job, todo, seen, draft, told, bounds>>

(***************************************************************************)
(* observe_in_transaction on the next scope; effective_presence for an     *)
(* admission.  Unknown or stale time is an error, never absence.           *)
(***************************************************************************)
Effective(row, at) == row # Nil /\ (row.until = Nil \/ at < row.until)

AfterObserve(j) ==
  CASE j.op = "admit"  -> "decide"
    [] j.op = "revoke" -> "revoke"
    [] OTHER           -> "receipt"

\* Slip: the scopes are visited in no particular order.
ObserveAnyOrder(w) ==
  /\ phase[w] = "observe"
  /\ \E i \in DOMAIN todo[w] :
       LET s == todo[w][i]
           rest == SelectSeq(todo[w], LAMBDA x : x # s)
       IN  /\ LockScope(w, s)
           /\ todo' = [todo EXCEPT ![w] = rest]
           /\ Goto(w, IF rest = <<>> THEN AfterObserve(job[w]) ELSE "observe")
           /\ seen' = [seen EXCEPT ![w] =
                IF Effective(Visible(w, s), 0) THEN @ \union {s} ELSE @]
  /\ UNCHANGED <<dbVars, shares, job, draft, outcome, told, bounds>>

Observe(w) ==
  /\ phase[w] = "observe"
  /\ LET s == Head(todo[w])
         timeless == job[w].op = "admit" /\ job[w].at = Nil
     IN  /\ LockScope(w, s)
         /\ todo' = [todo EXCEPT ![w] = Tail(@)]
         /\ \/ timeless /\ Return(w, "error", Nil) /\ UNCHANGED seen
            \/ /\ ~timeless
               /\ Goto(w, IF Len(todo[w]) = 1 THEN AfterObserve(job[w]) ELSE "observe")
               /\ seen' = [seen EXCEPT ![w] =
                    IF job[w].op = "admit" /\ Effective(Visible(w, s), job[w].at)
                    THEN @ \union {s} ELSE @]
               /\ UNCHANGED outcome
  /\ UNCHANGED <<dbVars, shares, job, draft, told, bounds>>

-----------------------------------------------------------------------------
(***************************************************************************)
(* apply: the receipt, then relation, receipt row, audit, notification.    *)
(***************************************************************************)
\* SELECT ... FOR UPDATE.  The scope lock is already held, so a committed
\* first attempt of the same command is visible here.  No statement changes a
\* receipt, so the row lock only delays.
Receipt(w) ==
  /\ phase[w] = "receipt"
  /\ LET c == job[w].command
         old == {r \in receipts : r.id = c.id}
     IN  \/ old = {} /\ Goto(w, "write") /\ UNCHANGED outcome
         \/ \E r \in old : r.command = c /\ Return(w, "replayed", r.assignment)
         \/ \E r \in old : r.command # c /\ Return(w, "conflict", Nil)
  /\ UNCHANGED <<dbVars, lockVars, job, todo, seen, draft, told, bounds>>

NewRow(c) == [id |-> c.assignment, until |-> c.until]

\* apply_if_current_in_transaction and INSERT INTO application_actions.  A
\* scope that still has an Applied row keeps it (duplicate_prevented).  The
\* insert waits for an open transaction that has inserted the same id, and a
\* committed one violates the primary key.
Write(w) ==
  /\ phase[w] = "write"
  /\ LET c == job[w].command
         row == IF Visible(w, c.scope) = Nil THEN NewRow(c) ELSE Visible(w, c.scope)
     IN  /\ \A v \in Workers \ {w} : \A r \in draft[v].receipts : r.id # c.id
         /\ \/ (\E r \in receipts : r.id = c.id) /\ Conflict(w)
            \/ /\ \A r \in receipts : r.id # c.id
               /\ draft' = [draft EXCEPT ![w] =
                    [WithRow(@, c.scope, row) EXCEPT
                      !.receipts = {[id |-> c.id, command |-> c, assignment |-> row.id]}]]
               /\ Goto(w, "audit")
               /\ UNCHANGED outcome
  /\ UNCHANGED <<dbVars, lockVars, job, todo, seen, told, bounds>>

CommandEvent(kind, c) == Event(kind, "command", c.id, c, c.at, {})

Audit(w) ==
  /\ phase[w] = "audit"
  /\ LET es == {CommandEvent("decision", job[w].command)}
     IN  /\ ~Waiting(w, es)
         /\ \/ ~Accepted(es) /\ Conflict(w)
            \/ /\ Accepted(es)
               /\ draft' = [draft EXCEPT ![w].events = @ \union es]
               /\ Goto(w, "notify")
               /\ UNCHANGED outcome
  /\ UNCHANGED <<dbVars, lockVars, job, todo, seen, told, bounds>>

\* Slip: the notification goes through the pool, not the transaction.
NotifyOutside(w) ==
  /\ phase[w] = "notify"
  /\ events' = events \union {CommandEvent("notification", job[w].command)}
  /\ \E r \in draft[w].receipts : Return(w, "applied", r.assignment)
  /\ UNCHANGED <<enabled, relation, receipts, sessions, lockVars, job, todo, seen, draft, told, bounds>>

\* Slip: the caller is told the identity it asked for, not the one in place.
NotifyRequested(w) ==
  /\ phase[w] = "notify"
  /\ draft' = [draft EXCEPT ![w].events = @ \union {CommandEvent("notification", job[w].command)}]
  /\ Return(w, "applied", job[w].command.assignment)
  /\ UNCHANGED <<dbVars, lockVars, job, todo, seen, told, bounds>>

Notify(w) ==
  /\ phase[w] = "notify"
  /\ LET es == {CommandEvent("notification", job[w].command)}
     IN  /\ ~Waiting(w, es)
         /\ \/ ~Accepted(es) /\ Conflict(w)
            \/ /\ Accepted(es)
               /\ draft' = [draft EXCEPT ![w].events = @ \union es]
               /\ \E r \in draft[w].receipts : Return(w, "applied", r.assignment)
  /\ UNCHANGED <<dbVars, lockVars, job, todo, seen, told, bounds>>

(***************************************************************************)
(* admit, after its facts: evaluate Not(Any(..)), audit a permit and, if   *)
(* asked for, a denial; a permit inserts the session.                      *)
(***************************************************************************)
Permits(facts) == facts = {}

Decide(w) ==
  /\ phase[w] = "decide"
  /\ LET j == job[w]
         permit == Permits(seen[w])
         es == IF permit \/ j.audit_denial
               THEN {Event("decision", "session", j.session, Nil, j.at, seen[w])} ELSE {}
     IN  /\ ~Waiting(w, es)
         /\ \/ ~Accepted(es) /\ Conflict(w)
            \/ /\ Accepted(es)
               /\ draft' = [draft EXCEPT ![w].events = es,
                                         ![w].sessions = IF permit THEN {j.session} ELSE {}]
               /\ Return(w, IF permit THEN "admitted" ELSE "denied", Nil)
  /\ UNCHANGED <<dbVars, lockVars, job, todo, seen, told, bounds>>

(***************************************************************************)
(* stage: expire_due_timed_in_transaction and, per expired assignment, its *)
(* audit and notification; the caller then applies the replacement.        *)
(***************************************************************************)
Due(w) ==
  {s \in Scopes : relation[s] # Nil /\ relation[s].until # Nil /\ relation[s].until <= job[w].at}

\* Slip: the expiry is audited but not notified.
ExpiryAudits(w, ids) == {Event("decision", "expired", id, Nil, job[w].at, {}) : id \in ids}

ExpiryEvents(w, ids) ==
  {Event(kind, "expired", id, Nil, job[w].at, {}) :
     kind \in {"decision", "notification"}, id \in ids}

Stage(w) ==
  /\ phase[w] = "expire"
  /\ \A s \in Due(w) : locks[s] \in {Nil, w}
  /\ locks' = [s \in Scopes |-> IF s \in Due(w) THEN w ELSE locks[s]]
  /\ LET es == ExpiryEvents(w, {relation[s].id : s \in Due(w)})
     IN  /\ ~Waiting(w, es)
         /\ \/ ~Accepted(es) /\ Conflict(w)
            \/ /\ Accepted(es)
               /\ draft' = [draft EXCEPT ![w].relation = [s \in Due(w) |-> Nil],
                                         ![w].events = es]
               /\ Goto(w, "observe")
               /\ UNCHANGED outcome
  /\ UNCHANGED <<dbVars, shares, job, todo, seen, told, bounds>>

\* revoke_if_current_in_transaction on the observed assignment.
Revoke(w) ==
  /\ phase[w] = "revoke"
  /\ LET s == job[w].scope
     IN  \/ /\ relation[s] = Nil /\ Return(w, "error", Nil)
            /\ UNCHANGED draft
         \/ /\ relation[s] # Nil
            /\ draft' = [draft EXCEPT ![w] = WithRow(@, s, Nil)]
            /\ Return(w, "revoked", relation[s].id)
  /\ UNCHANGED <<dbVars, lockVars, job, todo, seen, told, bounds>>

-----------------------------------------------------------------------------
(***************************************************************************)
(* The end of a transaction.                                               *)
(***************************************************************************)
Release(w) ==
  /\ shares' = [p \in Principals |-> shares[p] \ {w}]
  /\ locks' = [s \in Scopes |-> IF locks[s] = w THEN Nil ELSE locks[s]]
  /\ phase' = [phase EXCEPT ![w] = "idle"]
  /\ job' = [job EXCEPT ![w] = Nil]
  /\ todo' = [todo EXCEPT ![w] = <<>>]
  /\ seen' = [seen EXCEPT ![w] = {}]
  /\ draft' = [draft EXCEPT ![w] = NoDraft]
  /\ outcome' = [outcome EXCEPT ![w] = NoOutcome]

ApplyDraft(w) ==
  /\ relation' = [s \in Scopes |-> Visible(w, s)]
  /\ receipts' = receipts \union draft[w].receipts
  /\ sessions' = sessions \union draft[w].sessions
  /\ events' = events \union draft[w].events

Commit(w) ==
  /\ phase[w] = "returned"
  /\ ApplyDraft(w)
  /\ told' = told \union {[job |-> job[w], outcome |-> outcome[w]]}
  /\ Release(w)
  /\ UNCHANGED <<enabled, bounds>>

\* Every error requires the caller to roll back.
Rollback(w) ==
  /\ phase[w] = "failed"
  /\ Release(w)
  /\ UNCHANGED <<dbVars, told, bounds>>

\* A cancelled or crashed caller: rolled back at any statement, or committed
\* with its reply lost.
Lose(w) ==
  /\ phase[w] # "idle" /\ faults < MaxFaults
  /\ faults' = faults + 1
  /\ \/ UNCHANGED dbVars
     \/ phase[w] = "returned" /\ ApplyDraft(w) /\ UNCHANGED enabled
  /\ Release(w)
  /\ UNCHANGED <<told, begun, toggles>>

\* UPDATE application_authorities waits for the FOR SHARE holders.
SetAuthority(p, value) ==
  /\ shares[p] = {} /\ enabled[p] # value /\ toggles < MaxToggles
  /\ enabled' = [enabled EXCEPT ![p] = value]
  /\ toggles' = toggles + 1
  /\ UNCHANGED <<relation, receipts, sessions, events, lockVars, txVars, told, begun, faults>>

-----------------------------------------------------------------------------
Step(w) ==
  \/ Authenticate(w) \/ Observe(w) \/ Receipt(w) \/ Write(w) \/ Audit(w) \/ Notify(w)
  \/ Decide(w) \/ Stage(w) \/ Revoke(w) \/ Commit(w) \/ Rollback(w)

Next ==
  \/ \E w \in Workers : (\E j \in Jobs : Begin(w, j)) \/ Step(w) \/ Lose(w)
  \/ \E p \in Principals, value \in BOOLEAN : SetAuthority(p, value)

Spec == Init /\ [][Next]_vars

\* An open transaction issues its next statement once its locks are free.
Fairness == \A w \in Workers : WF_vars(Step(w))

FairSpec == Spec /\ Fairness

-----------------------------------------------------------------------------
\* The identities of committed events of one kind about commands or expiries.
Noted(kind, of) == {e.key.id : e \in {f \in events \ Foreign : f.kind = kind /\ f.key.of = of}}

\* README: "share one PostgreSQL transaction".  Whatever fails, is cancelled
\* or loses its reply, a command has a receipt exactly if it has its decision
\* audit and its notification; a session row exactly if its permit was
\* audited; an expiry its audit and its notification together; and every
\* active assignment is the one a receipt for its scope names
\* (Consumer::apply, admit, stage).
CommitIsWhole ==
  /\ {r.id : r \in receipts} = Noted("decision", "command")
  /\ {r.id : r \in receipts} = Noted("notification", "command")
  /\ sessions = {e.key.id : e \in {f \in events : f.key.of = "session" /\ Permits(f.seen)}}
  /\ Noted("decision", "expired") = Noted("notification", "expired")
  /\ \A s \in Scopes : relation[s] # Nil =>
       /\ relation[s].id \notin Noted("decision", "expired")
       /\ \E r \in receipts : r.command.scope = s /\ r.assignment = relation[s].id

\* A command that is submitted again never fails on its own first attempt,
\* concurrent or committed with a lost reply: a conflict means that the id
\* was used for another command, or its notification by another producer.
\* It depends on the receipt being read after the scope lock.  And all answers
\* to one command name the same assignment, whatever was revoked, expired or
\* renewed between them (Consumer::apply).
RetryIsReplayed ==
  /\ \A w \in Workers :
       (phase[w] = "failed" /\ outcome[w].is = "conflict" /\ job[w].op \in {"apply", "renew"}) =>
         \/ \E r \in receipts : r.id = job[w].command.id /\ r.command # job[w].command
         \/ \E e \in Foreign : e.key = [of |-> "command", id |-> job[w].command.id]
  /\ \A x, y \in told :
       (/\ {x.outcome.is, y.outcome.is} \subseteq {"applied", "replayed"}
        /\ x.job.command = y.job.command) => x.outcome.id = y.outcome.id

\* "Current authority is locked BEFORE any old operation receipt is read": a
\* transaction that has gone past authenticate keeps its authority enabled to
\* its end, so no receipt, session or expiry is committed or disclosed for a
\* principal whose authority has been revoked (authenticate).
AuthorityHolds ==
  \A w \in Workers :
    (job[w] # Nil /\ outcome[w].is \in {"applied", "replayed", "admitted"}) =>
      enabled[Principal(job[w])]

\* A session is admitted only if, in the state it commits to, no scope of the
\* admission policy is effectively present at the observation time: a block
\* that races an absent observation waits (admission_facts, absent_race).
AdmittedUnblocked ==
  \A w \in Workers :
    (outcome[w].is = "admitted") =>
      \A i \in DOMAIN AdmissionScopes : ~Effective(relation[AdmissionScopes[i]], job[w].at)

\* Every transaction ends: no two workers wait for each other's scopes, with
\* admissions that lock three scopes beside renewals and single commands.
TransactionEnds == \A w \in Workers : phase[w] # "idle" ~> phase[w] = "idle"

=============================================================================
