----------------------------- MODULE Authorizer -----------------------------
(***************************************************************************)
(* gatekeep::Authorizer: resolve, evaluate, audit, return.                 *)
(*                                                                         *)
(* Several requests run concurrently against one clock and one audit sink. *)
(* A request is one call of authorize, authorize_policy,                   *)
(* authorize_resource, prepare or prepare_resolution (with the caller's    *)
(* persist_pending), or authorize_recording_attempts.                      *)
(* Every await of the code is a point where other requests, the clock and  *)
(* failures interleave; the code between two awaits is one action, split   *)
(* where it reads the clock twice.                                         *)
(*                                                                         *)
(* Module Assembly has what a decision is made of.  The resolver is        *)
(* external: it may answer with any well-formed FactResolution, at any     *)
(* time, or fail.                                                          *)
(***************************************************************************)
EXTENDS Assembly

CONSTANTS
  Calls,         \* the calls a request may make
  Resolutions,   \* what the resolver may answer
  MaxRuns,       \* bound: times a caller issues one request
  MaxFaults      \* bound: sink failures and dropped futures

Requests == Writers

Ops ==
  {"authorize", "authorize_policy", "authorize_resource", "prepare",
   "prepare_resolution", "recording"}

\* DecisionAuditId::generate yields a fresh identity; `run` and `use` name
\* the one generate call it comes from.  owner = Nil: chosen by the caller.
AuditIds == [owner : Requests \union {Nil}, run : Nat, use : {"decision", "attempt"}]

Occurrences == [id : AuditIds, at : Time]

\* An identity the application supplies is never one Gatekeep generates.
AllCalls ==
  [op : Ops, policy : Policies, tenant : Tenants, binding : Bindings,
   occurrence : [id : [owner : {Nil}, run : Nat, use : {"decision"}], at : Time] \union {Nil}]

Failures == {"resolution", "trace", "evidence"}

EventOf(kind, Outcomes, Evidence) ==
  [kind : {kind}, tenant : Tenants, id : AuditIds, at : Time, policy : Policies,
   binding : Bindings, outcome : Outcomes, evidence : Evidence]

Events ==
  EventOf("decision", Decisions, Resolutions) \union EventOf("attempt", Failures, {Nil})

Errors ==
  {"none", "context", "policy_hash", "resolve", "evidence", "trace",
   "occurrence", "audit", "dropped"}

\* What the caller has in hand: a decision and its occurrence, or an error.
\* "failed" is AuthorizationError, or AttemptAuthorizationError::Authorization
\* under `recording`; "persistence" retains the frozen attempt.
Answers ==
  [status : {"none", "decided", "failed", "unscoped", "persistence"},
   error : Errors, outcome : Decisions \union {Nil}, id : AuditIds \union {Nil}]

ASSUME ModelValues == /\ Nil \notin Time
                      /\ Nil \notin Requests
                      /\ Nil \notin Decisions
                      /\ Nil \notin Calls
                      /\ Nil \notin Resolutions /\ Nil \notin Events
                      /\ Decisions \intersect Failures = {}
ASSUME BoundsAssumption == MaxRuns \in Nat /\ MaxFaults \in Nat
ASSUME CallsAssumption == Calls \subseteq AllCalls /\ \A c \in Calls : WellFormedCall(c)
ASSUME ResolutionsAssumption ==
  Resolutions \subseteq AllResolutions /\ \A res \in Resolutions : WellFormedResolution(res)

-----------------------------------------------------------------------------
VARIABLES
  now,           \* the application clock; a wall clock may also step back
  pc, call, runs,
  resolution,    \* the resolver's answer, from receipt to stamping
  received,      \* history: the receipt time the answer was judged at
  frozen,        \* the immutable event of the PendingDecision or attempt
  answer,
  observed,      \* summaries handed to the PolicyObserver
  faults

reqVars == <<pc, call, runs, resolution, received, frozen, answer>>
vars == <<now, reqVars, observed, faults, store, txn>>

PCs == {"idle", "resolving", "stamping", "held", "recording", "recorded", "attempting", "done"}

NoAnswer == [status |-> "none", error |-> "none", outcome |-> Nil, id |-> Nil]

TypeOK ==
  /\ now \in Time
  /\ pc \in [Requests -> PCs]
  /\ call \in [Requests -> Calls \union {Nil}]
  /\ runs \in [Requests -> Nat]
  /\ resolution \in [Requests -> Resolutions \union {Nil}]
  /\ received \in [Requests -> Time]
  /\ frozen \in [Requests -> Events \union {Nil}]
  /\ answer \in [Requests -> Answers]
  /\ observed \subseteq Events
  /\ faults \in Nat
  /\ SinkTypeOK(Events)

Init ==
  /\ now = 0
  /\ pc = [r \in Requests |-> "idle"]
  /\ call = [r \in Requests |-> Nil]
  /\ runs = [r \in Requests |-> 0]
  /\ resolution = [r \in Requests |-> Nil]
  /\ received = [r \in Requests |-> 0]
  /\ frozen = [r \in Requests |-> Nil]
  /\ answer = [r \in Requests |-> NoAnswer]
  /\ observed = {}
  /\ faults = 0
  /\ SinkInit

-----------------------------------------------------------------------------
\* The operations that hand a PendingDecision to the caller.
Prepares(c) == c.op \in {"prepare", "prepare_resolution"}

(***************************************************************************)
(* Every error return.  authorize_recording_attempts intercepts all but    *)
(* Audit and Occurrence errors and goes on to record an attempt.           *)
(***************************************************************************)
\* Slip: an ambiguous decision write is also followed by an attempt.
InterceptedAlways(c, err) == c.op = "recording" /\ err \notin {"occurrence", "dropped"}

Intercepted(c, err) == c.op = "recording" /\ err \notin {"audit", "occurrence", "dropped"}

Failed(err, id) == [status |-> "failed", error |-> err, outcome |-> Nil, id |-> id]

Fail(r, c, err) ==
  /\ pc' = [pc EXCEPT ![r] = IF Intercepted(c, err) THEN "attempting" ELSE "done"]
  /\ answer' = [answer EXCEPT ![r] = Failed(err, Nil)]
  /\ resolution' = [resolution EXCEPT ![r] = Nil]

(***************************************************************************)
(* The call and its work before the first await.  prepare_resolution is    *)
(* handed the facts its caller read in a transaction of its own, and       *)
(* validates nothing before it has them.                                   *)
(***************************************************************************)
Admitted(c, t) == c.op = "prepare_resolution" \/ ContextValidAt(c, t)

Enter(r, c) ==
  /\ \/ /\ Admitted(c, now)
        /\ pc' = [pc EXCEPT ![r] = "resolving"]
        /\ answer' = [answer EXCEPT ![r] = NoAnswer]
        /\ UNCHANGED resolution
     \/ ~Admitted(c, now) /\ Fail(r, c, "context")
     \/ Admitted(c, now) /\ ~Checked(c) /\ Fail(r, c, "policy_hash")
  /\ call' = [call EXCEPT ![r] = c]
  /\ runs' = [runs EXCEPT ![r] = @ + 1]
  /\ frozen' = [frozen EXCEPT ![r] = Nil]
  /\ UNCHANGED <<now, received, observed, faults, sinkVars>>

Invoke(r, c) == pc[r] = "idle" /\ runs[r] < MaxRuns /\ Enter(r, c)

\* The caller issues the same call again, with the same Context, after an
\* audit error or a cancelled call.
Reinvoke(r) ==
  /\ pc[r] = "done" /\ answer[r].error \in {"audit", "dropped"}
  /\ runs[r] < MaxRuns
  /\ Enter(r, call[r])

-----------------------------------------------------------------------------
(***************************************************************************)
(* resolve_for_decision returns; assemble up to the evidence.              *)
(***************************************************************************)
ResolverFails(r) ==
  /\ pc[r] = "resolving"
  /\ Fail(r, call[r], "resolve")
  /\ UNCHANGED <<now, call, runs, received, frozen, observed, faults, sinkVars>>

\* Slip: the context is not validated again after the resolver's await.
ReceiveUnvalidated(r, res) ==
  /\ pc[r] = "resolving"
  /\ \/ /\ ~(ResolutionValidAt(res, now) /\ Complete(call[r], res))
        /\ Fail(r, call[r], "resolve")
     \/ /\ ResolutionValidAt(res, now) /\ Complete(call[r], res)
        /\ pc' = [pc EXCEPT ![r] = "stamping"]
        /\ resolution' = [resolution EXCEPT ![r] = res]
        /\ UNCHANGED answer
  /\ received' = [received EXCEPT ![r] = now]
  /\ UNCHANGED <<now, call, runs, frozen, observed, faults, sinkVars>>

Receive(r, res) ==
  /\ pc[r] = "resolving"
  /\ \/ ~ContextValidAt(call[r], now) /\ Fail(r, call[r], "context")
     \/ /\ ContextValidAt(call[r], now)
        /\ ~(ResolutionValidAt(res, now) /\ Complete(call[r], res))
        /\ Fail(r, call[r], "resolve")
     \/ /\ ContextValidAt(call[r], now)
        /\ ResolutionValidAt(res, now) /\ Complete(call[r], res)
        /\ pc' = [pc EXCEPT ![r] = "stamping"]
        /\ resolution' = [resolution EXCEPT ![r] = res]
        /\ UNCHANGED answer
  /\ received' = [received EXCEPT ![r] = now]
  /\ UNCHANGED <<now, call, runs, frozen, observed, faults, sinkVars>>

\* Serialising the evidence or the trace, or a clock reading outside the
\* portable range, can fail.
AssembleFails(r, err) ==
  /\ pc[r] = "stamping"
  /\ err = "occurrence" => call[r].occurrence = Nil
  /\ Fail(r, call[r], err)
  /\ UNCHANGED <<now, call, runs, received, frozen, observed, faults, sinkVars>>

(***************************************************************************)
(* The rest of assemble: evaluate, then the caller's occurrence or a fresh *)
(* one at a second clock reading, and the frozen AuditEntry.               *)
(***************************************************************************)
\* Slip: the identity is derived from the request and survives re-evaluation.
GenerateOnce(r, use) == [owner |-> r, run |-> 0, use |-> use]

Generate(r, use) == [owner |-> r, run |-> runs[r], use |-> use]

Occurrence(r) ==
  IF call[r].occurrence # Nil THEN call[r].occurrence
  ELSE [id |-> Generate(r, "decision"), at |-> now]

\* Slip: the observer runs when the decision is frozen.
StampAndObserve(r) ==
  /\ pc[r] = "stamping"
  /\ frozen' = [frozen EXCEPT ![r] = FromDecision(call[r], Occurrence(r), resolution[r])]
  /\ observed' = observed \union {frozen'[r]}
  /\ resolution' = [resolution EXCEPT ![r] = Nil]
  /\ pc' = [pc EXCEPT ![r] = IF Prepares(call[r]) THEN "held" ELSE "recording"]
  /\ UNCHANGED <<now, call, runs, received, answer, faults, sinkVars>>

Stamp(r) ==
  /\ pc[r] = "stamping"
  /\ frozen' = [frozen EXCEPT ![r] = FromDecision(call[r], Occurrence(r), resolution[r])]
  /\ resolution' = [resolution EXCEPT ![r] = Nil]
  /\ pc' = [pc EXCEPT ![r] = IF Prepares(call[r]) THEN "held" ELSE "recording"]
  /\ UNCHANGED <<now, call, runs, received, answer, observed, faults, sinkVars>>

(***************************************************************************)
(* The attempt record after an intercepted error.  A context that is no    *)
(* longer valid, or a clock reading outside the portable range, leaves it  *)
(* without a scope.                                                        *)
(***************************************************************************)
\* Slip: the attempt keeps the error itself instead of its stage.
AttemptFailureRaw(err) == err

AttemptFailure(err) ==
  CASE err = "resolve" -> "resolution"
    [] err = "trace"   -> "trace"
    [] OTHER           -> "evidence"

NewAttempt(r) ==
  [kind |-> "attempt", tenant |-> call[r].tenant, id |-> Generate(r, "attempt"),
   at |-> now, policy |-> call[r].policy, binding |-> call[r].binding,
   outcome |-> AttemptFailure(answer[r].error), evidence |-> Nil]

Attempt(r) ==
  /\ pc[r] = "attempting"
  /\ \/ /\ ContextValidAt(call[r], now)
        /\ frozen' = [frozen EXCEPT ![r] = NewAttempt(r)]
        /\ pc' = [pc EXCEPT ![r] = "recording"]
        /\ UNCHANGED answer
     \/ /\ answer' = [answer EXCEPT ![r].status = "unscoped"]
        /\ pc' = [pc EXCEPT ![r] = "done"]
        /\ UNCHANGED frozen
  /\ UNCHANGED <<now, call, runs, resolution, received, observed, faults, sinkVars>>

-----------------------------------------------------------------------------
(***************************************************************************)
(* record(): the frozen event goes through a sink-owned transaction.       *)
(***************************************************************************)
\* The caller of prepare persists, or retries, the event it holds.
PersistPending(r) ==
  /\ pc[r] = "held"
  /\ pc' = [pc EXCEPT ![r] = "recording"]
  /\ UNCHANGED <<now, call, runs, resolution, received, frozen, answer, observed, faults, sinkVars>>

\* The caller records again the attempt that Persistence handed back.
RetryAttempt(r) ==
  /\ pc[r] = "done" /\ answer[r].status = "persistence"
  /\ pc' = [pc EXCEPT ![r] = "recording"]
  /\ UNCHANGED <<now, call, runs, resolution, received, frozen, answer, observed, faults, sinkVars>>

RecordBegin(r) ==
  pc[r] = "recording" /\ Begin(r) /\ UNCHANGED <<now, reqVars, observed, faults>>

RecordEnqueue(r) ==
  pc[r] = "recording" /\ Enqueue(r, frozen[r]) /\ UNCHANGED <<now, reqVars, observed, faults>>

RecordCommit(r) ==
  /\ pc[r] = "recording"
  /\ Commit(r)
  /\ pc' = [pc EXCEPT ![r] = "recorded"]
  /\ UNCHANGED <<now, call, runs, resolution, received, frozen, answer, observed, faults>>

\* Slip: the result of recording the attempt is discarded.
SinkErrorDiscarded(r) ==
  /\ pc' = [pc EXCEPT ![r] = IF Prepares(call[r]) THEN "held" ELSE "done"]
  /\ answer' = [answer EXCEPT ![r] =
       IF frozen[r].kind = "attempt" THEN [@ EXCEPT !.status = "failed"] ELSE Failed("audit", Nil)]
  /\ frozen' = [frozen EXCEPT ![r] = IF Prepares(call[r]) THEN @ ELSE Nil]

\* What an Err of the sink means to each caller: persist_pending leaves the
\* event with its holder, authorize maps it to Audit, and an attempt comes
\* back inside Persistence.
SinkError(r) ==
  IF frozen[r].kind = "attempt"
  THEN /\ pc' = [pc EXCEPT ![r] = "done"]
       /\ answer' = [answer EXCEPT ![r].status = "persistence"]
       /\ UNCHANGED frozen
  ELSE IF Prepares(call[r])
  THEN /\ pc' = [pc EXCEPT ![r] = "held"]
       /\ answer' = [answer EXCEPT ![r] = Failed("audit", Nil)]
       /\ UNCHANGED frozen
  ELSE /\ pc' = [pc EXCEPT ![r] = IF Intercepted(call[r], "audit") THEN "attempting" ELSE "done"]
       /\ answer' = [answer EXCEPT ![r] = Failed("audit", frozen[r].id)]
       /\ frozen' = [frozen EXCEPT ![r] = Nil]

\* Slip: a refused identity is taken for an event that is already stored.
RecordConflictIgnored(r) ==
  /\ pc[r] = "recording"
  /\ EnqueueConflict(r, frozen[r])
  /\ pc' = [pc EXCEPT ![r] = "recorded"]
  /\ UNCHANGED <<now, call, runs, resolution, received, frozen, answer, observed, faults>>

RecordConflict(r) ==
  /\ pc[r] = "recording"
  /\ EnqueueConflict(r, frozen[r])
  /\ SinkError(r)
  /\ UNCHANGED <<now, call, runs, resolution, received, observed, faults>>

RecordFails(r) ==
  /\ pc[r] = "recording" /\ faults < MaxFaults
  /\ LostReply(r)
  /\ SinkError(r)
  /\ faults' = faults + 1
  /\ UNCHANGED <<now, call, runs, resolution, received, observed>>

(***************************************************************************)
(* record() returned Ok: the observer runs and the decision leaves; an     *)
(* attempt's caller gets the original error back.                          *)
(***************************************************************************)
Decided(e) == [status |-> "decided", error |-> "none", outcome |-> e.outcome, id |-> e.id]

Finish(r) ==
  /\ pc[r] = "recorded"
  /\ pc' = [pc EXCEPT ![r] = "done"]
  /\ IF frozen[r].kind = "decision"
     THEN /\ observed' = observed \union {frozen[r]}
          /\ answer' = [answer EXCEPT ![r] = Decided(frozen[r])]
     ELSE /\ answer' = [answer EXCEPT ![r].status = "failed"]
          /\ UNCHANGED observed
  /\ UNCHANGED <<now, call, runs, resolution, received, frozen, faults, sinkVars>>

(***************************************************************************)
(* The future is dropped at an await (timeout, disconnect, shutdown).  The *)
(* holder of a PendingDecision still has it: persist_pending borrows it.   *)
(***************************************************************************)
StillHeld(r) == Prepares(call[r]) /\ frozen[r] # Nil

Drop(r) ==
  /\ pc[r] \in {"resolving", "recording", "recorded"} /\ faults < MaxFaults
  /\ faults' = faults + 1
  /\ LostReply(r)
  /\ pc' = [pc EXCEPT ![r] = IF StillHeld(r) THEN "held" ELSE "done"]
  /\ frozen' = [frozen EXCEPT ![r] = IF StillHeld(r) THEN @ ELSE Nil]
  /\ answer' = [answer EXCEPT ![r] = Failed("dropped", Nil)]
  /\ UNCHANGED <<now, call, runs, resolution, received, observed>>

ClockStep(t) ==
  /\ now' = t
  /\ UNCHANGED <<reqVars, observed, faults, sinkVars>>

-----------------------------------------------------------------------------
Step(r) ==
  \/ ResolverFails(r) \/ \E res \in Resolutions : Receive(r, res)
  \/ \E err \in {"evidence", "trace", "occurrence"} : AssembleFails(r, err)
  \/ Stamp(r) \/ Attempt(r)
  \/ RecordBegin(r) \/ RecordEnqueue(r) \/ RecordCommit(r) \/ RecordConflict(r)
  \/ Finish(r)

Next ==
  \/ \E r \in Requests :
       \/ \E c \in Calls : Invoke(r, c)
       \/ Reinvoke(r) \/ PersistPending(r) \/ RetryAttempt(r)
       \/ Step(r) \/ RecordFails(r) \/ Drop(r)
  \/ \E t \in Time : ClockStep(t)

Spec == Init /\ [][Next]_vars

(***************************************************************************)
(* A polled future makes progress; the caller that holds a frozen event    *)
(* keeps submitting it.  Nothing is assumed of the clock, of new calls, of *)
(* failures or of drops.                                                   *)
(***************************************************************************)
Fairness ==
  \A r \in Requests : WF_vars(Step(r)) /\ WF_vars(PersistPending(r))

FairSpec == Spec /\ Fairness

-----------------------------------------------------------------------------
(***************************************************************************)
(* Safety.                                                                 *)
(***************************************************************************)
\* A decision leaves authorize or persist_pending only if exactly that
\* decision is durable under the returned occurrence, in the caller's tenant
\* and for the policy it asked about, through lost replies, retries and
\* other writers (persist_pending).
ReturnedIsDurable ==
  \A r \in Requests : answer[r].status = "decided" =>
    \E e \in store :
      /\ e.kind = "decision" /\ e.id = answer[r].id /\ e.outcome = answer[r].outcome
      /\ e.tenant = call[r].tenant /\ e.policy = call[r].policy

\* The observer never reports a decision that has not been persisted
\* (with_observer, persist_pending).
ObservedIsDurable == observed \subseteq store

\* A decision that can still be persisted or has been returned was evaluated
\* under a binding and observations that were valid at the moment of receipt,
\* even if they were valid only before the resolver's await, and on checked
\* paths over every required fact (assemble).
JudgedAtReceipt ==
  \A r \in Requests : (frozen[r] # Nil /\ frozen[r].kind = "decision") =>
    /\ BindingValidAt(frozen[r].binding, received[r])
    /\ ResolutionValidAt(frozen[r].evidence, received[r])
    /\ Complete(call[r], frozen[r].evidence)

\* An event frozen under a generated identity is never refused by what is
\* stored: after any ambiguous failure, submitting it again is accepted
\* (prepare, persist_pending, AttemptAuthorizationError::Persistence).
FrozenNeverConflicts ==
  \A r \in Requests : (frozen[r] # Nil /\ frozen[r].id.owner # Nil) =>
    (Stored(frozen[r]) => frozen[r] \in store)

\* No call leaves both a decision and a failed attempt: an attempt stands for
\* "no decision was made", so it must not follow a decision write whose
\* reply was lost (authorize_recording_attempts).
AttemptExcludesDecision ==
  \A e, f \in store : (e.kind = "decision" /\ f.kind = "attempt") =>
    ~(e.id.owner = f.id.owner /\ e.id.run = f.id.run)

\* authorize_recording_attempts returns the plain authorization error only
\* when its attempt is durable in the caller's tenant.
FailureIsRecorded ==
  \A r \in Requests :
    (/\ pc[r] = "done" /\ answer[r].status = "failed"
     /\ Intercepted(call[r], answer[r].error)) =>
      \E e \in store :
        /\ e.kind = "attempt" /\ e.id = Generate(r, "attempt")
        /\ e.tenant = call[r].tenant /\ e.outcome = AttemptFailure(answer[r].error)

(***************************************************************************)
(* PreparedPolicy::replay over the observations an entry retains.          *)
(***************************************************************************)
Replayable(e) == Required[e.policy] \subseteq {o.fact : o \in e.evidence.observations}

\* Slip: an observation counts as presence of its fact.
ReplayBlind(e) == Decide[e.policy][{o.fact : o \in e.evidence.observations}]

Replay(e) == Decide[e.policy][{o.fact : o \in {p \in e.evidence.observations : p.value}}]

\* Replaying a durable decision from its retained observations alone gives
\* the decision that was recorded, although evaluation saw more facts.
ReplayAgrees ==
  \A e \in store : (e.kind = "decision" /\ Replayable(e)) => Replay(e) = e.outcome

(***************************************************************************)
(* What docs/guides/axum-authorization.md says of a caller-supplied        *)
(* occurrence: a caller that may retry an ambiguous write can supply the   *)
(* same DecisionAuditOccurrence.  The retried event is then accepted.      *)
(***************************************************************************)
SuppliedRetryAccepted ==
  \A r \in Requests : (frozen[r] # Nil /\ frozen[r].id.owner = Nil) =>
    (Stored(frozen[r]) => frozen[r] \in store)

(***************************************************************************)
(* Liveness.                                                               *)
(***************************************************************************)
\* Every call ends: with a decision or an error, and a prepared decision
\* whose holder keeps submitting it is eventually durable and returned,
\* once the sink stops failing.
CallSettles ==
  \A r \in Requests :
    /\ pc[r] = "resolving" ~> pc[r] \in {"held", "done"}
    /\ pc[r] = "held" ~> (pc[r] = "done" /\ answer[r].status = "decided")

-----------------------------------------------------------------------------
(***************************************************************************)
(* The boundary implements the abstract history.                           *)
(***************************************************************************)
Question(x) == [tenant |-> x.tenant, policy |-> x.policy]

TellsDecision(a) == a.status = "decided"

Promise == INSTANCE AuditedDecision WITH
  Callers <- Requests, KeyOf <- Key, About <- Question, Told <- Decided,
  Deciding <- TellsDecision, Silent <- NoAnswer,
  history <- store, shown <- observed, reply <- answer,
  asked <- [r \in Requests |-> IF call[r] = Nil THEN Nil ELSE Question(call[r])]

\* Every behaviour of the authorizer, retries, drops and lost replies
\* included, is a behaviour of the append-only audited history: decisions are
\* told only out of it (AuditedDecision).
ImplementsPromise == Promise!ASpec

=============================================================================
