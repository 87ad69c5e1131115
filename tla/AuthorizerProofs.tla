-------------------------- MODULE AuthorizerProofs --------------------------
(***************************************************************************)
(* Theorems about Authorizer, and about AxumGate, which drives it, for any *)
(* sets of requests, tenants, policies, calls and resolver answers, and    *)
(* any bounds.                                                             *)
(***************************************************************************)
EXTENDS AxumGate, TLAPS

-----------------------------------------------------------------------------
(***************************************************************************)
(* The sink's operations keep its state well formed and hold one event per *)
(* identity; its users change it through them only.                        *)
(***************************************************************************)
LEMMA SinkInitShape == ASSUME NEW E PROVE SinkInit => SinkShape(E) /\ SinkInv
  BY DEF SinkInit, SinkShape, SinkTypeOK, SinkInv, UniqueEvents, Closed, Phases

LEMMA SinkStepType ==
  ASSUME NEW E, NEW w \in Writers, SinkShape(E), NEW e \in E, SinkStep(w, e)
  PROVE  SinkShape(E)'
  <1> USE DEF SinkShape, SinkTypeOK, Phases
  <1>1. CASE Begin(w)
    BY <1>1 DEF Begin
  <1>2. CASE Enqueue(w, e)
    BY <1>2 DEF Enqueue
  <1>3. CASE EnqueueConflict(w, e) \/ Rollback(w)
    BY <1>3 DEF EnqueueConflict, Rollback, Closed
  <1>4. CASE Commit(w)
    BY <1>4 DEF Commit, Apply, Closed
  <1> QED BY <1>1, <1>2, <1>3, <1>4 DEF SinkStep

LEMMA SinkStepInv ==
  ASSUME NEW E, NEW w \in Writers, NEW e, SinkTypeOK(E), SinkInv, SinkStep(w, e)
  PROVE  SinkInv'
  <1> USE DEF SinkInv, SinkTypeOK, UniqueEvents, Stored
  <1>1. CASE Begin(w)
    BY <1>1 DEF Begin
  <1>2. CASE EnqueueConflict(w, e) \/ Rollback(w)
    BY <1>2 DEF EnqueueConflict, Rollback, Closed
  <1>3. CASE Enqueue(w, e)
    BY <1>3 DEF Enqueue, Awaited
  <1>4. CASE Commit(w)
    BY <1>4 DEF Commit, Apply, Closed
  <1> QED BY <1>1, <1>2, <1>3, <1>4 DEF SinkStep

-----------------------------------------------------------------------------
(***************************************************************************)
(* Which parts of a request's state are present at each point of the call. *)
(* TypeOK is inductive only together with it: Stamp reads the resolution,  *)
(* the sink reads the frozen event.                                        *)
(***************************************************************************)
HoldsEvent(r) == pc[r] \in {"held", "recording", "recorded"} \/ answer[r].status = "persistence"

Shape ==
  \A r \in Requests :
    /\ pc[r] # "idle" => call[r] \in Calls
    /\ pc[r] = "stamping" => resolution[r] \in Resolutions
    /\ HoldsEvent(r) => frozen[r] \in Events

TypeInv == TypeOK /\ Shape /\ SinkShape(Events)

LEMMA InitType == Init => TypeInv
  BY TimeAssumption
  DEF Init, TypeInv, TypeOK, Shape, SinkShape, HoldsEvent, Requests, SinkInit, SinkTypeOK, NoAnswer, Answers, Errors,
      PCs, Time, Closed, Phases

\* The records the actions build are well typed.
LEMMA AnswerTypes ==
  /\ NoAnswer \in Answers
  /\ \A err \in Errors, i \in AuditIds \union {Nil} : Failed(err, i) \in Answers
  BY DEF NoAnswer, Answers, Failed, Errors

LEMMA StatusTypes ==
  ASSUME NEW a \in Answers, NEW s \in {"failed", "unscoped", "persistence"}
  PROVE  /\ [a EXCEPT !.status = s] \in Answers
         /\ [a EXCEPT !.status = s].status = s
         /\ [a EXCEPT !.status = s].error = a.error
  BY DEF Answers

LEMMA CallFields ==
  ASSUME NEW c \in Calls
  PROVE  /\ c.op \in Ops /\ c.policy \in Policies /\ c.tenant \in Tenants
         /\ c.binding \in Bindings /\ c.tenant = c.binding.tenant
         /\ c.occurrence # Nil => c.occurrence \in Occurrences /\ c.occurrence.id.owner = Nil
  <1>1. c \in AllCalls /\ c.tenant = c.binding.tenant
    BY CallsAssumption DEF WellFormedCall
  <1> QED
    BY <1>1 DEF AllCalls, Occurrences, AuditIds

LEMMA GenerateType ==
  ASSUME NEW r \in Requests, runs \in [Requests -> Nat], NEW use \in {"decision", "attempt"}
  PROVE  Generate(r, use) \in AuditIds
  BY DEF Generate, AuditIds

LEMMA DecisionEventType ==
  ASSUME NEW c \in Calls, NEW occ \in Occurrences, NEW res \in Resolutions
  PROVE  FromDecision(c, occ, res) \in Events
  <1>1. Decide[c.policy][res.present] \in Decisions
    <2>1. c.policy \in Policies BY CallFields
    <2>2. res.present \in SUBSET Facts BY ResolutionsAssumption DEF AllResolutions
    <2> QED BY <2>1, <2>2, PolicyAssumption
  <1> QED
    BY <1>1, CallFields DEF FromDecision, Events, EventOf, Occurrences

LEMMA AttemptEventType ==
  ASSUME NEW r \in Requests, TypeOK, call[r] \in Calls
  PROVE  NewAttempt(r) \in Events
  <1>1. AttemptFailure(answer[r].error) \in Failures
    BY Zenon DEF AttemptFailure, Failures
  <1> QED
    BY <1>1, CallFields, GenerateType DEF TypeOK, NewAttempt, Events, EventOf

LEMMA OccurrenceType ==
  ASSUME NEW r \in Requests, TypeOK, call[r] \in Calls
  PROVE  Occurrence(r) \in Occurrences
  BY CallFields, GenerateType DEF TypeOK, Occurrence, Occurrences

(***************************************************************************)
(* One lemma per group of actions with the same footprint.                 *)
(***************************************************************************)
LEMMA FailType ==
  ASSUME NEW r \in Requests, TypeInv, NEW c, NEW err \in Errors, Fail(r, c, err)
  PROVE  /\ pc' \in [Requests -> PCs]
         /\ answer' \in [Requests -> Answers]
         /\ resolution' \in [Requests -> Resolutions \union {Nil}]
         /\ pc'[r] \in {"attempting", "done"} /\ answer'[r].status = "failed"
         /\ \A s \in Requests \ {r} : pc'[s] = pc[s] /\ answer'[s] = answer[s]
                                      /\ resolution'[s] = resolution[s]
  <1>1. Failed(err, Nil) \in Answers /\ Failed(err, Nil).status = "failed"
    BY AnswerTypes DEF Failed
  <1> QED
    BY <1>1 DEF Fail, TypeInv, TypeOK, PCs

LEMMA EnterType ==
  ASSUME NEW r \in Requests, TypeInv, NEW c \in Calls, Enter(r, c)
  PROVE  TypeInv'
  <1>0. SinkShape(Events)'
    BY DEF Enter, TypeInv, SinkShape, SinkTypeOK, sinkVars
  <1>1. CASE Admitted(c, now) /\ pc' = [pc EXCEPT ![r] = "resolving"]
             /\ answer' = [answer EXCEPT ![r] = NoAnswer] /\ UNCHANGED resolution
    <2>1. TypeOK'
      BY <1>0, <1>1, AnswerTypes DEF Enter, TypeInv, TypeOK, SinkShape, PCs
    <2>2. Shape'
      BY <1>1 DEF Enter, TypeInv, TypeOK, Shape, HoldsEvent, NoAnswer
    <2> QED BY <1>0, <2>1, <2>2 DEF TypeInv
  <1>2. ASSUME NEW err \in {"context", "policy_hash"}, Fail(r, c, err) PROVE TypeInv'
    <2>1. err \in Errors BY DEF Errors
    <2>2. TypeOK'
      BY <1>0, <1>2, <2>1, FailType DEF Enter, TypeInv, TypeOK, SinkShape
    <2>3. Shape'
      BY <1>2, <2>1, FailType DEF Enter, TypeInv, TypeOK, Shape, HoldsEvent
    <2> QED BY <1>0, <2>2, <2>3 DEF TypeInv
  <1> QED BY <1>1, <1>2 DEF Enter

(***************************************************************************)
(* Each remaining action of a request.                                     *)
(***************************************************************************)
LEMMA CallStepType ==
  ASSUME NEW r \in Requests, TypeInv,
         \/ \E c \in Calls : Invoke(r, c)
         \/ Reinvoke(r) \/ PersistPending(r) \/ RetryAttempt(r)
  PROVE  TypeInv'
  <1>1. CASE \E c \in Calls : Invoke(r, c)
    BY <1>1, EnterType DEF Invoke
  <1>2. CASE Reinvoke(r)
    <2>1. call[r] \in Calls BY <1>2 DEF Reinvoke, TypeInv, Shape
    <2> QED BY <1>2, <2>1, EnterType DEF Reinvoke
  <1>3. CASE PersistPending(r)
    BY <1>3 DEF PersistPending, TypeInv, TypeOK, Shape, SinkShape, SinkTypeOK, HoldsEvent,
                PCs, sinkVars
  <1>4. CASE RetryAttempt(r)
    BY <1>4 DEF RetryAttempt, TypeInv, TypeOK, Shape, SinkShape, SinkTypeOK, HoldsEvent,
                PCs, sinkVars
  <1> QED BY <1>1, <1>2, <1>3, <1>4

LEMMA AssembleStepType ==
  ASSUME NEW r \in Requests, TypeInv,
         \/ ResolverFails(r) \/ \E res \in Resolutions : Receive(r, res)
         \/ \E err \in {"evidence", "trace", "occurrence"} : AssembleFails(r, err)
         \/ Stamp(r) \/ Attempt(r)
  PROVE  TypeInv'
  <1>1. ASSUME NEW err \in Errors, NEW c, Fail(r, c, err), c = call[r], c \in Calls,
               UNCHANGED <<now, call, runs, frozen, observed, faults, sinkVars>>,
               received' \in [Requests -> Time]
        PROVE  TypeInv'
    BY <1>1, FailType DEF TypeInv, TypeOK, Shape, SinkShape, SinkTypeOK, HoldsEvent, sinkVars
  <1>2. CASE ResolverFails(r)
    BY <1>1, <1>2 DEF ResolverFails, TypeInv, TypeOK, Shape, Errors
  <1>3. ASSUME NEW res \in Resolutions, Receive(r, res) PROVE TypeInv'
    <2>1. received' \in [Requests -> Time] /\ call[r] \in Calls
      BY <1>3 DEF Receive, TypeInv, TypeOK, Shape
    <2>2. CASE Fail(r, call[r], "context") \/ Fail(r, call[r], "resolve")
      BY <1>1, <1>3, <2>1, <2>2 DEF Receive, Errors
    <2>3. CASE pc' = [pc EXCEPT ![r] = "stamping"] /\ UNCHANGED answer
               /\ resolution' = [resolution EXCEPT ![r] = res]
      BY <1>3, <2>1, <2>3 DEF Receive, TypeInv, TypeOK, Shape, SinkShape, SinkTypeOK, HoldsEvent,
                              PCs, sinkVars
    <2> QED BY <1>3, <2>2, <2>3 DEF Receive
  <1>4. ASSUME NEW err \in {"evidence", "trace", "occurrence"}, AssembleFails(r, err)
        PROVE  TypeInv'
    BY <1>1, <1>4 DEF AssembleFails, TypeInv, TypeOK, Shape, Errors
  <1>5. CASE Stamp(r)
    <2>1. call[r] \in Calls /\ resolution[r] \in Resolutions
      BY <1>5 DEF Stamp, TypeInv, Shape
    <2>2. FromDecision(call[r], Occurrence(r), resolution[r]) \in Events
      BY <2>1, OccurrenceType, DecisionEventType DEF TypeInv
    <2> QED
      BY <1>5, <2>1, <2>2 DEF Stamp, TypeInv, TypeOK, Shape, SinkShape, SinkTypeOK, HoldsEvent,
                              PCs, sinkVars
  <1>6. CASE Attempt(r)
    <2>1. call[r] \in Calls BY <1>6 DEF Attempt, TypeInv, Shape
    <2>2. NewAttempt(r) \in Events BY <2>1, AttemptEventType DEF TypeInv
    <2>3. CASE frozen' = [frozen EXCEPT ![r] = NewAttempt(r)] /\ UNCHANGED answer
               /\ pc' = [pc EXCEPT ![r] = "recording"]
      BY <1>6, <2>1, <2>2, <2>3
      DEF Attempt, TypeInv, TypeOK, Shape, SinkShape, SinkTypeOK, HoldsEvent, PCs, sinkVars
    <2>4. CASE answer' = [answer EXCEPT ![r].status = "unscoped"] /\ UNCHANGED frozen
               /\ pc' = [pc EXCEPT ![r] = "done"]
      <3>1. answer' \in [Requests -> Answers] /\ answer'[r].status = "unscoped"
            /\ \A s \in Requests \ {r} : answer'[s] = answer[s]
        BY <2>4, StatusTypes DEF TypeInv, TypeOK
      <3> QED
        BY <1>6, <2>1, <2>4, <3>1
        DEF Attempt, TypeInv, TypeOK, Shape, SinkShape, SinkTypeOK, HoldsEvent, PCs, sinkVars
    <2> QED BY <1>6, <2>3, <2>4 DEF Attempt
  <1> QED BY <1>2, <1>3, <1>4, <1>5, <1>6

\* The answer and the event after an Err of the sink.
LEMMA SinkErrorType ==
  ASSUME NEW r \in Requests, TypeInv, frozen[r] \in Events, SinkError(r)
  PROVE  /\ pc' \in [Requests -> PCs] /\ answer' \in [Requests -> Answers]
         /\ frozen' \in [Requests -> Events \union {Nil}]
         /\ pc'[r] \in {"done", "held"}
         /\ (pc'[r] = "held" \/ answer'[r].status = "persistence") => frozen'[r] \in Events
         /\ \A s \in Requests \ {r} :
              pc'[s] = pc[s] /\ answer'[s] = answer[s] /\ frozen'[s] = frozen[s]
  <1>1. /\ frozen[r].id \in AuditIds
        /\ \A i \in AuditIds \union {Nil} : /\ Failed("audit", i) \in Answers
                                           /\ Failed("audit", i).status = "failed"
    BY AnswerTypes DEF Events, EventOf, Failed, Errors
  <1>2. CASE frozen[r].kind = "attempt"
    <2>1. answer' \in [Requests -> Answers] /\ answer'[r].status = "persistence"
          /\ \A s \in Requests \ {r} : answer'[s] = answer[s]
      <3>1. answer' = [answer EXCEPT ![r].status = "persistence"] BY <1>2 DEF SinkError
      <3> QED BY <3>1, StatusTypes DEF TypeInv, TypeOK
    <2> QED BY <1>2, <2>1 DEF SinkError, TypeInv, TypeOK, PCs
  <1>3. CASE frozen[r].kind # "attempt" /\ Prepares(call[r])
    BY <1>1, <1>3 DEF SinkError, TypeInv, TypeOK, PCs
  <1>4. CASE frozen[r].kind # "attempt" /\ ~Prepares(call[r])
    BY <1>1, <1>4 DEF SinkError, Intercepted, TypeInv, TypeOK, PCs
  <1> QED BY <1>2, <1>3, <1>4

LEMMA RecordStepType ==
  ASSUME NEW r \in Requests, TypeInv,
         \/ RecordBegin(r) \/ RecordEnqueue(r) \/ RecordCommit(r) \/ RecordConflict(r)
         \/ RecordFails(r) \/ Finish(r) \/ Drop(r)
  PROVE  TypeInv'
  <1>1. r \in Writers BY DEF Requests
  <1>2. pc[r] \in {"recording", "recorded"} => frozen[r] \in Events
    BY DEF TypeInv, Shape, HoldsEvent
  <1>3. SinkShape(Events)'
    <2>1. CASE RecordBegin(r) \/ RecordEnqueue(r) \/ RecordCommit(r) \/ RecordConflict(r)
               \/ RecordFails(r)
      BY <1>1, <1>2, <2>1, SinkStepType
      DEF SinkStep, RecordBegin, RecordEnqueue, RecordCommit, RecordConflict, RecordFails, LostReply, TypeInv
    <2>2. CASE Finish(r)
      BY <2>2 DEF Finish, TypeInv, SinkShape, SinkTypeOK, sinkVars
    <2>3. CASE Drop(r)
      <3>1. CASE Commit(r)
        BY <3>1 DEF Commit, Apply, Closed, TypeInv, SinkShape, SinkTypeOK, Phases, Requests
      <3>2. CASE Rollback(r)
        BY <3>2 DEF Rollback, Closed, TypeInv, SinkShape, SinkTypeOK, Phases, Requests
      <3> QED BY <2>3, <3>1, <3>2 DEF Drop, LostReply
    <2> QED BY <2>1, <2>2, <2>3
  <1>4. CASE RecordBegin(r) \/ RecordEnqueue(r)
    BY <1>3, <1>4 DEF RecordBegin, RecordEnqueue, TypeInv, TypeOK, Shape, SinkShape, HoldsEvent,
                      reqVars
  <1>5. CASE RecordCommit(r)
    BY <1>2, <1>3, <1>5 DEF RecordCommit, TypeInv, TypeOK, Shape, SinkShape, HoldsEvent, PCs
  <1>6. CASE RecordConflict(r) \/ RecordFails(r)
    <2>1. pc[r] = "recording" /\ frozen[r] \in Events /\ SinkError(r)
      BY <1>2, <1>6 DEF RecordConflict, RecordFails
    <2>2. UNCHANGED <<now, call, runs, resolution, received, observed>> /\ faults' \in Nat
      BY <1>6 DEF RecordConflict, RecordFails, TypeInv, TypeOK
    <2>3. call[r] \in Calls BY <2>1 DEF TypeInv, Shape
    <2> QED
      BY <1>3, <2>1, <2>2, <2>3, SinkErrorType
      DEF TypeInv, TypeOK, Shape, SinkShape, HoldsEvent
  <1>7. CASE Finish(r)
    <2>1. pc[r] = "recorded" /\ frozen[r] \in Events /\ call[r] \in Calls
      BY <1>2, <1>7 DEF Finish, TypeInv, Shape
    <2>2. CASE frozen[r].kind = "decision"
      <3>1. Decided(frozen[r]) \in Answers /\ Decided(frozen[r]).status = "decided"
        BY <2>1, <2>2 DEF Events, EventOf, Decided, Answers, Errors
      <3> QED
        BY <1>3, <1>7, <2>1, <2>2, <3>1
        DEF Finish, TypeInv, TypeOK, Shape, SinkShape, HoldsEvent, PCs
    <2>3. CASE frozen[r].kind # "decision"
      <3>1. answer' \in [Requests -> Answers] /\ answer'[r].status = "failed"
            /\ \A s \in Requests \ {r} : answer'[s] = answer[s]
        <4>1. answer' = [answer EXCEPT ![r].status = "failed"] BY <1>7, <2>3 DEF Finish
        <4> QED BY <4>1, StatusTypes DEF TypeInv, TypeOK
      <3> QED
        BY <1>3, <1>7, <2>1, <2>3, <3>1
        DEF Finish, TypeInv, TypeOK, Shape, SinkShape, HoldsEvent, PCs
    <2> QED BY <2>2, <2>3
  <1>8. CASE Drop(r)
    <2>1. Failed("dropped", Nil) \in Answers /\ Failed("dropped", Nil).status = "failed"
      BY AnswerTypes DEF Failed, Errors
    <2>2. call[r] \in Calls BY <1>8 DEF Drop, TypeInv, Shape
    <2>3. StillHeld(r) => frozen[r] \in Events BY DEF StillHeld, TypeInv, TypeOK
    <2> QED
      BY <1>3, <1>8, <2>1, <2>2, <2>3
      DEF Drop, TypeInv, TypeOK, Shape, SinkShape, HoldsEvent, PCs
  <1> QED BY <1>4, <1>5, <1>6, <1>7, <1>8

LEMMA NextType == TypeInv /\ [Next]_vars => TypeInv'
  <1> SUFFICES ASSUME TypeInv, [Next]_vars PROVE TypeInv'
    OBVIOUS
  <1>1. CASE UNCHANGED vars
    BY <1>1 DEF vars, reqVars, TypeInv, TypeOK, Shape, SinkShape, SinkTypeOK, HoldsEvent
  <1>2. ASSUME NEW t \in Time, ClockStep(t) PROVE TypeInv'
    BY <1>2 DEF ClockStep, reqVars, sinkVars, TypeInv, TypeOK, Shape, SinkShape, SinkTypeOK,
                HoldsEvent
  <1>3. ASSUME NEW r \in Requests,
               \/ \E c \in Calls : Invoke(r, c)
               \/ Reinvoke(r) \/ PersistPending(r) \/ RetryAttempt(r)
               \/ Step(r) \/ RecordFails(r) \/ Drop(r)
        PROVE  TypeInv'
    BY <1>3, CallStepType, AssembleStepType, RecordStepType DEF Step
  <1> QED BY <1>1, <1>2, <1>3 DEF Next

LEMMA TypeInvariant == Spec => []TypeInv
  BY InitType, NextType, PTL DEF Spec

\* Every component of the authorizer's state keeps its type through every
\* interleaving of calls, sink transactions, failures and clock readings.
THEOREM TypeCorrect == Spec => []TypeOK
  BY TypeInvariant, PTL DEF TypeInv

-----------------------------------------------------------------------------
(***************************************************************************)
(* The safety properties.  The argument: a transaction only ever carries   *)
(* the event its request has frozen (Conduct); the sink admits an identity *)
(* once (SinkInv); and an identity Gatekeep generated belongs to one run   *)
(* of one request, which freezes one event under it (History).             *)
(***************************************************************************)
\* What a frozen event has to do with the call that froze it.
Belongs(r, e) ==
  /\ e.tenant = call[r].tenant /\ e.policy = call[r].policy
  /\ e.kind = "attempt" => /\ e.id = Generate(r, "attempt") /\ call[r].op = "recording"
                           /\ e.outcome = AttemptFailure(answer[r].error)
  /\ e.kind = "decision" => e.id = Generate(r, "decision") \/ e.id.owner = Nil

Conduct ==
  \A r \in Requests :
    /\ txn[r].phase # "closed" => pc[r] = "recording"
    /\ txn[r].phase \in {"written", "duplicate"} => txn[r].event = frozen[r]
    /\ pc[r] \in {"idle", "resolving", "stamping", "attempting"} => frozen[r] = Nil
    /\ pc[r] = "attempting" => call[r].op = "recording"
    /\ frozen[r] # Nil => Belongs(r, frozen[r])

\* Who a durable event came from.  A request in progress has at most its
\* frozen event stored under its current run.
History ==
  \A e \in store :
    /\ e.kind = "attempt" => e.id.owner # Nil
    /\ \A r \in Requests : e.id.owner = r =>
         /\ e.id.run <= runs[r]
         /\ e.id.run = runs[r] => e = frozen[r] \/ (frozen[r] = Nil /\ pc[r] = "done")

Told ==
  \A r \in Requests :
    /\ pc[r] = "recorded" => frozen[r] \in store
    /\ answer[r].status = "decided" => pc[r] = "done"

SafetyInv ==
  /\ TypeInv /\ SinkInv /\ Conduct /\ History /\ Told
  /\ ReturnedIsDurable /\ ObservedIsDurable /\ AttemptExcludesDecision

LEMMA InitSafety == Init => SafetyInv
  BY InitType
  DEF Init, SinkInit, SafetyInv, SinkInv, Conduct, History, Told, UniqueEvents, Requests, Closed,
      NoAnswer, ReturnedIsDurable, ObservedIsDurable, AttemptExcludesDecision

(***************************************************************************)
(* The sink: one event per identity.                                       *)
(***************************************************************************)
\* A step of the authorizer changes the sink through one of its operations.
LEMMA SinkOfNext ==
  ASSUME TypeInv, SinkInv, [Next]_vars
  PROVE  SinkInv'
  <1> USE DEF Requests
  <1>1. CASE UNCHANGED <<store, txn>>
    BY <1>1 DEF SinkInv, UniqueEvents, Stored
  <1>2. ASSUME NEW r \in Requests,
               \/ RecordBegin(r) \/ RecordEnqueue(r) \/ RecordCommit(r) \/ RecordConflict(r)
               \/ RecordFails(r) \/ Drop(r)
        PROVE  SinkInv'
    BY <1>2, SinkStepInv
    DEF SinkStep, RecordBegin, RecordEnqueue, RecordCommit, RecordConflict, RecordFails, Drop, LostReply,
        TypeInv, TypeOK
  <1>3. ASSUME NEW r \in Requests,
               \/ \E c \in Calls : Invoke(r, c)
               \/ Reinvoke(r) \/ PersistPending(r) \/ RetryAttempt(r)
               \/ ResolverFails(r) \/ \E res \in Resolutions : Receive(r, res)
               \/ \E err \in {"evidence", "trace", "occurrence"} : AssembleFails(r, err)
               \/ Stamp(r) \/ Attempt(r) \/ Finish(r)
        PROVE  UNCHANGED <<store, txn>>
    BY <1>3 DEF Invoke, Reinvoke, Enter, PersistPending, RetryAttempt, ResolverFails, Receive,
                AssembleFails, Stamp, Attempt, Finish, sinkVars
  <1>4. ASSUME NEW t \in Time, ClockStep(t) PROVE UNCHANGED <<store, txn>>
    BY <1>4 DEF ClockStep, sinkVars
  <1> QED BY <1>1, <1>2, <1>3, <1>4 DEF Next, Step, vars

(***************************************************************************)
(* Conduct, one lemma per group of actions.                                *)
(***************************************************************************)
LEMMA EnterConduct ==
  ASSUME NEW r \in Requests, NEW c \in Calls, TypeInv, Conduct, Enter(r, c),
         pc[r] \in {"idle", "done"}
  PROVE  Conduct'
  <1>1. /\ frozen' = [frozen EXCEPT ![r] = Nil] /\ UNCHANGED <<store, txn>>
        /\ pc'[r] # "recording" /\ txn[r].phase = "closed"
        /\ pc'[r] = "attempting" => c.op = "recording"
        /\ runs' = [runs EXCEPT ![r] = runs[r] + 1] /\ call' = [call EXCEPT ![r] = c]
    BY DEF Enter, Fail, Intercepted, Conduct, TypeInv, TypeOK, sinkVars
  <1>2. \A s \in Requests \ {r} : pc'[s] = pc[s] /\ answer'[s] = answer[s]
    BY DEF Enter, Fail, TypeInv, TypeOK
  <1> QED
    BY <1>1, <1>2 DEF Conduct, Belongs, Generate, TypeInv, TypeOK

LEMMA CallStepConduct ==
  ASSUME NEW r \in Requests, TypeInv, Conduct,
         \/ \E c \in Calls : Invoke(r, c)
         \/ Reinvoke(r) \/ PersistPending(r) \/ RetryAttempt(r)
  PROVE  Conduct'
  <1>1. CASE \E c \in Calls : Invoke(r, c)
    BY <1>1, EnterConduct DEF Invoke
  <1>2. CASE Reinvoke(r)
    BY <1>2, EnterConduct DEF Reinvoke, TypeInv, Shape
  <1>3. CASE PersistPending(r)
    BY <1>3 DEF PersistPending, Conduct, Belongs, Generate, TypeInv, TypeOK, sinkVars
  <1>4. CASE RetryAttempt(r)
    BY <1>4 DEF RetryAttempt, Conduct, Belongs, Generate, TypeInv, TypeOK, sinkVars
  <1> QED BY <1>1, <1>2, <1>3, <1>4

LEMMA AssembleStepConduct ==
  ASSUME NEW r \in Requests, TypeInv, Conduct,
         \/ ResolverFails(r) \/ \E res \in Resolutions : Receive(r, res)
         \/ \E err \in {"evidence", "trace", "occurrence"} : AssembleFails(r, err)
         \/ Stamp(r) \/ Attempt(r)
  PROVE  Conduct'
  <1>1. pc[r] \in {"resolving", "stamping", "attempting"} /\ frozen[r] = Nil
        /\ txn[r].phase = "closed" /\ UNCHANGED <<call, runs, store, txn>>
    BY DEF ResolverFails, Receive, AssembleFails, Stamp, Attempt, Conduct, sinkVars
  <1>2. \A s \in Requests \ {r} : pc'[s] = pc[s] /\ answer'[s] = answer[s] /\ frozen'[s] = frozen[s]
    BY DEF ResolverFails, Receive, AssembleFails, Stamp, Attempt, Fail, TypeInv, TypeOK
  <1>3. frozen'[r] = Nil \/ (/\ Belongs(r, frozen[r])'
                            /\ pc'[r] \in {"held", "recording"})
    <2>1. CASE ResolverFails(r) \/ (\E res \in Resolutions : Receive(r, res))
               \/ (\E err \in {"evidence", "trace", "occurrence"} : AssembleFails(r, err))
      BY <1>1, <2>1 DEF ResolverFails, Receive, AssembleFails
    <2>2. CASE Stamp(r)
      <3>1. call[r] \in Calls BY <1>1 DEF TypeInv, Shape
      <3>2. Occurrence(r).id = Generate(r, "decision") \/ Occurrence(r).id.owner = Nil
        BY <3>1, CallFields DEF Occurrence
      <3> QED
        BY <1>1, <2>2, <3>2 DEF Stamp, Belongs, FromDecision, Generate, TypeInv, TypeOK
    <2>3. CASE Attempt(r)
      <3>1. call[r].op = "recording" BY <2>3 DEF Attempt, Conduct
      <3>2. CASE frozen' = [frozen EXCEPT ![r] = NewAttempt(r)] /\ UNCHANGED answer
                 /\ pc' = [pc EXCEPT ![r] = "recording"]
        BY <1>1, <3>1, <3>2 DEF Belongs, NewAttempt, Generate, TypeInv, TypeOK
      <3> QED BY <1>1, <2>3, <3>2 DEF Attempt
    <2> QED BY <2>1, <2>2, <2>3
  <1>4. pc'[r] = "attempting" => call[r].op = "recording"
    BY DEF ResolverFails, Receive, AssembleFails, Stamp, Attempt, Fail, Intercepted, TypeInv, TypeOK
  <1> QED
    BY <1>1, <1>2, <1>3, <1>4 DEF Conduct, Belongs, Generate, TypeInv, TypeOK

LEMMA RecordStepConduct ==
  ASSUME NEW r \in Requests, TypeInv, Conduct,
         \/ RecordBegin(r) \/ RecordEnqueue(r) \/ RecordCommit(r) \/ RecordConflict(r)
         \/ RecordFails(r) \/ Finish(r) \/ Drop(r)
  PROVE  Conduct'
  <1> USE DEF Requests
  <1>1. txn \in [Writers -> [phase : Phases, event : Events \union {Nil}]]
    BY DEF TypeInv, TypeOK, SinkTypeOK
  <1>2. \A s \in Requests \ {r} :
          /\ pc'[s] = pc[s] /\ answer'[s] = answer[s] /\ frozen'[s] = frozen[s]
          /\ txn'[s] = txn[s]
    <2>1. CASE RecordBegin(r) \/ RecordEnqueue(r) \/ RecordCommit(r) \/ Finish(r) \/ Drop(r)
      BY <1>1, <2>1 DEF RecordBegin, RecordEnqueue, RecordCommit, Finish, Drop, LostReply,
           Begin, Enqueue, Commit, Rollback, TypeInv, TypeOK, reqVars, sinkVars
    <2>2. CASE RecordConflict(r) \/ RecordFails(r)
      <3>1. frozen[r] \in Events /\ SinkError(r)
        BY <2>2 DEF RecordConflict, RecordFails, TypeInv, Shape, HoldsEvent
      <3>2. \A s \in Requests \ {r} : txn'[s] = txn[s]
        BY <1>1, <2>2 DEF RecordConflict, RecordFails, LostReply, EnqueueConflict, Commit, Rollback
      <3> QED BY <3>1, <3>2, SinkErrorType
    <2> QED BY <2>1, <2>2
  <1>3. UNCHANGED <<call, runs>>
    BY DEF RecordBegin, RecordEnqueue, RecordCommit, RecordConflict, RecordFails, Finish, Drop,
           reqVars
  <1>4. /\ txn'[r].phase # "closed" => pc'[r] = "recording"
        /\ txn'[r].phase \in {"written", "duplicate"} => txn'[r].event = frozen'[r]
    <2>1. CASE RecordBegin(r)
      BY <1>1, <2>1 DEF RecordBegin, Begin, reqVars
    <2>2. CASE RecordEnqueue(r)
      BY <1>1, <2>2 DEF RecordEnqueue, Enqueue, reqVars
    <2>3. CASE RecordCommit(r) \/ RecordConflict(r) \/ RecordFails(r) \/ Drop(r)
      <3>1. txn' = [txn EXCEPT ![r] = Closed]
        BY <2>3 DEF RecordCommit, RecordConflict, RecordFails, Drop, LostReply, Commit, Rollback,
                    EnqueueConflict
      <3> QED BY <1>1, <3>1 DEF Closed
    <2>4. CASE Finish(r)
      BY <1>1, <2>4 DEF Finish, Conduct, sinkVars
    <2> QED BY <2>1, <2>2, <2>3, <2>4
  <1>5. pc'[r] \notin {"idle", "resolving", "stamping", "attempting"}
    <2>1. CASE RecordBegin(r) \/ RecordEnqueue(r)
      BY <2>1 DEF RecordBegin, RecordEnqueue, reqVars
    <2>2. CASE RecordCommit(r) \/ Finish(r) \/ Drop(r)
      BY <2>2 DEF RecordCommit, Finish, Drop, TypeInv, TypeOK
    <2>3. CASE RecordConflict(r) \/ RecordFails(r)
      BY <2>3, SinkErrorType DEF RecordConflict, RecordFails, TypeInv, Shape, HoldsEvent
    <2> QED BY <2>1, <2>2, <2>3
  <1>6. frozen'[r] # Nil => Belongs(r, frozen[r])'
    <2>1. frozen'[r] # Nil => frozen'[r] = frozen[r] /\ Belongs(r, frozen[r])
      BY DEF RecordBegin, RecordEnqueue, RecordCommit, RecordConflict, RecordFails, Finish, Drop,
             SinkError, Conduct, TypeInv, TypeOK, reqVars
    <2>2. (frozen'[r] # Nil /\ frozen[r].kind = "attempt") => answer'[r].error = answer[r].error
      <3>1. CASE RecordBegin(r) \/ RecordEnqueue(r) \/ RecordCommit(r)
        BY <3>1 DEF RecordBegin, RecordEnqueue, RecordCommit, reqVars
      <3>2. CASE Finish(r) \/ RecordConflict(r) \/ RecordFails(r)
        <4>1. ASSUME frozen[r].kind = "attempt"
              PROVE  \E s \in {"failed", "persistence"} : answer' = [answer EXCEPT ![r].status = s]
          BY <3>2, <4>1 DEF Finish, RecordConflict, RecordFails, SinkError
        <4>2. ASSUME NEW s \in {"failed", "persistence"}, answer' = [answer EXCEPT ![r].status = s]
              PROVE  answer'[r].error = answer[r].error
          <5>1. answer[r] \in Answers /\ answer'[r] = [answer[r] EXCEPT !.status = s]
            BY <4>2 DEF TypeInv, TypeOK
          <5> QED BY <5>1, StatusTypes
        <4> QED BY <4>1, <4>2
      <3>3. CASE Drop(r)
        BY <2>1, <3>3 DEF Drop, StillHeld, Prepares, Belongs, TypeInv, TypeOK
      <3> QED BY <3>1, <3>2, <3>3
    <2> QED BY <1>3, <2>1, <2>2 DEF Belongs, Generate
  <1> QED
    BY <1>2, <1>3, <1>4, <1>5, <1>6 DEF Conduct, Belongs, Generate

(***************************************************************************)
(* What any step does to the history and to each request.                  *)
(***************************************************************************)
LEMMA StoreStep ==
  ASSUME TypeInv, Conduct, [Next]_vars
  PROVE  \/ store' = store
         \/ \E r \in Requests : /\ pc[r] = "recording" /\ frozen[r] \in Events
                              /\ store' = store \union {frozen[r]}
  <1> USE DEF Requests
  <1>1. ASSUME NEW r \in Requests, Commit(r), pc[r] = "recording"
        PROVE  store' = store \/ (/\ frozen[r] \in Events
                                 /\ store' = store \union {frozen[r]})
    BY <1>1 DEF Commit, Apply, Conduct, TypeInv, Shape, HoldsEvent
  <1>2. ASSUME NEW r \in Requests, Commit(r), pc[r] # "recording"
        PROVE  FALSE
    BY <1>2 DEF Commit, Conduct
  <1>3. ASSUME NEW r \in Requests, RecordCommit(r) \/ RecordFails(r) \/ Drop(r)
        PROVE  Commit(r) \/ store' = store
    BY <1>3 DEF RecordCommit, RecordFails, Drop, LostReply, Rollback
  <1>4. ASSUME NEW r \in Requests,
               \/ \E c \in Calls : Invoke(r, c)
               \/ Reinvoke(r) \/ PersistPending(r) \/ RetryAttempt(r)
               \/ ResolverFails(r) \/ \E res \in Resolutions : Receive(r, res)
               \/ \E err \in {"evidence", "trace", "occurrence"} : AssembleFails(r, err)
               \/ Stamp(r) \/ Attempt(r) \/ Finish(r)
               \/ RecordBegin(r) \/ RecordEnqueue(r) \/ RecordConflict(r)
        PROVE  store' = store
    BY <1>4 DEF Invoke, Reinvoke, Enter, PersistPending, RetryAttempt, ResolverFails, Receive,
                AssembleFails, Stamp, Attempt, Finish, RecordBegin, RecordEnqueue, RecordConflict,
                Begin, Enqueue, EnqueueConflict, sinkVars
  <1>5. ASSUME NEW t \in Time, ClockStep(t) PROVE store' = store
    BY <1>5 DEF ClockStep, sinkVars
  <1> QED BY <1>1, <1>2, <1>3, <1>4, <1>5 DEF Next, Step, vars

\* The four things that can happen to a request's run and frozen event.
Frame(s) ==
  \/ runs'[s] = runs[s] + 1 /\ frozen'[s] = Nil /\ pc[s] \in {"idle", "done"}
  \/ runs'[s] = runs[s] /\ frozen[s] = Nil /\ pc[s] # "done"
  \/ /\ runs'[s] = runs[s] /\ frozen'[s] = frozen[s]
     /\ (frozen[s] = Nil /\ pc[s] = "done") => pc'[s] = "done"
  \/ runs'[s] = runs[s] /\ frozen'[s] = Nil /\ pc'[s] = "done"

LEMMA FrameStep ==
  ASSUME TypeInv, Conduct, [Next]_vars, NEW s \in Requests
  PROVE  Frame(s)
  <1>0. Nil \notin Events BY ModelValues
  <1>1. ASSUME NEW r \in Requests, NEW c, Enter(r, c), pc[r] \in {"idle", "done"}
        PROVE  Frame(s)
    <2>1. CASE s = r
      BY <1>1, <2>1 DEF Enter, Frame, TypeInv, TypeOK
    <2>2. CASE s # r
      BY <1>1, <2>2 DEF Enter, Fail, Frame, TypeInv, TypeOK
    <2> QED BY <2>1, <2>2
  <1>2. ASSUME NEW r \in Requests, (\E c \in Calls : Invoke(r, c)) \/ Reinvoke(r) PROVE Frame(s)
    BY <1>1, <1>2 DEF Invoke, Reinvoke
  <1>3. ASSUME NEW r \in Requests, PersistPending(r) PROVE Frame(s)
    BY <1>3 DEF PersistPending, Frame, TypeInv, TypeOK
  <1>4. ASSUME NEW r \in Requests, RetryAttempt(r) PROVE Frame(s)
    BY <1>0, <1>4 DEF RetryAttempt, Frame, TypeInv, TypeOK, Shape, HoldsEvent
  <1>5. ASSUME NEW r \in Requests,
               \/ ResolverFails(r) \/ \E res \in Resolutions : Receive(r, res)
               \/ \E err \in {"evidence", "trace", "occurrence"} : AssembleFails(r, err)
               \/ Stamp(r) \/ Attempt(r)
        PROVE  Frame(s)
    BY <1>5 DEF ResolverFails, Receive, AssembleFails, Stamp, Attempt, Fail, Frame, Conduct,
                TypeInv, TypeOK
  <1>6. ASSUME NEW r \in Requests, RecordBegin(r) \/ RecordEnqueue(r) PROVE Frame(s)
    BY <1>6 DEF RecordBegin, RecordEnqueue, Frame, reqVars
  <1>7. ASSUME NEW r \in Requests, RecordCommit(r) \/ Finish(r) PROVE Frame(s)
    BY <1>7 DEF RecordCommit, Finish, Frame, TypeInv, TypeOK
  <1>8. ASSUME NEW r \in Requests, RecordConflict(r) \/ RecordFails(r) PROVE Frame(s)
    BY <1>8 DEF RecordConflict, RecordFails, SinkError, Intercepted, Frame, TypeInv, TypeOK
  <1>9. ASSUME NEW r \in Requests, Drop(r) PROVE Frame(s)
    BY <1>9 DEF Drop, Frame, TypeInv, TypeOK
  <1>10. CASE UNCHANGED vars \/ \E t \in Time : ClockStep(t)
    BY <1>10 DEF vars, reqVars, ClockStep, Frame
  <1> QED
    BY <1>2, <1>3, <1>4, <1>5, <1>6, <1>7, <1>8, <1>9, <1>10 DEF Next, Step

LEMMA ConductOfNext ==
  ASSUME TypeInv, Conduct, [Next]_vars
  PROVE  Conduct'
  <1>1. CASE UNCHANGED vars \/ \E t \in Time : ClockStep(t)
    BY <1>1 DEF vars, reqVars, sinkVars, ClockStep, Conduct, Belongs, Generate
  <1>2. ASSUME NEW r \in Requests,
               \/ \E c \in Calls : Invoke(r, c)
               \/ Reinvoke(r) \/ PersistPending(r) \/ RetryAttempt(r)
               \/ Step(r) \/ RecordFails(r) \/ Drop(r)
        PROVE  Conduct'
    BY <1>2, CallStepConduct, AssembleStepConduct, RecordStepConduct DEF Step
  <1> QED BY <1>1, <1>2 DEF Next

(***************************************************************************)
(* Durable events: where the new one comes from.                           *)
(***************************************************************************)
LEMMA FrozenIdentity ==
  ASSUME TypeInv, Conduct, NEW r \in Requests, frozen[r] \in Events
  PROVE  /\ frozen[r].kind \in {"decision", "attempt"}
         /\ frozen[r].id.owner = Nil => frozen[r].kind = "decision"
         /\ frozen[r].id.owner # Nil => frozen[r].id.owner = r /\ frozen[r].id.run = runs[r]
  <1>1. Nil \notin Events /\ r # Nil BY ModelValues
  <1>2. frozen[r].kind \in {"decision", "attempt"} BY DEF Events, EventOf
  <1>3. Belongs(r, frozen[r]) BY <1>1 DEF Conduct
  <1>4. /\ Generate(r, "attempt").owner = r /\ Generate(r, "attempt").run = runs[r]
        /\ Generate(r, "decision").owner = r /\ Generate(r, "decision").run = runs[r]
    BY DEF Generate
  <1>5. CASE frozen[r].kind = "attempt"
    BY <1>1, <1>3, <1>4, <1>5 DEF Belongs
  <1>6. CASE frozen[r].kind = "decision"
    BY <1>1, <1>3, <1>4, <1>6 DEF Belongs
  <1> QED BY <1>2, <1>5, <1>6

LEMMA HistoryOfNext ==
  ASSUME TypeInv, Conduct, History, [Next]_vars
  PROVE  History'
  <1>1. Nil \notin Events /\ Nil \notin Requests /\ store \subseteq Events
    BY ModelValues DEF TypeInv, TypeOK, SinkTypeOK
  <1>2. runs \in [Requests -> Nat] BY DEF TypeInv, TypeOK
  <1>3. ASSUME NEW e \in Events, NEW s \in Requests, e.id.owner = s,
               \/ e \in store
               \/ pc[s] = "recording" /\ frozen[s] = e /\ e.id.run = runs[s]
        PROVE  /\ e.id.run <= runs'[s]
               /\ e.id.run = runs'[s] => e = frozen'[s] \/ (frozen'[s] = Nil /\ pc'[s] = "done")
    <2>1. Frame(s) BY FrameStep
    <2>2. e.id.run \in Nat BY DEF Events, EventOf, AuditIds
    <2>3. /\ e.id.run <= runs[s]
          /\ e.id.run = runs[s] => e = frozen[s] \/ (frozen[s] = Nil /\ pc[s] = "done")
      BY <1>2, <1>3, <2>2 DEF History
    <2> QED BY <1>1, <1>2, <1>3, <2>1, <2>2, <2>3 DEF Frame
  <1>4. ASSUME NEW e \in store'
        PROVE  /\ e \in Events /\ (e.kind = "attempt" => e.id.owner # Nil)
               /\ \A s \in Requests : e.id.owner = s =>
                    \/ e \in store
                    \/ pc[s] = "recording" /\ frozen[s] = e /\ e.id.run = runs[s]
    <2>1. CASE e \in store
      BY <1>1, <2>1 DEF History
    <2>2. CASE e \notin store
      <3>1. PICK r \in Requests : pc[r] = "recording" /\ frozen[r] \in Events /\ e = frozen[r]
        BY <1>4, <2>2, StoreStep
      <3> QED BY <1>1, <3>1, FrozenIdentity
    <2> QED BY <2>1, <2>2
  <1> QED BY <1>3, <1>4 DEF History

LEMMA AttemptExcludesOfNext ==
  ASSUME TypeInv, Conduct, History, AttemptExcludesDecision, [Next]_vars
  PROVE  AttemptExcludesDecision'
  <1>1. Nil \notin Events /\ Nil \notin Requests /\ store \subseteq Events
    BY ModelValues DEF TypeInv, TypeOK, SinkTypeOK
  <1>2. CASE store' = store
    BY <1>2 DEF AttemptExcludesDecision
  <1>3. ASSUME NEW r \in Requests, pc[r] = "recording", frozen[r] \in Events,
               store' = store \union {frozen[r]}
        PROVE  AttemptExcludesDecision'
    <2>1. ASSUME NEW e \in store, e.id.owner = frozen[r].id.owner, e.id.run = frozen[r].id.run,
                 e.kind = "attempt" \/ frozen[r].kind = "attempt"
          PROVE  e = frozen[r]
      BY <1>1, <1>3, <2>1, FrozenIdentity DEF History
    <2> QED BY <1>3, <2>1 DEF AttemptExcludesDecision
  <1> QED BY <1>2, <1>3, StoreStep

(***************************************************************************)
(* What callers and the observer are told.                                 *)
(***************************************************************************)
LEMMA AnswerStep ==
  ASSUME TypeInv, Conduct, Told, [Next]_vars, NEW s \in Requests
  PROVE  /\ answer'[s].status = "decided" =>
              /\ pc'[s] = "done" /\ call'[s] = call[s]
              /\ \/ answer'[s] = answer[s]
                 \/ /\ pc[s] = "recorded" /\ frozen[s].kind = "decision"
                    /\ answer'[s] = Decided(frozen[s])
         /\ pc'[s] = "recorded" =>
              /\ frozen'[s] = frozen[s]
              /\ pc[s] = "recorded" \/ (RecordCommit(s) /\ pc[s] = "recording")
  <1>1. CASE UNCHANGED vars \/ \E t \in Time : ClockStep(t)
    BY <1>1 DEF vars, reqVars, sinkVars, ClockStep, Told
  <1>2. ASSUME NEW r \in Requests,
               \/ \E c \in Calls : Invoke(r, c)
               \/ Reinvoke(r)
        PROVE  /\ \A x \in Requests \ {r} : pc'[x] = pc[x] /\ answer'[x] = answer[x]
                     /\ call'[x] = call[x] /\ frozen'[x] = frozen[x]
               /\ answer'[r].status # "decided" /\ pc'[r] # "recorded"
    BY <1>2 DEF Invoke, Reinvoke, Enter, Fail, Failed, NoAnswer, TypeInv, TypeOK
  <1>3. ASSUME NEW r \in Requests, ResolverFails(r) \/ (\E res \in Resolutions : Receive(r, res))
               \/ (\E err \in {"evidence", "trace", "occurrence"} : AssembleFails(r, err))
               \/ Stamp(r) \/ PersistPending(r)
        PROVE  /\ \A x \in Requests \ {r} : pc'[x] = pc[x] /\ answer'[x] = answer[x]
                     /\ call'[x] = call[x] /\ frozen'[x] = frozen[x]
               /\ answer'[r].status # "decided" /\ pc'[r] # "recorded"
    BY <1>3 DEF ResolverFails, Receive, AssembleFails, Stamp, PersistPending, Fail, Failed, Told,
                TypeInv, TypeOK
  <1>4. ASSUME NEW r \in Requests, Attempt(r) \/ RetryAttempt(r)
        PROVE  /\ \A x \in Requests \ {r} : pc'[x] = pc[x] /\ answer'[x] = answer[x]
                     /\ call'[x] = call[x] /\ frozen'[x] = frozen[x]
               /\ answer'[r].status # "decided" /\ pc'[r] # "recorded"
    <2>1. CASE UNCHANGED answer
      BY <1>4, <2>1 DEF Attempt, RetryAttempt, Told, TypeInv, TypeOK
    <2>2. CASE answer' = [answer EXCEPT ![r].status = "unscoped"]
      <3>1. answer[r] \in Answers /\ answer'[r] = [answer[r] EXCEPT !.status = "unscoped"]
        BY <2>2 DEF TypeInv, TypeOK
      <3>2. answer'[r].status = "unscoped" BY <3>1, StatusTypes
      <3> QED BY <1>4, <2>2, <3>2 DEF Attempt, RetryAttempt, TypeInv, TypeOK
    <2> QED BY <1>4, <2>1, <2>2 DEF Attempt, RetryAttempt
  <1>5. ASSUME NEW r \in Requests, RecordConflict(r) \/ RecordFails(r) \/ Drop(r)
        PROVE  /\ \A x \in Requests \ {r} : pc'[x] = pc[x] /\ answer'[x] = answer[x]
                     /\ call'[x] = call[x] /\ frozen'[x] = frozen[x]
               /\ answer'[r].status # "decided" /\ pc'[r] # "recorded"
    <2>1. CASE Drop(r)
      BY <2>1 DEF Drop, Failed, TypeInv, TypeOK
    <2>2. CASE RecordConflict(r) \/ RecordFails(r)
      <3>1. frozen[r] \in Events /\ SinkError(r) /\ UNCHANGED call
        BY <2>2 DEF RecordConflict, RecordFails, TypeInv, Shape, HoldsEvent
      <3>2. \A x \in Requests \ {r} : pc'[x] = pc[x] /\ answer'[x] = answer[x]
                                      /\ frozen'[x] = frozen[x]
        BY <3>1, SinkErrorType
      <3>3. pc'[r] # "recorded"
        BY <3>1 DEF SinkError, TypeInv, TypeOK
      <3>4. CASE frozen[r].kind = "attempt"
        <4>1. answer[r] \in Answers /\ answer'[r] = [answer[r] EXCEPT !.status = "persistence"]
          BY <3>1, <3>4 DEF SinkError, TypeInv, TypeOK
        <4>2. answer'[r].status = "persistence" BY <4>1, StatusTypes
        <4> QED BY <3>1, <3>2, <3>3, <4>2
      <3>5. CASE frozen[r].kind # "attempt"
        BY <3>1, <3>2, <3>3, <3>5 DEF SinkError, Failed, TypeInv, TypeOK
      <3> QED BY <3>4, <3>5
    <2> QED BY <1>5, <2>1, <2>2
  <1>6. ASSUME NEW r \in Requests, RecordBegin(r) \/ RecordEnqueue(r)
        PROVE  UNCHANGED <<pc, answer, call, frozen>>
    BY <1>6 DEF RecordBegin, RecordEnqueue, reqVars
  <1>7. ASSUME NEW r \in Requests, RecordCommit(r)
        PROVE  /\ \A x \in Requests \ {r} : pc'[x] = pc[x]
               /\ pc[r] = "recording" /\ UNCHANGED <<answer, call, frozen>>
    BY <1>7 DEF RecordCommit, TypeInv, TypeOK
  <1>8. ASSUME NEW r \in Requests, Finish(r)
        PROVE  /\ \A x \in Requests \ {r} : pc'[x] = pc[x] /\ answer'[x] = answer[x]
               /\ UNCHANGED <<call, frozen>> /\ pc'[r] = "done" /\ pc[r] = "recorded"
               /\ answer'[r].status = "decided" =>
                    frozen[r].kind = "decision" /\ answer'[r] = Decided(frozen[r])
    <2>1. CASE frozen[r].kind = "decision"
      BY <1>8, <2>1 DEF Finish, TypeInv, TypeOK
    <2>2. CASE frozen[r].kind # "decision"
      <3>1. answer[r] \in Answers /\ answer'[r] = [answer[r] EXCEPT !.status = "failed"]
        BY <1>8, <2>2 DEF Finish, TypeInv, TypeOK
      <3>2. answer'[r].status = "failed" BY <3>1, StatusTypes
      <3> QED BY <1>8, <2>2, <3>2 DEF Finish, TypeInv, TypeOK
    <2> QED BY <2>1, <2>2
  <1> DEFINE P == /\ answer'[s].status = "decided" =>
                       /\ pc'[s] = "done" /\ call'[s] = call[s]
                       /\ \/ answer'[s] = answer[s]
                          \/ /\ pc[s] = "recorded" /\ frozen[s].kind = "decision"
                             /\ answer'[s] = Decided(frozen[s])
                  /\ pc'[s] = "recorded" =>
                       /\ frozen'[s] = frozen[s]
                       /\ pc[s] = "recorded" \/ (RecordCommit(s) /\ pc[s] = "recording")
  <1>9. ASSUME NEW r \in Requests,
               \A x \in Requests \ {r} : pc'[x] = pc[x] /\ answer'[x] = answer[x]
                     /\ call'[x] = call[x] /\ frozen'[x] = frozen[x],
               answer'[r].status # "decided", pc'[r] # "recorded"
        PROVE  P
    BY <1>9 DEF Told
  <1>10. ASSUME NEW r \in Requests, RecordBegin(r) \/ RecordEnqueue(r) \/ RecordCommit(r) \/ Finish(r)
         PROVE  P
    <2>1. CASE RecordBegin(r) \/ RecordEnqueue(r)
      BY <1>6, <2>1 DEF Told
    <2>2. CASE RecordCommit(r)
      BY <1>7, <2>2 DEF Told
    <2>3. CASE Finish(r)
      BY <1>8, <2>3 DEF Told
    <2> QED BY <1>10, <2>1, <2>2, <2>3
  <1> HIDE DEF P
  <1>11. P
    BY <1>1, <1>2, <1>3, <1>4, <1>5, <1>9, <1>10 DEF Next, Step, P
  <1> QED BY <1>11 DEF P

LEMMA ToldOfNext ==
  ASSUME TypeInv, SinkInv, Conduct, Told, ReturnedIsDurable, ObservedIsDurable, [Next]_vars
  PROVE  Told' /\ ReturnedIsDurable' /\ ObservedIsDurable'
  <1>1. store \subseteq store' BY StoreStep
  <1>2. ASSUME NEW s \in Requests, RecordCommit(s) PROVE frozen[s] \in store'
    BY <1>2 DEF RecordCommit, Commit, Apply, Conduct, SinkInv, Requests
  <1>3. Told'
    BY <1>1, <1>2, AnswerStep DEF Told
  <1>4. ReturnedIsDurable'
    <2> SUFFICES ASSUME NEW s \in Requests, answer'[s].status = "decided"
                 PROVE  \E e \in store' :
                          /\ e.kind = "decision" /\ e.id = answer'[s].id
                          /\ e.outcome = answer'[s].outcome
                          /\ e.tenant = call'[s].tenant /\ e.policy = call'[s].policy
      BY DEF ReturnedIsDurable
    <2>1. CASE answer'[s] = answer[s]
      BY <1>1, <2>1, AnswerStep DEF ReturnedIsDurable
    <2>2. CASE /\ pc[s] = "recorded" /\ frozen[s].kind = "decision"
               /\ answer'[s] = Decided(frozen[s])
      <3>1. frozen[s] \in store /\ Belongs(s, frozen[s])
        <4>1. frozen[s] \in store BY <2>2 DEF Told
        <4>2. frozen[s] # Nil BY <4>1, ModelValues DEF TypeInv, TypeOK, SinkTypeOK
        <4> QED BY <4>1, <4>2 DEF Conduct
      <3>2. call'[s] = call[s] BY AnswerStep
      <3> QED BY <1>1, <2>2, <3>1, <3>2 DEF Belongs, Decided
    <2> QED BY <2>1, <2>2, AnswerStep
  <1>5. observed' = observed \/ \E r \in Requests : /\ pc[r] = "recorded"
                                                    /\ observed' = observed \union {frozen[r]}
    <2>1. ASSUME NEW r \in Requests, Finish(r)
          PROVE  pc[r] = "recorded" /\ (\/ observed' = observed
                                        \/ observed' = observed \union {frozen[r]})
      BY <2>1 DEF Finish
    <2>2. ASSUME NEW r \in Requests,
                 \/ \E c \in Calls : Invoke(r, c)
                 \/ Reinvoke(r) \/ PersistPending(r) \/ RetryAttempt(r)
                 \/ ResolverFails(r) \/ \E res \in Resolutions : Receive(r, res)
                 \/ \E err \in {"evidence", "trace", "occurrence"} : AssembleFails(r, err)
                 \/ Stamp(r) \/ Attempt(r)
                 \/ RecordBegin(r) \/ RecordEnqueue(r) \/ RecordConflict(r)
                 \/ RecordCommit(r) \/ RecordFails(r) \/ Drop(r)
          PROVE  observed' = observed
      BY <2>2 DEF Invoke, Reinvoke, Enter, PersistPending, RetryAttempt, ResolverFails, Receive,
                  AssembleFails, Stamp, Attempt, RecordBegin, RecordEnqueue, RecordConflict,
                  RecordCommit, RecordFails, Drop
    <2>3. CASE UNCHANGED vars \/ \E t \in Time : ClockStep(t)
      BY <2>3 DEF vars, ClockStep
    <2> QED BY <2>1, <2>2, <2>3 DEF Next, Step
  <1>6. ObservedIsDurable'
    BY <1>1, <1>5 DEF ObservedIsDurable, Told
  <1> QED BY <1>3, <1>4, <1>6

(***************************************************************************)
(* The theorems.                                                           *)
(***************************************************************************)
LEMMA NextSafety == SafetyInv /\ [Next]_vars => SafetyInv'
  <1> SUFFICES ASSUME SafetyInv, [Next]_vars PROVE SafetyInv'
    OBVIOUS
  <1>1. TypeInv' BY NextType DEF SafetyInv
  <1>2. SinkInv' BY SinkOfNext DEF SafetyInv
  <1>3. Conduct' BY ConductOfNext DEF SafetyInv
  <1>4. History' BY HistoryOfNext DEF SafetyInv
  <1>5. Told' /\ ReturnedIsDurable' /\ ObservedIsDurable' BY ToldOfNext DEF SafetyInv
  <1>6. AttemptExcludesDecision' BY AttemptExcludesOfNext DEF SafetyInv
  <1> QED BY <1>1, <1>2, <1>3, <1>4, <1>5, <1>6 DEF SafetyInv

LEMMA SafetyInvariant == Spec => []SafetyInv
  BY InitSafety, NextSafety, PTL DEF Spec

\* The audit sink never holds two events under one (tenant, source, event id),
\* however many writers race on it and whichever commit replies are lost
\* (record_decision_audit, record_authorization_attempt).
THEOREM EventsAreUnique == Spec => []UniqueEvents
  BY SafetyInvariant, PTL DEF SafetyInv, SinkInv

\* No decision leaves authorize, authorize_policy or persist_pending unless
\* exactly that decision is durable for the caller's tenant and policy.
THEOREM ReturnedDecisionsAreDurable == Spec => []ReturnedIsDurable
  BY SafetyInvariant, PTL DEF SafetyInv

\* The PolicyObserver only ever sees durable decisions (with_observer).
THEOREM ObservedDecisionsAreDurable == Spec => []ObservedIsDurable
  BY SafetyInvariant, PTL DEF SafetyInv

\* authorize_recording_attempts never leaves both a decision and a failed
\* attempt for one call, even when the decision's reply was lost.
THEOREM AttemptsExcludeDecisions == Spec => []AttemptExcludesDecision
  BY SafetyInvariant, PTL DEF SafetyInv

\* A frozen event with a generated identity can always be submitted again
\* after an ambiguous failure: it is stored exactly, or its identity is free
\* (persist_pending, AttemptAuthorizationError::Persistence).
THEOREM GeneratedEventsNeverConflict == Spec => []FrozenNeverConflicts
  <1>1. SafetyInv => FrozenNeverConflicts
    <2> SUFFICES ASSUME SafetyInv, NEW r \in Requests, frozen[r] # Nil, frozen[r].id.owner # Nil,
                        NEW f \in store, Key(f) = Key(frozen[r])
                 PROVE  frozen[r] \in store
      BY DEF FrozenNeverConflicts, Stored
    <2>1. frozen[r] \in Events BY DEF SafetyInv, TypeInv, TypeOK
    <2>2. frozen[r].id.owner = r /\ frozen[r].id.run = runs[r]
      BY <2>1, FrozenIdentity DEF SafetyInv
    <2>3. f.id = frozen[r].id BY DEF Key
    <2> QED BY <2>2, <2>3 DEF SafetyInv, History
  <1> QED BY <1>1, SafetyInvariant, PTL

-----------------------------------------------------------------------------
(***************************************************************************)
(* What a decision of Authorizer rests on (JudgedAtReceipt, ReplayAgrees), *)
(* what a failure leaves behind (FailureIsRecorded), and the refinement of *)
(* AuditedDecision, for any instance.  All of them use SafetyInv.          *)
(***************************************************************************)
(***************************************************************************)
(* From the receipt of a resolution to the frozen event nothing is judged  *)
(* again: the inputs of Stamp are the ones that passed, and an event keeps *)
(* the outcome its own evidence gives.                                     *)
(***************************************************************************)
Judged(c, res, t) ==
  BindingValidAt(c.binding, t) /\ ResolutionValidAt(res, t) /\ Complete(c, res)

Evaluated(e) == e.kind = "decision" => e.outcome = Decide[e.policy][e.evidence.present]

Judging == \A r \in Requests : pc[r] = "stamping" => Judged(call[r], resolution[r], received[r])

Faithful ==
  /\ \A r \in Requests : frozen[r] # Nil => Evaluated(frozen[r])
  /\ \A e \in store : Evaluated(e)

EvidenceInv == SafetyInv /\ Judging /\ JudgedAtReceipt /\ Faithful

\* Where the inputs of Stamp, and the event a request holds, come from.
Inputs(s) ==
  /\ pc'[s] = "stamping" =>
       \/ /\ pc[s] = "stamping" /\ call'[s] = call[s]
          /\ resolution'[s] = resolution[s] /\ received'[s] = received[s]
       \/ Judged(call'[s], resolution'[s], received'[s])
  /\ frozen'[s] # Nil =>
       \/ frozen'[s] = frozen[s] /\ call'[s] = call[s] /\ received'[s] = received[s]
       \/ frozen'[s].kind = "attempt"
       \/ /\ pc[s] = "stamping" /\ call'[s] = call[s] /\ received'[s] = received[s]
          /\ frozen'[s] = FromDecision(call[s], Occurrence(s), resolution[s])

LEMMA InputsStep ==
  ASSUME TypeInv, Conduct, [Next]_vars, NEW s \in Requests
  PROVE  Inputs(s)
  <1> USE DEF Inputs, TypeInv, TypeOK
  <1>1. ASSUME NEW r \in Requests, (\E c \in Calls : Invoke(r, c)) \/ Reinvoke(r)
        PROVE  Inputs(s)
    <2>1. CASE s = r
      BY <1>1, <2>1 DEF Invoke, Reinvoke, Enter, Fail
    <2>2. CASE s # r
      BY <1>1, <2>2 DEF Invoke, Reinvoke, Enter, Fail
    <2> QED BY <2>1, <2>2
  <1>2. ASSUME NEW r \in Requests, ResolverFails(r)
               \/ \E err \in {"evidence", "trace", "occurrence"} : AssembleFails(r, err)
        PROVE  Inputs(s)
    BY <1>2 DEF ResolverFails, AssembleFails, Fail
  <1>3. ASSUME NEW r \in Requests, NEW res \in Resolutions, Receive(r, res) PROVE Inputs(s)
    <2>1. frozen[r] = Nil /\ UNCHANGED frozen BY <1>3 DEF Receive, Conduct
    <2>2. CASE Fail(r, call[r], "context") \/ Fail(r, call[r], "resolve")
      BY <1>3, <2>1, <2>2 DEF Receive, Fail
    <2>3. CASE /\ ContextValidAt(call[r], now) /\ ResolutionValidAt(res, now)
               /\ Complete(call[r], res)
               /\ pc' = [pc EXCEPT ![r] = "stamping"]
               /\ resolution' = [resolution EXCEPT ![r] = res]
      BY <1>3, <2>1, <2>3 DEF Receive, Judged, ContextValidAt
    <2> QED BY <1>3, <2>2, <2>3 DEF Receive
  <1>4. ASSUME NEW r \in Requests, Stamp(r) PROVE Inputs(s)
    BY <1>4 DEF Stamp
  <1>5. ASSUME NEW r \in Requests, Attempt(r) PROVE Inputs(s)
    BY <1>5 DEF Attempt, NewAttempt
  <1>6. ASSUME NEW r \in Requests,
               PersistPending(r) \/ RetryAttempt(r) \/ RecordCommit(r) \/ Finish(r)
        PROVE  Inputs(s)
    BY <1>6 DEF PersistPending, RetryAttempt, RecordCommit, Finish
  <1>7. ASSUME NEW r \in Requests, RecordBegin(r) \/ RecordEnqueue(r) PROVE Inputs(s)
    BY <1>7 DEF RecordBegin, RecordEnqueue, reqVars
  <1>8. ASSUME NEW r \in Requests, RecordConflict(r) \/ RecordFails(r) PROVE Inputs(s)
    BY <1>8 DEF RecordConflict, RecordFails, SinkError, Intercepted
  <1>9. ASSUME NEW r \in Requests, Drop(r) PROVE Inputs(s)
    BY <1>9 DEF Drop
  <1>10. CASE UNCHANGED vars \/ \E t \in Time : ClockStep(t)
    BY <1>10 DEF vars, reqVars, ClockStep
  <1> QED
    BY <1>1, <1>2, <1>3, <1>4, <1>5, <1>6, <1>7, <1>8, <1>9, <1>10 DEF Next, Step

\* An event made by Stamp carries the outcome of its own evidence.
LEMMA FromDecisionFields ==
  ASSUME NEW c, NEW occ, NEW res
  PROVE  LET e == FromDecision(c, occ, res)
         IN  /\ e.kind = "decision" /\ e.policy = c.policy /\ e.binding = c.binding
             /\ e.evidence = res /\ e.tenant = c.tenant /\ Evaluated(e)
  BY DEF FromDecision, Evaluated

LEMMA InitEvidence == Init => EvidenceInv
  BY InitSafety
  DEF Init, SinkInit, EvidenceInv, Judging, JudgedAtReceipt, Faithful

LEMMA NextEvidence == EvidenceInv /\ [Next]_vars => EvidenceInv'
  <1> SUFFICES ASSUME EvidenceInv, [Next]_vars PROVE EvidenceInv'
    OBVIOUS
  <1>1. TypeInv /\ Conduct /\ SafetyInv' BY NextSafety DEF EvidenceInv, SafetyInv
  <1>2. Judging'
    BY <1>1, InputsStep DEF EvidenceInv, Judging, Inputs
  <1>3. JudgedAtReceipt'
    <2> SUFFICES ASSUME NEW s \in Requests, frozen'[s] # Nil, frozen'[s].kind = "decision"
                 PROVE  /\ BindingValidAt(frozen'[s].binding, received'[s])
                        /\ ResolutionValidAt(frozen'[s].evidence, received'[s])
                        /\ Complete(call'[s], frozen'[s].evidence)
      BY DEF JudgedAtReceipt
    <2>1. CASE frozen'[s] = frozen[s] /\ call'[s] = call[s] /\ received'[s] = received[s]
      BY <2>1 DEF EvidenceInv, JudgedAtReceipt
    <2>2. CASE /\ pc[s] = "stamping" /\ call'[s] = call[s] /\ received'[s] = received[s]
               /\ frozen'[s] = FromDecision(call[s], Occurrence(s), resolution[s])
      <3>1. Judged(call[s], resolution[s], received[s]) BY <2>2 DEF EvidenceInv, Judging
      <3> QED BY <2>2, <3>1, FromDecisionFields DEF Judged
    <2> QED BY <1>1, <2>1, <2>2, InputsStep DEF Inputs
  <1>4. Faithful'
    <2>1. ASSUME NEW s \in Requests, frozen'[s] # Nil PROVE Evaluated(frozen'[s])
      <3>1. CASE frozen'[s] = frozen[s]
        BY <2>1, <3>1 DEF EvidenceInv, Faithful
      <3>2. CASE frozen'[s].kind = "attempt"
        BY <3>2 DEF Evaluated
      <3>3. CASE frozen'[s] = FromDecision(call[s], Occurrence(s), resolution[s])
        BY <3>3, FromDecisionFields
      <3> QED BY <1>1, <2>1, <3>1, <3>2, <3>3, InputsStep DEF Inputs
    <2>2. ASSUME NEW e \in store' PROVE Evaluated(e)
      <3>1. CASE e \in store
        BY <3>1 DEF EvidenceInv, Faithful
      <3>2. CASE e \notin store
        <4>1. PICK r \in Requests : frozen[r] \in Events /\ e = frozen[r]
          BY <1>1, <2>2, <3>2, StoreStep
        <4> QED BY <4>1, ModelValues DEF EvidenceInv, Faithful
      <3> QED BY <3>1, <3>2
    <2> QED BY <2>1, <2>2 DEF Faithful
  <1> QED BY <1>1, <1>2, <1>3, <1>4 DEF EvidenceInv

LEMMA EvidenceInvariant == Spec => []EvidenceInv
  BY InitEvidence, NextEvidence, PTL DEF Spec

\* A decision that can still be persisted, or was returned, rests on a binding
\* and on observations that were valid at the clock reading after the
\* resolver's await, and on every required fact where the path checks it,
\* whatever the clock did before and after (assemble).
THEOREM DecisionsAreJudgedAtReceipt == Spec => []JudgedAtReceipt
  BY EvidenceInvariant, PTL DEF EvidenceInv

(***************************************************************************)
(* Replay.  The observations an entry retains name each fact once and      *)
(* agree with the facts evaluation saw, so on the required facts the two   *)
(* are the same set.                                                       *)
(***************************************************************************)
LEMMA ReplaySeesTheFacts ==
  ASSUME NEW res \in Resolutions, NEW R \in SUBSET Facts,
         R \subseteq {o.fact : o \in res.observations}
  PROVE  {o.fact : o \in {p \in res.observations : p.value}} \intersect R
           = res.present \intersect R
  <1>1. \A o \in res.observations : o.value = (o.fact \in res.present)
    BY ResolutionsAssumption DEF WellFormedResolution, MatchAll
  <1>2. \A o \in res.observations : o.value <=> o.fact \in res.present
    BY <1>1, Zenon
  <1>3. ASSUME NEW f \in R
        PROVE  f \in {o.fact : o \in {p \in res.observations : p.value}} <=> f \in res.present
    <2>1. PICK o \in res.observations : f = o.fact BY <1>3
    <2> QED BY <1>2, <2>1, Zenon
  <1> QED BY <1>3, Zenon

LEMMA EvaluatedReplays ==
  ASSUME NEW e \in Events, Evaluated(e), e.kind = "decision", Replayable(e)
  PROVE  Replay(e) = e.outcome
  <1> DEFINE R == Required[e.policy]
             Seen == {o.fact : o \in {p \in e.evidence.observations : p.value}}
  <1>1. e.policy \in Policies /\ e.evidence \in Resolutions
    BY DEF Events, EventOf
  <1>2. R \in SUBSET Facts BY <1>1, PolicyAssumption
  <1>3. e.evidence \in AllResolutions BY <1>1, ResolutionsAssumption
  <1>4. e.evidence.present \in SUBSET Facts /\ e.evidence.observations \in SUBSET Observations
    BY <1>3 DEF AllResolutions
  <1>5. Seen \in SUBSET Facts BY <1>4 DEF Observations
  <1>6. Seen \intersect R = e.evidence.present \intersect R
    BY <1>1, <1>2, ReplaySeesTheFacts DEF Replayable
  <1>7. Decide[e.policy][Seen] = Decide[e.policy][Seen \intersect R]
    BY <1>1, <1>5, EvaluateReadsRequired
  <1>8. Decide[e.policy][e.evidence.present] = Decide[e.policy][e.evidence.present \intersect R]
    BY <1>1, <1>4, EvaluateReadsRequired
  <1> QED BY <1>6, <1>7, <1>8 DEF Replay, Evaluated

\* Replaying any durable decision from its retained observations alone gives
\* the recorded outcome, for every policy that reads no more than its required
\* facts (PreparedPolicy::replay).
THEOREM DurableDecisionsReplay == Spec => []ReplayAgrees
  <1>1. EvidenceInv => ReplayAgrees
    BY EvaluatedReplays
    DEF EvidenceInv, SafetyInv, TypeInv, TypeOK, SinkTypeOK, Faithful, ReplayAgrees
  <1> QED BY <1>1, EvidenceInvariant, PTL

(***************************************************************************)
(* Failures.  An error that authorize_recording_attempts intercepts reaches *)
(* its caller as a plain error only out of Finish, that is with the attempt *)
(* recorded.                                                               *)
(***************************************************************************)
Reported(s) ==
  pc[s] = "done" /\ answer[s].status = "failed" /\ Intercepted(call[s], answer[s].error)

ReportedBy(s) ==
  /\ call'[s] = call[s] /\ runs'[s] = runs[s]
  /\ \/ pc[s] = "done" /\ answer'[s] = answer[s]
     \/ /\ pc[s] = "recorded" /\ frozen[s].kind # "decision"
        /\ answer'[s].error = answer[s].error

LEMMA FailNotReported ==
  ASSUME NEW r \in Requests, TypeInv, NEW c, NEW err, Fail(r, c, err), call'[r] = c
  PROVE  ~Reported(r)'
  BY DEF Fail, Failed, Reported, TypeInv, TypeOK

LEMMA FailureStep ==
  ASSUME TypeInv, Conduct, [Next]_vars, NEW s \in Requests, Reported(s)'
  PROVE  ReportedBy(s)
  <1> USE DEF TypeInv, TypeOK
  <1>1. ASSUME NEW r \in Requests, NEW c, Enter(r, c) PROVE ReportedBy(s)
    <2>1. call' = [call EXCEPT ![r] = c] /\ runs' = [runs EXCEPT ![r] = @ + 1] /\ call'[r] = c
      BY <1>1 DEF Enter
    <2>2. CASE pc' = [pc EXCEPT ![r] = "resolving"] /\ answer' = [answer EXCEPT ![r] = NoAnswer]
      BY <2>1, <2>2 DEF Reported, ReportedBy
    <2>3. ASSUME NEW err, Fail(r, c, err) PROVE ReportedBy(s)
      BY <2>1, <2>3, FailNotReported DEF Fail, Reported, ReportedBy
    <2> QED BY <1>1, <2>2, <2>3 DEF Enter
  <1>2. ASSUME NEW r \in Requests, (\E c \in Calls : Invoke(r, c)) \/ Reinvoke(r)
        PROVE  ReportedBy(s)
    BY <1>1, <1>2 DEF Invoke, Reinvoke
  <1>3. ASSUME NEW r \in Requests, NEW err, Fail(r, call[r], err), UNCHANGED <<call, runs>>
        PROVE  ReportedBy(s)
    BY <1>3, FailNotReported DEF Fail, Reported, ReportedBy
  <1>4. ASSUME NEW r \in Requests, ResolverFails(r)
               \/ \E err \in {"evidence", "trace", "occurrence"} : AssembleFails(r, err)
        PROVE  ReportedBy(s)
    BY <1>3, <1>4 DEF ResolverFails, AssembleFails
  <1>5. ASSUME NEW r \in Requests, NEW res \in Resolutions, Receive(r, res) PROVE ReportedBy(s)
    <2>1. CASE UNCHANGED answer /\ pc' = [pc EXCEPT ![r] = "stamping"]
      BY <1>5, <2>1 DEF Receive, Reported, ReportedBy
    <2> QED BY <1>3, <1>5, <2>1 DEF Receive
  <1>6. ASSUME NEW r \in Requests, Stamp(r) \/ PersistPending(r) \/ RetryAttempt(r) \/ RecordCommit(r)
        PROVE  ReportedBy(s)
    BY <1>6 DEF Stamp, PersistPending, RetryAttempt, RecordCommit, Reported, ReportedBy
  <1>7. ASSUME NEW r \in Requests, Attempt(r) PROVE ReportedBy(s)
    <2>1. CASE UNCHANGED answer /\ pc' = [pc EXCEPT ![r] = "recording"]
      BY <1>7, <2>1 DEF Attempt, Reported, ReportedBy
    <2>2. CASE answer' = [answer EXCEPT ![r].status = "unscoped"] /\ pc' = [pc EXCEPT ![r] = "done"]
      <3>1. answer'[r].status = "unscoped" /\ \A x \in Requests \ {r} : answer'[x] = answer[x]
        BY <2>2, StatusTypes
      <3> QED BY <1>7, <2>2, <3>1 DEF Attempt, Reported, ReportedBy
    <2> QED BY <1>7, <2>1, <2>2 DEF Attempt
  <1>8. ASSUME NEW r \in Requests, RecordConflict(r) \/ RecordFails(r) PROVE ReportedBy(s)
    <2>1. frozen[r] \in Events /\ SinkError(r) /\ UNCHANGED <<call, runs>>
      BY <1>8 DEF RecordConflict, RecordFails, Shape, HoldsEvent
    <2>2. \A x \in Requests \ {r} : pc'[x] = pc[x] /\ answer'[x] = answer[x]
      BY <2>1, SinkErrorType
    <2>3. CASE frozen[r].kind = "attempt"
      <3>1. answer[r] \in Answers /\ answer'[r] = [answer[r] EXCEPT !.status = "persistence"]
        BY <2>1, <2>3 DEF SinkError
      <3>2. answer'[r].status = "persistence" BY <3>1, StatusTypes
      <3> QED BY <2>1, <2>2, <3>2 DEF Reported, ReportedBy
    <2>4. CASE frozen[r].kind # "attempt"
      <3>1. answer'[r].error = "audit"
        BY <2>1, <2>4 DEF SinkError, Failed
      <3> QED BY <2>1, <2>2, <3>1 DEF Reported, ReportedBy, Intercepted
    <2> QED BY <2>3, <2>4
  <1>9. ASSUME NEW r \in Requests, Drop(r) PROVE ReportedBy(s)
    <2>1. answer'[r].error = "dropped" BY <1>9 DEF Drop, Failed
    <2> QED BY <1>9, <2>1 DEF Drop, Reported, ReportedBy, Intercepted
  <1>10. ASSUME NEW r \in Requests, Finish(r) PROVE ReportedBy(s)
    <2>1. UNCHANGED <<call, runs>> /\ pc[r] = "recorded" /\ pc' = [pc EXCEPT ![r] = "done"]
      BY <1>10 DEF Finish
    <2>2. CASE frozen[r].kind = "decision"
      BY <1>10, <2>1, <2>2 DEF Finish, Decided, Reported, ReportedBy
    <2>3. CASE frozen[r].kind # "decision"
      <3>1. answer' = [answer EXCEPT ![r].status = "failed"] BY <1>10, <2>3 DEF Finish
      <3>2. answer'[r].error = answer[r].error /\ \A x \in Requests \ {r} : answer'[x] = answer[x]
        BY <3>1, StatusTypes
      <3> QED BY <2>1, <2>3, <3>2 DEF Reported, ReportedBy
    <2> QED BY <2>2, <2>3
  <1>11. CASE \/ UNCHANGED vars \/ \E t \in Time : ClockStep(t)
              \/ \E r \in Requests : RecordBegin(r) \/ RecordEnqueue(r)
    BY <1>11 DEF vars, reqVars, ClockStep, RecordBegin, RecordEnqueue, Reported, ReportedBy
  <1> QED
    BY <1>2, <1>4, <1>5, <1>6, <1>7, <1>8, <1>9, <1>10, <1>11 DEF Next, Step

LEMMA NextFailure == SafetyInv /\ FailureIsRecorded /\ [Next]_vars => FailureIsRecorded'
  <1> SUFFICES ASSUME SafetyInv, FailureIsRecorded, [Next]_vars, NEW s \in Requests, Reported(s)'
               PROVE  \E e \in store' :
                        /\ e.kind = "attempt" /\ e.id = Generate(s, "attempt")'
                        /\ e.tenant = call'[s].tenant /\ e.outcome = AttemptFailure(answer'[s].error)
    BY DEF FailureIsRecorded, Reported
  <1>1. TypeInv /\ Conduct /\ Told BY DEF SafetyInv
  <1>2. store \subseteq store' BY <1>1, StoreStep
  <1>3. ReportedBy(s) BY <1>1, FailureStep
  <1>4. Generate(s, "attempt")' = Generate(s, "attempt") BY <1>3 DEF ReportedBy, Generate
  <1>5. CASE pc[s] = "done" /\ answer'[s] = answer[s]
    <2>1. Reported(s) BY <1>3, <1>5 DEF Reported, ReportedBy
    <2> QED BY <1>2, <1>3, <1>4, <1>5, <2>1 DEF FailureIsRecorded, Reported, ReportedBy
  <1>6. CASE pc[s] = "recorded" /\ frozen[s].kind # "decision" /\ answer'[s].error = answer[s].error
    <2>1. frozen[s] \in store BY <1>1, <1>6 DEF Told
    <2>2. frozen[s] \in Events BY <1>1, <2>1 DEF TypeInv, TypeOK, SinkTypeOK
    <2>3. frozen[s].kind = "attempt" /\ Belongs(s, frozen[s])
      BY <1>1, <1>6, <2>2, FrozenIdentity, ModelValues DEF Conduct
    <2> QED BY <1>2, <1>3, <1>4, <1>6, <2>1, <2>3 DEF Belongs, ReportedBy
  <1> QED BY <1>3, <1>5, <1>6 DEF ReportedBy

\* authorize_recording_attempts gives its caller a plain authorization error
\* only after an attempt with the stage of that error is durable in the
\* caller's tenant, whatever replies were lost before.
THEOREM FailuresAreRecorded == Spec => []FailureIsRecorded
  <1>1. Init => FailureIsRecorded
    BY DEF Init, FailureIsRecorded
  <1> QED BY <1>1, NextFailure, SafetyInvariant, PTL DEF Spec

(***************************************************************************)
(* The refinement.  Each step either leaves the abstract state alone or    *)
(* adds to the history (Record), hands a recorded decision to its caller   *)
(* and the observer (Finish: Tell), or gives a caller something that       *)
(* decides nothing, perhaps with a write whose reply is lost (NoDecision). *)
(***************************************************************************)
AskedBy == [r \in Requests |-> IF call[r] = Nil THEN Nil ELSE Question(call[r])]

\* Only request r's call and answer change, and the answer decides nothing.
Silenced(r) ==
  /\ answer' \in [Requests -> Answers] /\ call' \in [Requests -> Calls \union {Nil}]
  /\ answer'[r].status # "decided"
  /\ \A x \in Requests \ {r} : answer'[x] = answer[x] /\ call'[x] = call[x]
  /\ observed' = observed

LEMMA MayAppendStep ==
  ASSUME SafetyInv, [Next]_vars
  PROVE  Promise!MayAppend
  <1>1. TypeInv /\ Conduct /\ SinkInv BY DEF SafetyInv
  <1>2. CASE store' = store
    BY <1>2 DEF Promise!MayAppend
  <1>3. ASSUME NEW r \in Requests, frozen[r] \in Events, store' = store \union {frozen[r]},
               store' # store
        PROVE  Promise!MayAppend
    <2>1. SinkInv' BY <1>1, SinkOfNext
    <2>2. \A f \in store : Key(f) # Key(frozen[r])
      BY <1>3, <2>1 DEF SinkInv, UniqueEvents
    <2> QED BY <1>3, <2>2 DEF Promise!MayAppend, Promise!Append
  <1> QED BY <1>1, <1>2, <1>3, StoreStep

LEMMA SilencedIsNoDecision ==
  ASSUME SafetyInv, [Next]_vars, NEW r \in Requests, Silenced(r)
  PROVE  Promise!NoDecision(r)
  <1>1. \A x \in Requests \ {r} : AskedBy'[x] = AskedBy[x]
    BY DEF Silenced, AskedBy
  <1>2. ~TellsDecision(answer'[r]) BY DEF Silenced, TellsDecision
  <1> QED BY <1>1, <1>2, MayAppendStep DEF Silenced, Promise!NoDecision, AskedBy

LEMMA QuietIsRecord ==
  ASSUME SafetyInv, [Next]_vars, UNCHANGED <<call, answer, observed>>
  PROVE  Promise!Record
  BY MayAppendStep DEF Promise!Record

LEMMA FinishTells ==
  ASSUME SafetyInv, NEW r \in Requests, Finish(r), frozen[r].kind = "decision"
  PROVE  Promise!Tell(r)
  <1>1. TypeInv /\ Conduct /\ Told BY DEF SafetyInv
  <1>2. frozen[r] \in store /\ frozen[r] \in Events /\ frozen[r] # Nil
    BY <1>1, ModelValues DEF Finish, Told, TypeInv, TypeOK, SinkTypeOK
  <1>3. Belongs(r, frozen[r]) BY <1>1, <1>2 DEF Conduct
  <1>4. call[r] # Nil BY <1>1, ModelValues DEF Finish, TypeInv, Shape
  <1>5. Question(frozen[r]) = AskedBy[r] BY <1>3, <1>4 DEF Belongs, Question, AskedBy
  <1> QED BY <1>2, <1>5 DEF Finish, Promise!Tell, AskedBy, sinkVars

\* Steps that answer a caller without a decision.
LEMMA SilencedStep ==
  ASSUME TypeInv, Told, TypeInv', NEW r \in Requests,
         \/ \E c \in Calls : Invoke(r, c)
         \/ Reinvoke(r) \/ ResolverFails(r)
         \/ \E res \in Resolutions : Receive(r, res)
         \/ \E err \in {"evidence", "trace", "occurrence"} : AssembleFails(r, err)
         \/ Attempt(r) \/ RecordConflict(r) \/ RecordFails(r) \/ Drop(r)
         \/ Finish(r) /\ frozen[r].kind # "decision"
  PROVE  Silenced(r)
  <1>0. answer' \in [Requests -> Answers] /\ call' \in [Requests -> Calls \union {Nil}]
    BY DEF TypeInv, TypeOK
  <1>1. CASE (\E c \in Calls : Invoke(r, c)) \/ Reinvoke(r)
    BY <1>0, <1>1 DEF Invoke, Reinvoke, Enter, Fail, Failed, NoAnswer, Silenced, TypeInv, TypeOK
  <1>2. CASE ResolverFails(r) \/ (\E res \in Resolutions : Receive(r, res))
             \/ (\E err \in {"evidence", "trace", "occurrence"} : AssembleFails(r, err))
    BY <1>0, <1>2
    DEF ResolverFails, Receive, AssembleFails, Fail, Failed, Silenced, Told, TypeInv, TypeOK
  <1>3. ASSUME NEW st \in {"failed", "unscoped", "persistence"},
               answer' = [answer EXCEPT ![r].status = st], UNCHANGED <<call, observed>>
        PROVE  Silenced(r)
    <2>1. answer[r] \in Answers /\ answer'[r] = [answer[r] EXCEPT !.status = st]
          /\ \A x \in Requests \ {r} : answer'[x] = answer[x]
      BY <1>3 DEF TypeInv, TypeOK
    <2>2. answer'[r].status = st BY <2>1, StatusTypes
    <2> QED BY <1>0, <1>3, <2>1, <2>2 DEF Silenced
  <1>4. CASE Attempt(r)
    <2>1. CASE UNCHANGED answer
      BY <1>0, <1>4, <2>1 DEF Attempt, Silenced, Told
    <2> QED BY <1>3, <1>4, <2>1 DEF Attempt
  <1>5. CASE RecordConflict(r) \/ RecordFails(r)
    <2>1. SinkError(r) /\ UNCHANGED <<call, observed>>
      BY <1>5 DEF RecordConflict, RecordFails
    <2>2. CASE frozen[r].kind = "attempt"
      BY <1>3, <2>1, <2>2 DEF SinkError
    <2>3. CASE frozen[r].kind # "attempt"
      BY <1>0, <2>1, <2>3 DEF SinkError, Failed, Silenced, TypeInv, TypeOK
    <2> QED BY <2>2, <2>3
  <1>6. CASE Drop(r)
    BY <1>0, <1>6 DEF Drop, Failed, Silenced, TypeInv, TypeOK
  <1>7. CASE Finish(r) /\ frozen[r].kind # "decision"
    BY <1>3, <1>7 DEF Finish
  <1> QED BY <1>1, <1>2, <1>4, <1>5, <1>6, <1>7

LEMMA PromiseStep == SafetyInv /\ [Next]_vars => [Promise!ANext]_(Promise!avars)
  <1> SUFFICES ASSUME SafetyInv, [Next]_vars PROVE [Promise!ANext]_(Promise!avars)
    OBVIOUS
  <1> USE DEF Promise!ANext
  <1>0. TypeInv /\ Told /\ TypeInv' BY NextSafety DEF SafetyInv
  <1>1. CASE UNCHANGED vars \/ \E t \in Time : ClockStep(t)
    BY <1>1, QuietIsRecord DEF vars, reqVars, ClockStep
  <1>2. ASSUME NEW r \in Requests,
               \/ \E c \in Calls : Invoke(r, c)
               \/ Reinvoke(r) \/ ResolverFails(r)
               \/ \E res \in Resolutions : Receive(r, res)
               \/ \E err \in {"evidence", "trace", "occurrence"} : AssembleFails(r, err)
               \/ Attempt(r) \/ RecordConflict(r) \/ RecordFails(r) \/ Drop(r)
               \/ Finish(r) /\ frozen[r].kind # "decision"
        PROVE  Promise!ANext
    BY <1>0, <1>2, SilencedStep, SilencedIsNoDecision
  <1>3. ASSUME NEW r \in Requests,
               \/ PersistPending(r) \/ RetryAttempt(r) \/ Stamp(r)
               \/ RecordBegin(r) \/ RecordEnqueue(r) \/ RecordCommit(r)
        PROVE  Promise!ANext
    BY <1>3, QuietIsRecord
    DEF PersistPending, RetryAttempt, Stamp, RecordBegin, RecordEnqueue, RecordCommit, reqVars
  <1>4. ASSUME NEW r \in Requests, Finish(r), frozen[r].kind = "decision"
        PROVE  Promise!ANext
    BY <1>4, FinishTells
  <1> QED BY <1>1, <1>2, <1>3, <1>4 DEF Next, Step

\* Every behaviour of the boundary, with its retries, drops, races and lost
\* replies, is one of the append-only audited history: events are added one
\* per identity, and a decision is told to a caller and shown to the observer
\* only out of that history and only about what the caller asked.
THEOREM BoundaryImplementsPromise == Spec => ImplementsPromise
  <1>1. Init => Promise!AInit
    BY DEF Init, SinkInit, Promise!AInit
  <1> QED BY <1>1, PromiseStep, SafetyInvariant, PTL DEF Spec, ImplementsPromise, Promise!ASpec

-----------------------------------------------------------------------------
(***************************************************************************)
(* Theorems about AxumGate for any instance.  A step of the gate is a step *)
(* of the Authorizer or leaves it alone, so the boundary's invariants hold *)
(* of the gate; on top of them a response that tells of a decision keeps   *)
(* to the answer it was made from.                                         *)
(***************************************************************************)
\* The status the gate answers a decision with.
StatusOf(o) ==
  IF Clause[o].effect = "permit" THEN 200
  ELSE IF Clause[o].shape = "hidden" THEN 404 ELSE 403

\* A response that tells of a decision stands beside that decision: the call
\* is over and its answer is the one that was presented.
Presented(r) ==
  response[r].status \in {200, 403, 404} =>
    /\ pc[r] = "done" /\ answer[r].status = "decided"
    /\ response[r].status = StatusOf(answer[r].outcome)

GateInv ==
  /\ SafetyInv
  /\ DOMAIN response = Requests
  /\ \A r \in Requests : Presented(r)
  /\ \A r \in Requests : response[r].status = 404 => response[r] = Hidden(Locale[r])

LEMMA GateStep == [GateNext]_gateVars => [Next]_vars
  BY DEF GateNext, gateVars, Arrive, Await, Respond, RespondFails, Tick, Next, vars

\* The steps of the Authorizer that a finished call with a decision allows are
\* those of other requests: nothing about it changes.
LEMMA DecidedStays ==
  ASSUME SafetyInv, NEW s \in Requests, NEW r \in Requests,
         pc[s] = "done", answer[s].status = "decided",
         Step(r) \/ PersistPending(r) \/ RetryAttempt(r) \/ RecordFails(r) \/ Drop(r)
  PROVE  pc'[s] = pc[s] /\ answer'[s] = answer[s]
  <1> USE DEF SafetyInv, TypeInv, TypeOK
  <1>1. s # r
    BY DEF Step, PersistPending, RetryAttempt, RecordFails, Drop, ResolverFails, Receive,
           AssembleFails, Stamp, Attempt, RecordBegin, RecordEnqueue, RecordCommit, RecordConflict,
           Finish
  <1>2. CASE RecordConflict(r) \/ RecordFails(r)
    BY <1>1, <1>2, SinkErrorType DEF RecordConflict, RecordFails, Shape, HoldsEvent
  <1>3. CASE RecordBegin(r) \/ RecordEnqueue(r) \/ RecordCommit(r) \/ PersistPending(r)
             \/ RetryAttempt(r) \/ Drop(r) \/ Stamp(r) \/ Finish(r) \/ Attempt(r)
    BY <1>1, <1>3 DEF RecordBegin, RecordEnqueue, RecordCommit, PersistPending, RetryAttempt, Drop,
                      Stamp, Finish, Attempt, reqVars
  <1>4. CASE ResolverFails(r) \/ (\E res \in Resolutions : Receive(r, res))
             \/ (\E err \in {"evidence", "trace", "occurrence"} : AssembleFails(r, err))
    BY <1>1, <1>4 DEF ResolverFails, Receive, AssembleFails, Fail
  <1> QED BY <1>2, <1>3, <1>4 DEF Step

\* Arriving concerns the request that arrives.
LEMMA ArriveFrame ==
  ASSUME TypeInv, NEW r \in Requests, Reinvoke(r) \/ \E c \in Calls : Invoke(r, c)
  PROVE  \A x \in Requests \ {r} : pc'[x] = pc[x] /\ answer'[x] = answer[x]
  BY DEF Reinvoke, Invoke, Enter, Fail, TypeInv, TypeOK

\* What Present makes of an answer.
LEMMA PresentStatus ==
  ASSUME SafetyInv, NEW r \in Requests
  PROVE  /\ answer[r].status # "decided" => Present(r) = InternalError
         /\ answer[r].status = "decided" => Present(r).status = StatusOf(answer[r].outcome)
         /\ Present(r).status = 404 => Present(r) = Hidden(Locale[r])
  <1>1. /\ InternalError.status = 500 /\ Reply(200, Nil, Nil).status = 200
        /\ \A x, l : Forbidden(x, l).status = 403
        /\ \A l : Hidden(l).status = 404
    BY DEF InternalError, Forbidden, Hidden, Reply
  <1>2. CASE answer[r].status # "decided"
    BY <1>1, <1>2 DEF Present
  <1>3. CASE answer[r].status = "decided"
    <2> DEFINE c == Clause[answer[r].outcome]
    <2>1. Present(r) = IF c.effect = "permit" THEN Reply(200, Nil, Nil)
                       ELSE IF c.shape = "hidden" THEN Hidden(Locale[r])
                       ELSE Forbidden(c.reason, Locale[r])
      BY <1>3 DEF Present, Denied
    <2>2. StatusOf(answer[r].outcome) = IF c.effect = "permit" THEN 200
                                        ELSE IF c.shape = "hidden" THEN 404 ELSE 403
      BY DEF StatusOf
    <2> HIDE DEF c
    <2> QED BY <1>1, <1>3, <2>1, <2>2
  <1> QED BY <1>2, <1>3

LEMMA GateInitInv == GateInit => GateInv
  BY InitSafety
  DEF GateInit, GateInv, Presented, Pending

LEMMA GateNextInv == GateInv /\ [GateNext]_gateVars => GateInv'
  <1> SUFFICES ASSUME GateInv, [GateNext]_gateVars PROVE GateInv'
    OBVIOUS
  <1>1. [Next]_vars /\ SafetyInv /\ SafetyInv' /\ TypeInv /\ Conduct /\ Told
    BY GateStep, NextSafety DEF GateInv, SafetyInv
  <1>2. CASE \E r \in Requests : Arrive(r)
    <2>1. PICK r \in Requests : Arrive(r) BY <1>2
    <2>2. \A x \in Requests \ {r} : pc'[x] = pc[x] /\ answer'[x] = answer[x]
      BY <1>1, <2>1, ArriveFrame DEF Arrive
    <2>3. response' = [response EXCEPT ![r] = Pending] BY <2>1 DEF Arrive
    <2> QED BY <1>1, <2>2, <2>3 DEF GateInv, Presented, Pending
  <1>3. CASE \E r \in Requests : Await(r)
    <2>1. PICK r \in Requests : Await(r) BY <1>3
    <2> QED BY <1>1, <2>1, DecidedStays DEF Await, GateInv, Presented
  <1>4. CASE \E r \in Requests : Respond(r) \/ RespondFails(r)
    <2>1. PICK r \in Requests : Respond(r) \/ RespondFails(r) BY <1>4
    <2>2. UNCHANGED <<pc, answer>> /\ pc[r] = "done"
      BY <2>1 DEF Respond, RespondFails, Waiting, vars, reqVars
    <2>3. PICK p \in {Present(r), InternalError} : response' = [response EXCEPT ![r] = p]
      BY <2>1 DEF Respond, RespondFails
    <2>4. InternalError.status = 500 BY DEF InternalError, Reply
    <2>5. /\ p.status \in {200, 403, 404} =>
               answer[r].status = "decided" /\ p.status = StatusOf(answer[r].outcome)
          /\ p.status = 404 => p = Hidden(Locale[r])
      BY <1>1, <2>4, PresentStatus
    <2> QED BY <1>1, <2>2, <2>3, <2>5 DEF GateInv, Presented
  <1>5. CASE Tick \/ UNCHANGED gateVars
    BY <1>1, <1>5 DEF Tick, ClockStep, gateVars, vars, reqVars, GateInv, Presented
  <1> QED BY <1>2, <1>3, <1>4, <1>5 DEF GateNext

LEMMA GateInvariant == GateSpec => []GateInv
  BY GateInitInv, GateNextInv, PTL DEF GateSpec

\* A handler tells its client of a permit or a denial only if that decision is
\* durable for the request's tenant and policy, with the effect and the shape
\* the status shows (Gatekeeper::authorize, authorize_prepared,
\* authorize_resource).
THEOREM ResponsesAreAudited == GateSpec => []ResponseIsAudited
  <1>1. GateInv => ResponseIsAudited
    BY DEF GateInv, SafetyInv, Presented, ReturnedIsDurable, ResponseIsAudited, StatusOf
  <1> QED BY <1>1, GateInvariant, PTL

\* All hidden denials of one locale are one and the same response, whatever
\* clause, policy or tenant was decisive (DenialResponseConfig::hidden).
THEOREM HiddenDenialsAreUniform == GateSpec => []HiddenIsUniform
  <1>1. GateInv => HiddenIsUniform
    BY DEF GateInv, HiddenIsUniform, Hidden
  <1> QED BY <1>1, GateInvariant, PTL

LEMMA GateRunsAuthorizer == GateSpec => Spec
  BY GateStep, PTL DEF GateSpec, GateInit, Spec

\* Behind the handlers the boundary is the audited history all the same: the
\* gate adds no way to a decision that the promise does not know.
THEOREM GateKeepsPromise == GateSpec => ImplementsPromise
  BY GateRunsAuthorizer, BoundaryImplementsPromise
=============================================================================
