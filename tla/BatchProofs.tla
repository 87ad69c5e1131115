---------------------------- MODULE BatchProofs ----------------------------
(***************************************************************************)
(* Theorems about Batch for any set of callers, submissions and loads.     *)
(*                                                                         *)
(* The argument goes item by item: while a batch runs, the result vector   *)
(* is one shorter than the position of the loop, the frozen event is about *)
(* that position, and what the batch has made durable is named by a result *)
(* or is the frozen event.                                                 *)
(***************************************************************************)
EXTENDS Batch, TLAPS

-----------------------------------------------------------------------------
(***************************************************************************)
(* The sink's operations keep its state well formed and hold one event per *)
(* identity; its users change it through them only.                        *)
(***************************************************************************)
LEMMA SinkInitShape == ASSUME NEW E PROVE SinkInit => SinkShape(E) /\ SinkInv
  BY DEF SinkInit, SinkShape, SinkTypeOK, SinkInv, UniqueEvents, Closed, Phases

LEMMA SinkStepType ==
  ASSUME NEW E, NEW w \in Writers, SinkShape(E), NEW e \in E, SinkStep(w, e)
  PROVE  SinkShape(E)'
  <1> USE DEF SinkShape, SinkTypeOK, Phases
  <1>1. CASE Begin(w)
    BY <1>1 DEF Begin
  <1>2. CASE Enqueue(w, e)
    BY <1>2 DEF Enqueue
  <1>3. CASE EnqueueConflict(w, e) \/ Rollback(w)
    BY <1>3 DEF EnqueueConflict, Rollback, Closed
  <1>4. CASE Commit(w)
    BY <1>4 DEF Commit, Apply, Closed
  <1> QED BY <1>1, <1>2, <1>3, <1>4 DEF SinkStep

LEMMA SinkStepInv ==
  ASSUME NEW E, NEW w \in Writers, NEW e, SinkTypeOK(E), SinkInv, SinkStep(w, e)
  PROVE  SinkInv'
  <1> USE DEF SinkInv, SinkTypeOK, UniqueEvents, Stored
  <1>1. CASE Begin(w)
    BY <1>1 DEF Begin
  <1>2. CASE EnqueueConflict(w, e) \/ Rollback(w)
    BY <1>2 DEF EnqueueConflict, Rollback, Closed
  <1>3. CASE Enqueue(w, e)
    BY <1>3 DEF Enqueue, Awaited
  <1>4. CASE Commit(w)
    BY <1>4 DEF Commit, Apply, Closed
  <1> QED BY <1>1, <1>2, <1>3, <1>4 DEF SinkStep

-----------------------------------------------------------------------------
(***************************************************************************)
(* The parts of the invariant, for one caller.                             *)
(***************************************************************************)
Looping(b) == pc[b] \in {"item", "stamping", "recording", "recorded"}

\* Positions: where each loop stands.
Placed(b) ==
  /\ pc[b] # "idle" => batch[b] \in Submissions
  /\ pc[b] \in {"validating", "loading"} => next[b] \in 1 .. Size(b) /\ results[b] = <<>>
  /\ pc[b] = "loading" => next[b] = 1
  /\ Looping(b) =>
       /\ next[b] \in 1 .. Size(b) /\ Len(loaded[b]) = Size(b)
       /\ Len(results[b]) = next[b] - 1
  /\ pc[b] = "stamping" => Paired(b) \in Resolutions

\* The event e is about position i of submission s, decided from load l.
Matches(e, s, l, i) ==
  /\ e.tenant = s.contexts[i].tenant /\ e.binding = s.contexts[i].binding
  /\ e.policy = s.policy /\ l[i] # ItemError
  /\ e.evidence = l[i] /\ e.outcome = Decide[s.policy][l[i].present]

OwnId(b) == [owner |-> b, run |-> runs[b], item |-> next[b]]

\* The transaction carries the frozen event, and that is the item's own.
Conduct(b) ==
  /\ txn[b].phase # "closed" => pc[b] = "recording"
  /\ txn[b].phase \in {"written", "duplicate"} => txn[b].event = frozen[b]
  /\ pc[b] \in {"idle", "validating", "loading", "item", "stamping"} => frozen[b] = Nil
  /\ pc[b] \in {"recording", "recorded"} => frozen[b] \in Events
  /\ pc[b] = "recorded" => frozen[b] \in store
  /\ frozen[b] # Nil =>
       /\ batch[b] \in Submissions /\ Matches(frozen[b], batch[b], loaded[b], next[b])
       /\ frozen[b].id = OwnId(b) \/ frozen[b].id.owner = Nil

\* What the caller has been told so far is durable, and how it ended.
Reports(b) ==
  /\ \A i \in DOMAIN results[b] : results[b][i].ok => Answered(b, i)
  /\ answer[b] # "none" => pc[b] = "done"
  /\ answer[b] \in {"returned", "strict", "retained"} => Len(results[b]) = Size(b)
  /\ answer[b] = "strict" => Strict(results[b])
  /\ answer[b] \in WholeBatchErrors => results[b] = <<>> /\ frozen[b] = Nil

\* Every durable event of this submission is named by a result, or frozen.
Named(b, e) ==
  \/ pc[b] \in {"recorded", "done"} /\ frozen[b] # Nil /\ e.id = frozen[b].id
  \/ /\ e.id.item \in DOMAIN results[b]
     /\ results[b][e.id.item].id = e.id
     /\ results[b][e.id.item].ok \/ results[b][e.id.item].error = "audit"

Accounted(b) ==
  \A e \in store : e.id.owner = b =>
    e.id.run <= runs[b] /\ (e.id.run = runs[b] => Named(b, e))

\* An item is judged at its receipt and then not again.
JudgedAt(c, res, t) ==
  BindingValidAt(c.binding, t) /\ ResolutionValidAt(res, t) /\ Complete(c, res)

Judging(b) ==
  /\ pc[b] = "stamping" => JudgedAt(Current(b), Paired(b), received[b])
  /\ frozen[b] # Nil =>
       /\ BindingValidAt(frozen[b].binding, received[b])
       /\ ResolutionValidAt(frozen[b].evidence, received[b])
       /\ Required[batch[b].policy] \subseteq frozen[b].evidence.known

CallerInv(b) == Placed(b) /\ Conduct(b) /\ Reports(b) /\ Accounted(b) /\ Judging(b)

TypeInv == TypeOK /\ SinkShape(Events)

BatchInv ==
  /\ TypeInv /\ SinkInv /\ observed \subseteq store
  /\ \A b \in Callers : CallerInv(b)

-----------------------------------------------------------------------------
(***************************************************************************)
(* Types.                                                                  *)
(***************************************************************************)
LEMMA AppendFacts ==
  ASSUME NEW S, NEW s \in Seq(S), NEW x \in S
  PROVE  /\ Append(s, x) \in Seq(S) /\ Len(Append(s, x)) = Len(s) + 1
         /\ DOMAIN Append(s, x) = 1 .. Len(s) + 1 /\ DOMAIN s = 1 .. Len(s)
         /\ \A i \in 1 .. Len(s) : Append(s, x)[i] = s[i]
         /\ Append(s, x)[Len(s) + 1] = x
  OBVIOUS

LEMMA SubmissionFields ==
  ASSUME NEW s \in Submissions
  PROVE  /\ s.policy \in Policies /\ s.contexts \in Seq(Contexts) /\ s.limit \in Nat
         /\ Len(s.contexts) \in Nat /\ DOMAIN s.contexts = 1 .. Len(s.contexts)
         /\ \A i \in 1 .. Len(s.contexts) : s.contexts[i] \in Contexts
  BY SubmissionsAssumption

LEMMA CurrentFields ==
  ASSUME NEW b \in Callers, batch[b] \in Submissions, next[b] \in 1 .. Size(b)
  PROVE  /\ Current(b).op = "authorize_batch" /\ Current(b).policy \in Policies
         /\ Current(b).tenant \in Tenants /\ Current(b).binding \in Bindings
         /\ Current(b).policy = batch[b].policy
         /\ Current(b).tenant = batch[b].contexts[next[b]].tenant
         /\ Current(b).binding = batch[b].contexts[next[b]].binding
         /\ Current(b).occurrence # Nil =>
              /\ Current(b).occurrence.id \in AuditIds /\ Current(b).occurrence.at \in Time
              /\ Current(b).occurrence.id.owner = Nil
  <1>1. batch[b].contexts[next[b]] \in Contexts /\ batch[b].policy \in Policies
    BY SubmissionFields DEF Size
  <1> QED BY <1>1 DEF Current, Asked, Contexts, AuditIds

LEMMA OccurrenceFields ==
  ASSUME NEW b \in Callers, TypeOK, batch[b] \in Submissions, next[b] \in 1 .. Size(b)
  PROVE  /\ Occurrence(b).id \in AuditIds /\ Occurrence(b).at \in Time
         /\ Occurrence(b).id = OwnId(b) \/ Occurrence(b).id.owner = Nil
  <1>1. OwnId(b) \in AuditIds
    BY DEF OwnId, AuditIds, TypeOK
  <1> QED BY <1>1, CurrentFields DEF Occurrence, OwnId, TypeOK

\* What the zip yields at the loop's position.
LEMMA PairedType ==
  ASSUME NEW b \in Callers, TypeOK, Placed(b), Looping(b)
  PROVE  Paired(b) = loaded[b][next[b]] /\ Paired(b) \in Resolutions \union {ItemError}
  <1>1. next[b] \in 1 .. Len(loaded[b]) BY DEF Placed
  <1>2. loaded[b] \in Seq(Resolutions \union {ItemError})
    <2>1. loaded[b] \in Loads \/ loaded[b] = <<>> BY DEF TypeOK
    <2>2. <<>> \in Seq(Resolutions \union {ItemError}) OBVIOUS
    <2> QED BY <2>1, <2>2, LoadsAssumption
  <1> QED BY <1>1, <1>2 DEF Paired

LEMMA StampedEvent ==
  ASSUME NEW b \in Callers, TypeOK, Placed(b), pc[b] = "stamping",
         NEW e, e = FromDecision(Current(b), Occurrence(b), Paired(b))
  PROVE  /\ e \in Events /\ Matches(e, batch[b], loaded[b], next[b])
         /\ e.id = OwnId(b) \/ e.id.owner = Nil
  <1>1. /\ batch[b] \in Submissions /\ next[b] \in 1 .. Size(b)
        /\ Paired(b) \in Resolutions /\ Paired(b) = loaded[b][next[b]]
    BY PairedType DEF Placed, Looping
  <1>2. Paired(b) # ItemError BY <1>1, ModelValues DEF ItemError
  <1>3. Decide[batch[b].policy][Paired(b).present] \in Decisions
    <2>1. batch[b].policy \in Policies BY <1>1, SubmissionFields
    <2>2. Paired(b).present \in SUBSET Facts BY <1>1, LoadsAssumption DEF AllResolutions
    <2> QED BY <2>1, <2>2, PolicyAssumption
  <1>4. e \in Events
    BY <1>1, <1>3, CurrentFields, OccurrenceFields DEF FromDecision, Events
  <1>5. Matches(e, batch[b], loaded[b], next[b])
    BY <1>1, <1>2, CurrentFields DEF FromDecision, Matches
  <1> QED BY <1>1, <1>4, <1>5, OccurrenceFields DEF FromDecision

LEMMA ErrType ==
  ASSUME NEW error \in {"resolve", "context", "evidence", "trace", "occurrence", "audit"},
         NEW id \in AuditIds \union {Nil}
  PROVE  /\ Err(error, id) \in Results /\ ~Err(error, id).ok
         /\ Err(error, id).error = error /\ Err(error, id).id = id
  BY DEF Err, Results

LEMMA OkType ==
  ASSUME NEW e \in Events
  PROVE  Ok(e) \in Results /\ Ok(e).ok /\ Ok(e).id = e.id /\ Ok(e).outcome = e.outcome
  <1>1. e.outcome \in Decisions /\ e.id \in AuditIds BY DEF Events
  <1>2. Ok(e) \in [ok : {TRUE}, outcome : Decisions, id : AuditIds] BY <1>1 DEF Ok
  <1>3. Ok(e).ok BY Zenon DEF Ok
  <1> QED BY <1>2, <1>3 DEF Ok, Results

LEMMA PushType ==
  ASSUME NEW b \in Callers, TypeOK, NEW result \in Results, Push(b, result)
  PROVE  /\ results' \in [Callers -> Seq(Results)] /\ frozen' \in [Callers -> Events \union {Nil}]
         /\ next' \in [Callers -> Nat] /\ pc' \in [Callers -> PCs] /\ answer' \in [Callers -> Answers]
  <1>1. Append(results[b], result) \in Seq(Results)
    BY AppendFacts DEF TypeOK
  <1>2. results' \in [Callers -> Seq(Results)]
    BY <1>1 DEF TypeOK, Push
  <1>3. next' \in [Callers -> Nat] /\ frozen' \in [Callers -> Events \union {Nil}]
    BY DEF TypeOK, Push
  <1>4. pc' \in [Callers -> PCs] /\ answer' \in [Callers -> Answers]
    BY DEF TypeOK, Push, EndWith, PCs, Answers
  <1> QED BY <1>2, <1>3, <1>4

\* The sink's part: every step of a batch is an operation of the sink or
\* leaves it alone.
LEMMA SinkOfCaller ==
  ASSUME NEW b \in Callers, BatchInv,
         \/ RecordBegin(b) \/ RecordEnqueue(b) \/ RecordCommit(b) \/ RecordConflict(b)
         \/ RecordFails(b) \/ Drop(b)
  PROVE  SinkShape(Events)' /\ SinkInv'
  <1>1. b \in Writers /\ CallerInv(b) BY DEF Callers, BatchInv
  <1>2. pc[b] = "recording" => frozen[b] \in Events BY <1>1 DEF CallerInv, Conduct
  <1>3. CASE pc[b] = "recording"
    <2>1. SinkStep(b, frozen[b])
      BY <1>3 DEF SinkStep, RecordBegin, RecordEnqueue, RecordCommit, RecordConflict, RecordFails,
                  Drop, LostReply
    <2> QED BY <1>1, <1>2, <1>3, <2>1, SinkStepType, SinkStepInv DEF BatchInv, TypeInv, TypeOK
  <1>4. CASE pc[b] # "recording"
    <2>1. txn[b].phase = "closed" BY <1>1, <1>4 DEF CallerInv, Conduct
    <2>2. Rollback(b)
      BY <1>4, <2>1 DEF RecordBegin, RecordEnqueue, RecordCommit, RecordConflict, RecordFails,
                        Drop, LostReply, Commit
    <2>3. SinkInv' BY <1>1, <2>2, SinkStepInv DEF SinkStep, BatchInv, TypeInv, TypeOK
    <2>4. SinkShape(Events)'
      BY <2>2 DEF Rollback, Closed, BatchInv, TypeInv, SinkShape, SinkTypeOK, Phases, Callers
    <2> QED BY <2>3, <2>4
  <1> QED BY <1>3, <1>4

LEMMA SinkUnchanged ==
  ASSUME BatchInv, UNCHANGED <<store, txn>>
  PROVE  SinkShape(Events)' /\ SinkInv'
  BY DEF BatchInv, TypeInv, SinkShape, SinkTypeOK, SinkInv, UniqueEvents, Stored

LEMMA SubmitType ==
  ASSUME NEW b \in Callers, BatchInv, NEW s \in Submissions, Submit(b, s)
  PROVE  TypeInv'
  <1>1. SinkShape(Events)' BY SinkUnchanged DEF Submit, sinkVars
  <1>2. <<>> \in Seq(Results) OBVIOUS
  <1>3. /\ runs' \in [Callers -> 0 .. MaxRuns] /\ next' \in [Callers -> Nat]
    BY BoundsAssumption DEF Submit, BatchInv, TypeInv, TypeOK
  <1>4. pc' \in [Callers -> PCs] /\ answer' \in [Callers -> Answers]
    BY DEF Submit, EndWith, BatchInv, TypeInv, TypeOK, PCs, Answers
  <1>5. /\ batch' \in [Callers -> Submissions \union {Nil}] /\ results' \in [Callers -> Seq(Results)]
        /\ loaded' \in [Callers -> Loads \union {<<>>}]
        /\ frozen' \in [Callers -> Events \union {Nil}]
    BY <1>2 DEF Submit, BatchInv, TypeInv, TypeOK
  <1> QED BY <1>1, <1>3, <1>4, <1>5 DEF Submit, BatchInv, TypeInv, TypeOK, SinkShape

\* Steps that push nothing.
LEMMA QuietStepType ==
  ASSUME NEW b \in Callers, BatchInv,
         \/ Validate(b) \/ LoadFails(b) \/ (\E a \in Loads : Load(b, a)) \/ Stamp(b)
         \/ RecordBegin(b) \/ RecordEnqueue(b) \/ RecordCommit(b) \/ Drop(b) \/ IntoStrict(b)
  PROVE  TypeInv'
  <1>1. SinkShape(Events)'
    <2>1. CASE Validate(b) \/ LoadFails(b) \/ (\E a \in Loads : Load(b, a)) \/ Stamp(b) \/ IntoStrict(b)
      BY <2>1, SinkUnchanged DEF Validate, LoadFails, Load, Stamp, IntoStrict, sinkVars
    <2> QED BY <2>1, SinkOfCaller
  <1> USE DEF BatchInv, TypeInv, TypeOK, SinkShape
  <1>2. CASE Validate(b)
    <2>1. pc' \in [Callers -> PCs] /\ answer' \in [Callers -> Answers]
      BY <1>2 DEF Validate, EndWith, PCs, Answers
    <2>2. next' \in [Callers -> Nat]
      <3>1. next \in [Callers -> Nat] /\ next[b] \in Nat OBVIOUS
      <3>2. next' = next \/ \E k \in Nat : next' = [next EXCEPT ![b] = k] BY <1>2, <3>1 DEF Validate
      <3> QED BY <3>1, <3>2
    <2> QED BY <1>1, <1>2, <2>1, <2>2 DEF Validate
  <1>3. CASE LoadFails(b) \/ (\E a \in Loads : Load(b, a))
    <2>1. pc' \in [Callers -> PCs] /\ answer' \in [Callers -> Answers]
      BY <1>3 DEF LoadFails, Load, EndWith, PCs, Answers
    <2>2. loaded' \in [Callers -> Loads \union {<<>>}]
      BY <1>3 DEF LoadFails, Load, itemVars
    <2> QED BY <1>1, <1>3, <2>1, <2>2 DEF LoadFails, Load, itemVars
  <1>4. CASE Stamp(b)
    <2>1. FromDecision(Current(b), Occurrence(b), Paired(b)) \in Events
      BY <1>4, StampedEvent DEF Stamp, CallerInv
    <2> QED BY <1>1, <1>4, <2>1 DEF Stamp, PCs
  <1>5. CASE RecordBegin(b) \/ RecordEnqueue(b) \/ RecordCommit(b)
    <2>1. pc' \in [Callers -> PCs]
      BY <1>5 DEF RecordBegin, RecordEnqueue, RecordCommit, PCs
    <2> QED BY <1>1, <1>5, <2>1 DEF RecordBegin, RecordEnqueue, RecordCommit, itemVars
  <1>6. CASE Drop(b)
    BY <1>1, <1>6, BoundsAssumption DEF Drop, EndWith, PCs, Answers, itemVars
  <1>7. CASE IntoStrict(b)
    BY <1>1, <1>7 DEF IntoStrict, Answers, itemVars
  <1> QED BY <1>2, <1>3, <1>4, <1>5, <1>6, <1>7

\* What a step that pushes has in common, whatever the result is.
PushStep(b, result) ==
  /\ Push(b, result) /\ UNCHANGED <<now, batch, runs, loaded>>
  /\ received' = received \/ received' = [received EXCEPT ![b] = now]
  /\ Looping(b)

LEMMA PushSteps ==
  ASSUME NEW b \in Callers, BatchInv,
         \/ Assemble(b) \/ \E error \in {"evidence", "trace", "occurrence"} : AssembleFails(b, error)
         \/ RecordConflict(b) \/ RecordFails(b) \/ Finish(b)
  PROVE  \/ /\ Assemble(b) /\ pc' = [pc EXCEPT ![b] = "stamping"]
            /\ UNCHANGED <<next, frozen, results, answer>>
            /\ received' = [received EXCEPT ![b] = now]
            /\ Paired(b) \in Resolutions /\ JudgedAt(Current(b), Paired(b), now)
         \/ /\ UNCHANGED <<store, txn, observed, faults>>
            /\ \E error \in {"resolve", "context", "evidence", "trace", "occurrence"} :
                 PushStep(b, Err(error, Nil)) /\ pc[b] \in {"item", "stamping"}
         \/ /\ RecordConflict(b) \/ RecordFails(b)
            /\ pc[b] = "recording" /\ PushStep(b, Err("audit", frozen[b].id))
         \/ Finish(b) /\ pc[b] = "recorded" /\ PushStep(b, Ok(frozen[b]))
  <1>1. TypeOK /\ Placed(b) BY DEF BatchInv, TypeInv, CallerInv
  <1>2. CASE Assemble(b)
    <2>1. Paired(b) # ItemError => Paired(b) \in Resolutions
      BY <1>1, <1>2, PairedType DEF Assemble, Looping
    <2>2. CASE \E error \in {"resolve", "context"} : Push(b, Err(error, Nil))
      BY <1>2, <2>2 DEF Assemble, PushStep, Looping, sinkVars, Judge
    <2> QED BY <1>2, <2>1, <2>2 DEF Assemble, Judge, JudgedAt, ContextValidAt
  <1>3. CASE \E error \in {"evidence", "trace", "occurrence"} : AssembleFails(b, error)
    BY <1>3 DEF AssembleFails, PushStep, Looping, sinkVars
  <1>4. CASE RecordConflict(b) \/ RecordFails(b)
    BY <1>4 DEF RecordConflict, RecordFails, PushStep, Looping
  <1>5. CASE Finish(b)
    BY <1>5 DEF Finish, PushStep, Looping
  <1> QED BY <1>2, <1>3, <1>4, <1>5

LEMMA PushStepType ==
  ASSUME NEW b \in Callers, BatchInv,
         \/ Assemble(b) \/ \E error \in {"evidence", "trace", "occurrence"} : AssembleFails(b, error)
         \/ RecordConflict(b) \/ RecordFails(b) \/ Finish(b)
  PROVE  TypeInv'
  <1>1. TypeOK /\ CallerInv(b) BY DEF BatchInv, TypeInv
  <1>2. SinkShape(Events)'
    <2>1. CASE RecordConflict(b) \/ RecordFails(b)
      BY <2>1, SinkOfCaller
    <2> QED BY <2>1, SinkUnchanged DEF Assemble, AssembleFails, Finish, sinkVars
  <1>3. observed' \subseteq Events /\ faults' \in 0 .. MaxFaults
    <2>1. Finish(b) => frozen[b] \in Events BY <1>1 DEF Finish, CallerInv, Conduct
    <2> QED
      BY <1>1, <2>1, BoundsAssumption
      DEF Assemble, AssembleFails, RecordConflict, RecordFails, Finish, TypeOK
  <1>4. ASSUME NEW result \in Results, PushStep(b, result) PROVE TypeInv'
    <2>1. received' \in [Callers -> Time] BY <1>1, <1>4 DEF PushStep, TypeOK
    <2> QED BY <1>1, <1>2, <1>3, <1>4, <2>1, PushType DEF PushStep, TypeInv, TypeOK, SinkShape
  <1>5. CASE /\ Assemble(b) /\ pc' = [pc EXCEPT ![b] = "stamping"]
             /\ UNCHANGED <<next, frozen, results, answer>>
             /\ received' = [received EXCEPT ![b] = now]
    BY <1>1, <1>2, <1>5 DEF Assemble, TypeInv, TypeOK, SinkShape, PCs
  <1>6. CASE \E error \in {"resolve", "context", "evidence", "trace", "occurrence"} :
               PushStep(b, Err(error, Nil))
    BY <1>4, <1>6, ErrType
  <1>7. CASE pc[b] \in {"recording", "recorded"} /\ (\/ PushStep(b, Err("audit", frozen[b].id))
                                                   \/ PushStep(b, Ok(frozen[b])))
    <2>1. frozen[b] \in Events BY <1>1, <1>7 DEF CallerInv, Conduct
    <2>2. frozen[b].id \in AuditIds BY <2>1 DEF Events
    <2> QED BY <1>4, <1>7, <2>1, <2>2, ErrType, OkType
  <1> QED BY <1>5, <1>6, <1>7, PushSteps

-----------------------------------------------------------------------------
(***************************************************************************)
(* The other callers: a step of b leaves their state alone, and the event  *)
(* it may add to the store is not theirs.                                  *)
(***************************************************************************)
Same(x) ==
  /\ pc'[x] = pc[x] /\ batch'[x] = batch[x] /\ runs'[x] = runs[x] /\ next'[x] = next[x]
  /\ loaded'[x] = loaded[x] /\ received'[x] = received[x] /\ frozen'[x] = frozen[x]
  /\ results'[x] = results[x] /\ answer'[x] = answer[x] /\ txn'[x] = txn[x]

LEMMA SameInv ==
  ASSUME NEW x \in Callers, CallerInv(x), Same(x), store \subseteq store',
         \A e \in store' \ store : e.id.owner # x
  PROVE  CallerInv(x)'
  <1>1. Placed(x)'
    BY DEF CallerInv, Same, Placed, Looping, Size, Paired
  <1>2. Conduct(x)'
    BY DEF CallerInv, Same, Conduct, Matches, OwnId
  <1>3. Reports(x)'
    <2>1. ASSUME NEW i \in DOMAIN results[x], Answered(x, i) PROVE Answered(x, i)'
      BY <2>1 DEF Same, Answered
    <2> QED BY <2>1 DEF CallerInv, Same, Reports, Size
  <1>4. Accounted(x)'
    BY DEF CallerInv, Same, Accounted, Named
  <1>5. Judging(x)'
    BY DEF CallerInv, Same, Judging, JudgedAt, Current, Asked, Paired
  <1> QED BY <1>1, <1>2, <1>3, <1>4, <1>5 DEF CallerInv

CallerStep(b) == (\E s \in Submissions : Submit(b, s)) \/ Step(b) \/ RecordFails(b) \/ Drop(b) \/ IntoStrict(b)

LEMMA OthersSame ==
  ASSUME NEW b \in Callers, BatchInv, CallerStep(b), NEW x \in Callers \ {b}
  PROVE  Same(x)
  <1>0. TypeOK /\ txn \in [Callers -> [phase : Phases, event : Events \union {Nil}]]
    BY DEF BatchInv, TypeInv, TypeOK, SinkTypeOK, Callers
  <1>1. CASE \E s \in Submissions : Submit(b, s)
    BY <1>0, <1>1 DEF Submit, EndWith, Same, TypeOK, sinkVars
  <1>2. CASE Validate(b) \/ LoadFails(b) \/ (\E a \in Loads : Load(b, a))
    BY <1>0, <1>2 DEF Validate, LoadFails, Load, EndWith, Same, TypeOK, itemVars, sinkVars
  <1>3. CASE Stamp(b) \/ IntoStrict(b)
    BY <1>0, <1>3 DEF Stamp, IntoStrict, Same, TypeOK, itemVars, sinkVars
  <1>4. CASE RecordBegin(b) \/ RecordEnqueue(b) \/ RecordCommit(b) \/ Drop(b)
    BY <1>0, <1>4 DEF RecordBegin, RecordEnqueue, RecordCommit, Drop, LostReply, Begin, Enqueue,
                      Commit, Rollback, EndWith, Same, TypeOK, itemVars
  <1>5. CASE \/ Assemble(b) \/ \E error \in {"evidence", "trace", "occurrence"} : AssembleFails(b, error)
             \/ RecordConflict(b) \/ RecordFails(b) \/ Finish(b)
    <2>1. txn'[x] = txn[x]
      BY <1>0, <1>5 DEF Assemble, AssembleFails, RecordConflict, RecordFails, Finish, LostReply,
                        EnqueueConflict, Commit, Rollback, sinkVars
    <2>2. ASSUME NEW result, PushStep(b, result) PROVE Same(x)
      BY <1>0, <2>1, <2>2 DEF PushStep, Push, EndWith, Same, TypeOK
    <2>3. CASE /\ Assemble(b) /\ pc' = [pc EXCEPT ![b] = "stamping"]
               /\ UNCHANGED <<next, frozen, results, answer>>
      BY <1>0, <2>1, <2>3 DEF Assemble, Same, TypeOK
    <2> QED BY <1>5, <2>2, <2>3, PushSteps
  <1> QED BY <1>1, <1>2, <1>3, <1>4, <1>5 DEF CallerStep, Step

\* The store grows by the frozen event of an item in its transaction, only.
LEMMA StoreStep ==
  ASSUME NEW b \in Callers, BatchInv, CallerStep(b)
  PROVE  \/ store' = store
         \/ /\ RecordCommit(b) \/ RecordFails(b) \/ Drop(b)
            /\ pc[b] = "recording" /\ frozen[b] \in Events /\ store' = store \union {frozen[b]}
  <1>1. CallerInv(b) BY DEF BatchInv
  <1>2. ASSUME Commit(b)
        PROVE  pc[b] = "recording" /\ frozen[b] \in Events
               /\ (store' = store \/ store' = store \union {frozen[b]})
    BY <1>1, <1>2 DEF Commit, Apply, CallerInv, Conduct
  <1>3. CASE RecordCommit(b) \/ RecordFails(b) \/ Drop(b)
    BY <1>2, <1>3 DEF RecordCommit, RecordFails, Drop, LostReply, Rollback
  <1>4. CASE \/ \E s \in Submissions : Submit(b, s)
             \/ Validate(b) \/ LoadFails(b) \/ (\E a \in Loads : Load(b, a)) \/ Assemble(b)
             \/ (\E error \in {"evidence", "trace", "occurrence"} : AssembleFails(b, error))
             \/ Stamp(b) \/ RecordBegin(b) \/ RecordEnqueue(b) \/ RecordConflict(b)
             \/ Finish(b) \/ IntoStrict(b)
    BY <1>4 DEF Submit, Validate, LoadFails, Load, Assemble, AssembleFails, Stamp, RecordBegin,
                RecordEnqueue, RecordConflict, Finish, IntoStrict, Begin, Enqueue, EnqueueConflict,
                sinkVars
  <1> QED BY <1>3, <1>4 DEF CallerStep, Step

LEMMA FrozenOwner ==
  ASSUME NEW b \in Callers, CallerInv(b), frozen[b] \in Events
  PROVE  /\ frozen[b].id.owner \in {b, Nil}
         /\ frozen[b].id.owner = b =>
              frozen[b].id.run = runs[b] /\ frozen[b].id.item = next[b]
  BY ModelValues DEF CallerInv, Conduct, OwnId

LEMMA OthersInv ==
  ASSUME NEW b \in Callers, BatchInv, CallerStep(b), NEW x \in Callers \ {b}
  PROVE  CallerInv(x)'
  <1>1. CallerInv(b) /\ CallerInv(x) /\ x # Nil BY ModelValues DEF BatchInv
  <1>2. store \subseteq store' BY StoreStep
  <1>3. \A e \in store' \ store : e.id.owner # x
    BY <1>1, StoreStep, FrozenOwner
  <1> QED BY <1>1, <1>2, <1>3, OthersSame, SameInv

-----------------------------------------------------------------------------
(***************************************************************************)
(* The caller that steps.                                                  *)
(***************************************************************************)
LEMMA SubmitInv ==
  ASSUME NEW b \in Callers, BatchInv, NEW s \in Submissions, Submit(b, s)
  PROVE  CallerInv(b)'
  <1>0. TypeOK /\ CallerInv(b) BY DEF BatchInv, TypeInv
  <1>1. /\ batch'[b] = s /\ runs'[b] = runs[b] + 1 /\ next'[b] = 1 /\ loaded'[b] = <<>>
        /\ frozen'[b] = Nil /\ results'[b] = <<>> /\ UNCHANGED <<store, txn>>
        /\ txn[b].phase = "closed"
    BY <1>0 DEF Submit, TypeOK, CallerInv, Conduct, sinkVars
  <1>2. \/ pc'[b] = "done" /\ answer'[b] = "limit"
        \/ pc'[b] = "done" /\ answer'[b] = "returned" /\ Len(s.contexts) = 0
        \/ pc'[b] = "validating" /\ answer'[b] = "none" /\ Len(s.contexts) >= 1
    BY <1>0, SubmissionFields DEF Submit, EndWith, TypeOK
  <1>3. Placed(b)'
    BY <1>1, <1>2, SubmissionFields DEF Placed, Looping, Size
  <1>4. Conduct(b)'
    BY <1>1, <1>2 DEF Conduct
  <1>5. Reports(b)'
    BY <1>1, <1>2 DEF Reports, Size, WholeBatchErrors
  <1>6. Accounted(b)'
    <2>1. runs[b] \in Nat BY <1>0 DEF TypeOK
    <2>2. \A e \in store : e.id.run \in Nat
      BY <1>0 DEF TypeOK, SinkTypeOK, Events, AuditIds
    <2>3. \A e \in store : e.id.owner = b => e.id.run <= runs[b]
      BY <1>0 DEF CallerInv, Accounted
    <2> QED BY <1>1, <2>1, <2>2, <2>3 DEF Accounted
  <1>7. Judging(b)'
    BY <1>1, <1>2 DEF Judging
  <1> QED BY <1>3, <1>4, <1>5, <1>6, <1>7 DEF CallerInv

\* Before the items: nothing is frozen, reported or durable yet.
LEMMA LoadStepInv ==
  ASSUME NEW b \in Callers, BatchInv,
         Validate(b) \/ LoadFails(b) \/ \E a \in Loads : Load(b, a)
  PROVE  CallerInv(b)'
  <1>0. TypeOK /\ CallerInv(b) BY DEF BatchInv, TypeInv
  <1>1. /\ pc[b] \in {"validating", "loading"} /\ frozen[b] = Nil /\ results[b] = <<>>
        /\ batch[b] \in Submissions /\ next[b] \in 1 .. Size(b) /\ txn[b].phase = "closed"
        /\ answer[b] = "none"
    BY <1>0 DEF Validate, LoadFails, Load, CallerInv, Placed, Conduct, Reports
  <1>2. UNCHANGED <<batch, runs, received, frozen, results, store, txn>>
    BY DEF Validate, LoadFails, Load, itemVars, sinkVars
  <1>3. \/ /\ pc'[b] = "done" /\ answer'[b] \in {"context", "resolve", "cardinality"}
           /\ next'[b] = next[b]
        \/ /\ pc'[b] = "validating" /\ answer'[b] = "none" /\ next'[b] \in 1 .. Size(b)
        \/ /\ pc'[b] = "loading" /\ answer'[b] = "none" /\ next'[b] = 1
        \/ /\ pc'[b] = "item" /\ answer'[b] = "none" /\ next'[b] = 1
           /\ Len(loaded'[b]) = Size(b)
    <2>1. CASE Validate(b)
      BY <1>0, <1>1, <2>1, SubmissionFields DEF Validate, EndWith, TypeOK, Size
    <2>2. CASE LoadFails(b) \/ \E a \in Loads : Load(b, a)
      BY <1>0, <1>1, <2>2 DEF LoadFails, Load, EndWith, TypeOK, itemVars, CallerInv, Placed
    <2> QED BY <2>1, <2>2
  <1>4. Placed(b)'
    <2>1. Size(b) \in Nat BY <1>1, SubmissionFields DEF Size
    <2> QED BY <1>1, <1>2, <1>3, <2>1 DEF Placed, Looping, Size
  <1>5. Conduct(b)' BY <1>1, <1>2, <1>3 DEF Conduct
  <1>6. Reports(b)' BY <1>1, <1>2, <1>3 DEF Reports, WholeBatchErrors
  <1>7. Accounted(b)' BY <1>0, <1>1, <1>2 DEF CallerInv, Accounted, Named
  <1>8. Judging(b)' BY <1>1, <1>2, <1>3 DEF Judging
  <1> QED BY <1>4, <1>5, <1>6, <1>7, <1>8 DEF CallerInv

\* An item passes its checks, or its event is frozen.
LEMMA ItemStepInv ==
  ASSUME NEW b \in Callers, BatchInv,
         \/ /\ Assemble(b) /\ pc' = [pc EXCEPT ![b] = "stamping"]
            /\ UNCHANGED <<next, frozen, results, answer>>
            /\ received' = [received EXCEPT ![b] = now]
            /\ Paired(b) \in Resolutions /\ JudgedAt(Current(b), Paired(b), now)
         \/ Stamp(b)
  PROVE  CallerInv(b)'
  <1>0. TypeOK /\ CallerInv(b) BY DEF BatchInv, TypeInv
  <1>1. /\ UNCHANGED <<batch, runs, next, loaded, results, answer, store, txn>>
        /\ Looping(b) /\ Looping(b)' /\ txn[b].phase = "closed" /\ answer[b] = "none"
        /\ frozen[b] = Nil /\ pc[b] \in {"item", "stamping"} /\ pc'[b] \in {"stamping", "recording"}
    BY <1>0 DEF Assemble, Stamp, TypeOK, CallerInv, Conduct, Reports, Looping, sinkVars
  <1>2. Paired(b) \in Resolutions /\ batch[b] \in Submissions /\ next[b] \in 1 .. Size(b)
    BY <1>0, <1>1 DEF Stamp, CallerInv, Placed
  <1>3. Placed(b)' BY <1>0, <1>1, <1>2 DEF CallerInv, Placed, Looping, Size, Paired
  <1>4. Reports(b)' BY <1>0, <1>1 DEF CallerInv, Reports, Answered, WholeBatchErrors
  <1>5. Accounted(b)' BY <1>0, <1>1 DEF CallerInv, Accounted, Named
  <1>6. Conduct(b)' /\ Judging(b)'
    <2>1. CASE Assemble(b) /\ frozen' = frozen /\ received' = [received EXCEPT ![b] = now]
               /\ pc' = [pc EXCEPT ![b] = "stamping"] /\ JudgedAt(Current(b), Paired(b), now)
      <3>1. pc'[b] = "stamping" /\ received'[b] = now BY <1>0, <2>1 DEF TypeOK
      <3>2. Conduct(b)' BY <1>1, <2>1, <3>1 DEF Conduct
      <3>3. Judging(b)' BY <1>1, <2>1, <3>1 DEF Judging, JudgedAt, Current, Asked, Paired
      <3> QED BY <3>2, <3>3
    <2>2. CASE Stamp(b)
      <3> DEFINE e == FromDecision(Current(b), Occurrence(b), Paired(b))
      <3>1. pc'[b] = "recording" /\ frozen'[b] = e /\ received'[b] = received[b] /\ pc[b] = "stamping"
        BY <1>0, <2>2 DEF Stamp, TypeOK
      <3>2. /\ e \in Events /\ Matches(e, batch[b], loaded[b], next[b])
            /\ e.id = OwnId(b) \/ e.id.owner = Nil
        BY <1>0, <3>1, StampedEvent DEF CallerInv
      <3>3. Conduct(b)'
        BY <1>1, <1>2, <3>1, <3>2 DEF Conduct, Matches, OwnId
      <3>4. JudgedAt(Current(b), Paired(b), received[b]) BY <1>0, <3>1 DEF CallerInv, Judging
      <3>5. e.binding = Current(b).binding /\ e.evidence = Paired(b) BY DEF FromDecision
      <3>6. Checked(Current(b)) /\ Current(b).policy = batch[b].policy
        BY <1>2, CurrentFields DEF Checked
      <3> HIDE DEF e
      <3>7. Judging(b)'
        BY <1>1, <3>1, <3>4, <3>5, <3>6 DEF Judging, JudgedAt, Complete
      <3> QED BY <3>3, <3>7
    <2> QED BY <2>1, <2>2
  <1> QED BY <1>3, <1>4, <1>5, <1>6 DEF CallerInv

\* The item's transaction: begin, enqueue, commit.
LEMMA RecordStepInv ==
  ASSUME NEW b \in Callers, BatchInv, RecordBegin(b) \/ RecordEnqueue(b) \/ RecordCommit(b)
  PROVE  CallerInv(b)'
  <1>0. /\ TypeOK /\ CallerInv(b) /\ b \in Writers
        /\ txn \in [Writers -> [phase : Phases, event : Events \union {Nil}]]
    BY DEF BatchInv, TypeInv, TypeOK, SinkTypeOK, Callers
  <1>1. /\ UNCHANGED <<batch, runs, itemVars, answer>> /\ pc[b] = "recording"
        /\ frozen[b] \in Events /\ frozen[b] # Nil /\ answer[b] = "none"
        /\ Looping(b)
    BY <1>0, ModelValues DEF RecordBegin, RecordEnqueue, RecordCommit, CallerInv, Conduct, Reports, Looping
  <1>2. \/ pc'[b] = "recording" /\ store' = store /\ ~RecordCommit(b)
        \/ /\ RecordCommit(b) /\ pc'[b] = "recorded" /\ txn'[b].phase = "closed"
           /\ store' \in {store, store \union {frozen[b]}} /\ frozen[b] \in store'
    <2>1. CASE RecordBegin(b) \/ RecordEnqueue(b)
      <3>1. txn'[b].phase # "closed" /\ store' = store /\ pc' = pc
        BY <1>0, <2>1 DEF RecordBegin, RecordEnqueue, Begin, Enqueue
      <3>2. RecordCommit(b) => txn'[b].phase = "closed"
        BY <1>0 DEF RecordCommit, Commit, Closed
      <3> QED BY <1>1, <3>1, <3>2
    <2>2. CASE RecordCommit(b)
      <3>1. txn[b].event = frozen[b] /\ txn[b].phase \in {"written", "duplicate"}
        BY <1>0, <2>2 DEF RecordCommit, Commit, CallerInv, Conduct
      <3>2. txn[b].phase = "duplicate" => frozen[b] \in store
        BY <1>0, <3>1 DEF BatchInv, SinkInv
      <3> QED BY <1>0, <2>2, <3>1, <3>2 DEF RecordCommit, Commit, Apply, Closed, TypeOK
    <2> QED BY <2>1, <2>2
  <1>3. store \subseteq store' BY <1>2
  <1>4. Placed(b)' BY <1>0, <1>1, <1>2 DEF CallerInv, Placed, Looping, Size, Paired, itemVars
  <1>5. Conduct(b)'
    <2>1. /\ txn'[b].phase # "closed" => pc'[b] = "recording"
          /\ txn'[b].phase \in {"written", "duplicate"} => txn'[b].event = frozen[b]
      <3>1. CASE RecordBegin(b)
        BY <1>0, <1>1, <3>1 DEF RecordBegin, Begin
      <3>2. CASE RecordEnqueue(b)
        BY <1>0, <1>1, <3>2 DEF RecordEnqueue, Enqueue
      <3>3. CASE RecordCommit(b)
        BY <1>2, <3>3
      <3> QED BY <3>1, <3>2, <3>3
    <2> QED BY <1>0, <1>1, <1>2, <2>1 DEF CallerInv, Conduct, Matches, OwnId, itemVars
  <1>6. Reports(b)'
    <2>1. ASSUME NEW i \in DOMAIN results[b], Answered(b, i) PROVE Answered(b, i)'
      BY <1>1, <1>3, <2>1 DEF Answered, itemVars
    <2> QED BY <1>0, <1>1, <2>1 DEF CallerInv, Reports, itemVars, WholeBatchErrors
  <1>7. Accounted(b)'
    <2>1. ASSUME NEW e \in store PROVE e.id.owner = b =>
            e.id.run <= runs[b] /\ (e.id.run = runs[b] => Named(b, e)')
      BY <1>0, <1>1, <2>1 DEF CallerInv, Accounted, Named, itemVars
    <2>2. ASSUME frozen[b] \in store', frozen[b] \notin store PROVE frozen[b].id.owner = b =>
            frozen[b].id.run <= runs[b] /\ Named(b, frozen[b])'
      BY <1>0, <1>1, <1>2, <2>2, FrozenOwner DEF Named, itemVars, TypeOK
    <2> QED BY <1>1, <1>2, <2>1, <2>2 DEF Accounted, Named, itemVars
  <1>8. Judging(b)'
    BY <1>0, <1>1, <1>2 DEF CallerInv, Judging, JudgedAt, Current, Asked, Paired, itemVars
  <1> QED BY <1>4, <1>5, <1>6, <1>7, <1>8 DEF CallerInv

\* A push: the item's result takes the place of its frozen event.
LEMMA PushInv ==
  ASSUME NEW b \in Callers, BatchInv, NEW result \in Results, PushStep(b, result),
         result.ok => /\ Matches(frozen[b], batch[b], loaded[b], next[b])
                      /\ result.id = frozen[b].id /\ result.outcome = frozen[b].outcome
                      /\ frozen[b] \in store,
         store \subseteq store', txn'[b].phase = "closed",
         \A e \in store' : e.id.owner = b =>
           /\ e.id.run <= runs[b]
           /\ e.id.run = runs[b] =>
                \/ e \in store /\ Named(b, e) /\ pc[b] # "recorded"
                \/ e \in store /\ Named(b, e) /\ frozen[b] # Nil /\ e.id # frozen[b].id
                \/ e.id.item = next[b] /\ e.id = result.id /\ (result.ok \/ result.error = "audit")
  PROVE  CallerInv(b)'
  <1>0. TypeOK /\ CallerInv(b) BY DEF BatchInv, TypeInv
  <1>1. /\ batch[b] \in Submissions /\ next[b] \in 1 .. Size(b) /\ Len(loaded[b]) = Size(b)
        /\ Len(results[b]) = next[b] - 1 /\ results[b] \in Seq(Results) /\ Size(b) \in Nat
        /\ answer[b] = "none"
    BY <1>0, SubmissionFields DEF PushStep, CallerInv, Placed, Looping, Reports, TypeOK, Size
  <1>2. /\ frozen'[b] = Nil /\ next'[b] = next[b] + 1 /\ UNCHANGED <<batch, runs, loaded>>
        /\ results'[b] = Append(results[b], result)
        /\ \/ next[b] = Size(b) /\ pc'[b] = "done" /\ answer'[b] = "returned"
           \/ next[b] # Size(b) /\ pc'[b] = "item" /\ answer'[b] = "none"
    BY <1>0, <1>1 DEF PushStep, Push, EndWith, TypeOK
  <1>3. /\ Len(results'[b]) = next[b] /\ DOMAIN results'[b] = 1 .. next[b]
        /\ DOMAIN results[b] = 1 .. next[b] - 1
        /\ \A i \in 1 .. next[b] - 1 : results'[b][i] = results[b][i]
        /\ results'[b][next[b]] = result
    BY <1>1, <1>2, AppendFacts
  <1>4. Placed(b)'
    BY <1>1, <1>2, <1>3 DEF Placed, Looping, Size
  <1>5. Conduct(b)'
    BY <1>2 DEF Conduct
  <1>6. Reports(b)'
    <2>1. ASSUME NEW i \in 1 .. next[b] - 1, results'[b][i].ok PROVE Answered(b, i)'
      <3>1. Answered(b, i) BY <1>0, <1>3, <2>1 DEF CallerInv, Reports
      <3>2. i \in DOMAIN results'[b] BY <1>1, <1>3
      <3>3. results'[b][i] = results[b][i] BY <1>3, <2>1
      <3> QED BY <1>2, <2>1, <3>1, <3>2, <3>3, ZenonT(60) DEF Answered
    <2>2. ASSUME result.ok, NEW i, i = next[b] PROVE Answered(b, i)'
      <3>1. i \in DOMAIN results'[b] /\ results'[b][i] = result BY <1>1, <1>3, <2>2
      <3>2. frozen[b] \in store' BY <2>2
      <3>3. Matches(frozen[b], batch'[b], loaded'[b], i) BY <1>2, <2>2
      <3> QED BY <2>2, <3>1, <3>2, <3>3 DEF Answered, Matches
    <2>3. \A i \in DOMAIN results'[b] : results'[b][i].ok => Answered(b, i)'
      BY <1>1, <1>3, <2>1, <2>2
    <2> QED BY <1>1, <1>2, <1>3, <2>3 DEF Reports, Size, WholeBatchErrors
  <1>7. Accounted(b)'
    <2>1. ASSUME NEW e \in store', e.id.owner = b, e.id.run = runs[b] PROVE Named(b, e)'
      <3>1. CASE e.id.item = next[b] /\ e.id = result.id /\ (result.ok \/ result.error = "audit")
        <4>1. e.id.item \in DOMAIN results'[b] /\ results'[b][e.id.item] = result
          BY <1>1, <1>3, <3>1
        <4> QED BY <3>1, <4>1, Zenon DEF Named
      <3>2. CASE /\ e.id.item \in DOMAIN results[b]
                 /\ results[b][e.id.item].id = e.id
                 /\ results[b][e.id.item].ok \/ results[b][e.id.item].error = "audit"
        <4>1. /\ e.id.item \in DOMAIN results'[b]
              /\ results'[b][e.id.item] = results[b][e.id.item]
          BY <1>1, <1>3, <3>2
        <4> QED BY <3>2, <4>1, Zenon DEF Named
      <3>3. pc[b] # "done" BY DEF PushStep, Looping
      <3> QED BY <2>1, <3>1, <3>2, <3>3 DEF Named
    <2> QED BY <1>2, <2>1 DEF Accounted
  <1>8. Judging(b)'
    BY <1>2 DEF Judging
  <1> QED BY <1>4, <1>5, <1>6, <1>7, <1>8 DEF CallerInv

LEMMA PushStepInv ==
  ASSUME NEW b \in Callers, BatchInv,
         \/ Assemble(b) \/ \E error \in {"evidence", "trace", "occurrence"} : AssembleFails(b, error)
         \/ RecordConflict(b) \/ RecordFails(b) \/ Finish(b)
  PROVE  CallerInv(b)'
  <1>0. /\ TypeOK /\ CallerInv(b) /\ b \in Writers
        /\ txn \in [Writers -> [phase : Phases, event : Events \union {Nil}]]
    BY DEF BatchInv, TypeInv, TypeOK, SinkTypeOK, Callers
  <1>1. \A e \in store : e.id.owner = b => e.id.run <= runs[b] /\ (e.id.run = runs[b] => Named(b, e))
    BY <1>0 DEF CallerInv, Accounted
  <1>2. CASE /\ Assemble(b) /\ pc' = [pc EXCEPT ![b] = "stamping"]
             /\ UNCHANGED <<next, frozen, results, answer>>
             /\ received' = [received EXCEPT ![b] = now]
             /\ Paired(b) \in Resolutions /\ JudgedAt(Current(b), Paired(b), now)
    BY <1>2, ItemStepInv
  <1>3. ASSUME UNCHANGED <<store, txn, observed, faults>>,
               NEW error \in {"resolve", "context", "evidence", "trace", "occurrence"},
               PushStep(b, Err(error, Nil)), pc[b] \in {"item", "stamping"}
        PROVE  CallerInv(b)'
    <2>1. Err(error, Nil) \in Results /\ ~Err(error, Nil).ok BY ErrType
    <2>2. txn'[b].phase = "closed" BY <1>0, <1>3 DEF CallerInv, Conduct
    <2>3. pc[b] # "recorded" BY <1>3
    <2> QED BY <1>1, <1>3, <2>1, <2>2, <2>3, PushInv
  <1>4. CASE /\ RecordConflict(b) \/ RecordFails(b)
             /\ pc[b] = "recording" /\ PushStep(b, Err("audit", frozen[b].id))
    <2>1. frozen[b] \in Events BY <1>0, <1>4 DEF CallerInv, Conduct
    <2>2. frozen[b].id \in AuditIds BY <2>1 DEF Events
    <2>3. /\ Err("audit", frozen[b].id) \in Results /\ ~Err("audit", frozen[b].id).ok
          /\ Err("audit", frozen[b].id).error = "audit"
          /\ Err("audit", frozen[b].id).id = frozen[b].id
      BY <2>2, ErrType
    <2>4. txn'[b].phase = "closed"
      BY <1>0, <1>4 DEF RecordConflict, RecordFails, EnqueueConflict, LostReply, Commit, Rollback, Closed
    <2>5. store' = store \/ store' = store \union {frozen[b]}
      BY <1>4, StoreStep DEF CallerStep, Step
    <2>6. frozen[b].id.owner = b => frozen[b].id.run = runs[b] /\ frozen[b].id.item = next[b]
      BY <1>0, <2>1, FrozenOwner
    <2>7. runs[b] \in Nat BY <1>0 DEF TypeOK
    <2>8. \A e \in store' : e.id.owner = b =>
            /\ e.id.run <= runs[b]
            /\ e.id.run = runs[b] =>
                 \/ e \in store /\ Named(b, e) /\ pc[b] # "recorded"
                 \/ e.id.item = next[b] /\ e.id = frozen[b].id
      BY <1>1, <1>4, <2>5, <2>6, <2>7
    <2> QED BY <1>4, <2>3, <2>4, <2>5, <2>8, PushInv
  <1>5. CASE Finish(b) /\ pc[b] = "recorded" /\ PushStep(b, Ok(frozen[b]))
    <2>1. /\ frozen[b] \in Events /\ frozen[b] \in store /\ txn[b].phase = "closed"
          /\ UNCHANGED <<store, txn>> /\ frozen[b] # Nil
          /\ Matches(frozen[b], batch[b], loaded[b], next[b])
      BY <1>0, <1>5, ModelValues DEF Finish, CallerInv, Conduct, sinkVars
    <2>2. /\ Ok(frozen[b]) \in Results /\ Ok(frozen[b]).ok /\ Ok(frozen[b]).id = frozen[b].id
          /\ Ok(frozen[b]).outcome = frozen[b].outcome
      BY <2>1, OkType
    <2>3. frozen[b].id.owner = b => frozen[b].id.item = next[b]
      BY <1>0, <2>1, FrozenOwner
    <2>4. \A e \in store' : e.id.owner = b =>
            /\ e.id.run <= runs[b]
            /\ e.id.run = runs[b] =>
                 \/ e \in store /\ Named(b, e) /\ frozen[b] # Nil /\ e.id # frozen[b].id
                 \/ e.id.item = next[b] /\ e.id = Ok(frozen[b]).id /\ Ok(frozen[b]).ok
      BY <1>1, <2>1, <2>2, <2>3
    <2> QED BY <1>5, <2>1, <2>2, <2>4, PushInv
  <1> QED BY <1>2, <1>3, <1>4, <1>5, PushSteps

\* The future is dropped, or the returned batch is made strict.
LEMMA EndStepInv ==
  ASSUME NEW b \in Callers, BatchInv, Drop(b) \/ IntoStrict(b)
  PROVE  CallerInv(b)'
  <1>0. /\ TypeOK /\ CallerInv(b) /\ b \in Writers
        /\ txn \in [Writers -> [phase : Phases, event : Events \union {Nil}]]
    BY DEF BatchInv, TypeInv, TypeOK, SinkTypeOK, Callers
  <1>1. UNCHANGED <<batch, runs, itemVars>> BY DEF Drop, IntoStrict
  <1>2. /\ pc'[b] = "done" /\ txn'[b].phase = "closed" /\ batch[b] \in Submissions
        /\ \/ answer'[b] = "dropped" /\ pc[b] # "done"
           \/ /\ pc[b] = "done" /\ answer[b] = "returned"
              /\ answer'[b] = IF Strict(results[b]) THEN "strict" ELSE "retained"
    <2>1. CASE Drop(b)
      <3>1. txn'[b].phase = "closed"
        BY <1>0, <2>1 DEF Drop, LostReply, Commit, Rollback, Closed
      <3> QED BY <1>0, <2>1, <3>1 DEF Drop, EndWith, TypeOK, CallerInv, Placed
    <2>2. CASE IntoStrict(b)
      BY <1>0, <2>2 DEF IntoStrict, TypeOK, CallerInv, Placed, Conduct, Reports, sinkVars
    <2> QED BY <2>1, <2>2
  <1>3. store' = store \/ (/\ store' = store \union {frozen[b]} /\ frozen[b] \in Events)
    BY StoreStep DEF CallerStep
  <1>4. Placed(b)' BY <1>1, <1>2 DEF Placed, Looping
  <1>5. Conduct(b)' BY <1>0, <1>1, <1>2 DEF CallerInv, Conduct, Matches, OwnId, itemVars
  <1>6. Reports(b)'
    <2>1. ASSUME NEW i \in DOMAIN results[b], Answered(b, i) PROVE Answered(b, i)'
      BY <1>1, <1>3, <2>1 DEF Answered, itemVars
    <2>2. CASE answer'[b] = "dropped"
      BY <1>0, <1>1, <1>2, <2>1, <2>2 DEF CallerInv, Reports, itemVars, WholeBatchErrors
    <2>3. CASE answer[b] = "returned" /\ answer'[b] = IF Strict(results[b]) THEN "strict" ELSE "retained"
      BY <1>0, <1>1, <1>2, <2>1, <2>3 DEF CallerInv, Reports, itemVars, WholeBatchErrors, Strict, Size
    <2> QED BY <1>2, <2>2, <2>3
  <1>7. Accounted(b)'
    <2>1. ASSUME NEW e \in store PROVE e.id.owner = b =>
            e.id.run <= runs[b] /\ (e.id.run = runs[b] => Named(b, e)')
      BY <1>0, <1>1, <1>2, <2>1 DEF CallerInv, Accounted, Named, itemVars
    <2>2. ASSUME frozen[b] \in Events PROVE frozen[b].id.owner = b =>
            frozen[b].id.run <= runs[b] /\ Named(b, frozen[b])'
      <3>1. frozen[b] # Nil BY <2>2, ModelValues
      <3> QED BY <1>0, <1>1, <1>2, <2>2, <3>1, FrozenOwner DEF Named, itemVars, TypeOK
    <2> QED BY <1>1, <1>3, <2>1, <2>2 DEF Accounted, Named, itemVars
  <1>8. Judging(b)'
    BY <1>0, <1>1, <1>2 DEF CallerInv, Judging, itemVars
  <1> QED BY <1>4, <1>5, <1>6, <1>7, <1>8 DEF CallerInv

-----------------------------------------------------------------------------
(***************************************************************************)
(* The invariant is inductive.                                             *)
(***************************************************************************)
LEMMA InitBatch == Init => BatchInv
  <1> SUFFICES ASSUME Init PROVE BatchInv
    OBVIOUS
  <1>1. SinkShape(Events) /\ SinkInv BY SinkInitShape DEF Init
  <1>2. <<>> \in Seq(Results) OBVIOUS
  <1>3. TypeOK
    BY <1>1, <1>2, TimeAssumption, BoundsAssumption DEF Init, TypeOK, SinkShape, PCs, Answers, Time
  <1>4. ASSUME NEW b \in Callers PROVE CallerInv(b)
    <2>1. pc[b] = "idle" /\ frozen[b] = Nil /\ results[b] = <<>> /\ answer[b] = "none" /\ store = {}
          /\ txn[b].phase = "closed"
      BY DEF Init, SinkInit, Closed, Callers
    <2> QED
      BY <2>1 DEF CallerInv, Placed, Looping, Conduct, Reports, WholeBatchErrors, Accounted, Judging
  <1> QED BY <1>1, <1>3, <1>4 DEF BatchInv, TypeInv, Init

LEMMA CallerStepInv ==
  ASSUME NEW b \in Callers, BatchInv, CallerStep(b)
  PROVE  BatchInv'
  <1>1. TypeInv'
    BY SubmitType, QuietStepType, PushStepType DEF CallerStep, Step
  <1>2. SinkInv'
    <2>1. CASE \/ RecordBegin(b) \/ RecordEnqueue(b) \/ RecordCommit(b) \/ RecordConflict(b)
               \/ RecordFails(b) \/ Drop(b)
      BY <2>1, SinkOfCaller
    <2>2. CASE \/ \E s \in Submissions : Submit(b, s)
               \/ Validate(b) \/ LoadFails(b) \/ (\E a \in Loads : Load(b, a)) \/ Assemble(b)
               \/ (\E error \in {"evidence", "trace", "occurrence"} : AssembleFails(b, error))
               \/ Stamp(b) \/ Finish(b) \/ IntoStrict(b)
      BY <2>2, SinkUnchanged DEF Submit, Validate, LoadFails, Load, Assemble, AssembleFails, Stamp,
                                 Finish, IntoStrict, sinkVars
    <2> QED BY <2>1, <2>2 DEF CallerStep, Step
  <1>3. observed' \subseteq store'
    <2>1. store \subseteq store' /\ observed \subseteq store BY StoreStep DEF BatchInv
    <2>2. CASE Finish(b)
      <3>1. frozen[b] \in store BY <2>2 DEF Finish, BatchInv, CallerInv, Conduct
      <3> QED BY <2>1, <2>2, <3>1 DEF Finish
    <2>3. CASE ~Finish(b)
      <3>1. observed' = observed
        BY <2>3 DEF CallerStep, Step, Submit, Validate, LoadFails, Load, Assemble, AssembleFails,
                    Stamp, RecordBegin, RecordEnqueue, RecordCommit, RecordConflict, RecordFails,
                    Drop, IntoStrict
      <3> QED BY <2>1, <3>1
    <2> QED BY <2>2, <2>3
  <1>4. CallerInv(b)'
    BY SubmitInv, LoadStepInv, ItemStepInv, RecordStepInv, PushStepInv, EndStepInv
    DEF CallerStep, Step
  <1> QED BY <1>1, <1>2, <1>3, <1>4, OthersInv DEF BatchInv

LEMMA NextBatch == BatchInv /\ [Next]_vars => BatchInv'
  <1> SUFFICES ASSUME BatchInv, [Next]_vars PROVE BatchInv'
    OBVIOUS
  <1>1. CASE UNCHANGED vars \/ \E t \in Time : ClockStep(t)
    <2>1. /\ UNCHANGED <<pc, batch, runs, itemVars, answer, observed, faults, store, txn>>
          /\ now' \in Time
      BY <1>1 DEF vars, ClockStep, sinkVars, BatchInv, TypeInv, TypeOK
    <2>2. SinkShape(Events)' /\ SinkInv' BY <2>1, SinkUnchanged
    <2>3. TypeInv' BY <2>1, <2>2 DEF BatchInv, TypeInv, TypeOK, SinkShape, itemVars
    <2>4. ASSUME NEW x \in Callers PROVE CallerInv(x)'
      BY <2>1, SameInv DEF Same, BatchInv, itemVars
    <2> QED BY <2>1, <2>2, <2>3, <2>4 DEF BatchInv
  <1>2. ASSUME NEW b \in Callers, CallerStep(b) PROVE BatchInv'
    BY <1>2, CallerStepInv
  <1> QED BY <1>1, <1>2 DEF Next, CallerStep

LEMMA BatchInvariant == Spec => []BatchInv
  BY InitBatch, NextBatch, PTL DEF Spec

-----------------------------------------------------------------------------
\* Every component of a batch's state keeps its type through every
\* interleaving of batches, sink transactions, failures and clock readings.
THEOREM BatchTypeCorrect == Spec => []TypeOK
  BY BatchInvariant, PTL DEF BatchInv, TypeInv

\* authorize_batch pairs contexts and resolutions by position: for any
\* submission, load and interleaving, an Ok at position i is the durable
\* decision on context i from the facts at i, and into_strict hands out a
\* decision for each context.
THEOREM ResultsAnswer == Spec => []ResultsAnswerTheirContexts
  <1>1. BatchInv => ResultsAnswerTheirContexts
    <2> SUFFICES ASSUME BatchInv, NEW b \in Callers
                 PROVE  /\ \A i \in DOMAIN results[b] : results[b][i].ok => Answered(b, i)
                        /\ answer[b] = "strict" => \A i \in DOMAIN batch[b].contexts : Answered(b, i)
      BY DEF ResultsAnswerTheirContexts
    <2>1. TypeOK /\ Placed(b) /\ Reports(b) BY DEF BatchInv, TypeInv, CallerInv
    <2>2. ASSUME answer[b] = "strict" PROVE \A i \in DOMAIN batch[b].contexts : Answered(b, i)
      <3>1. Strict(results[b]) /\ Len(results[b]) = Len(batch[b].contexts) /\ batch[b] \in Submissions
        BY <2>1, <2>2 DEF Placed, Reports, Size
      <3>2. DOMAIN results[b] = DOMAIN batch[b].contexts
        BY <2>1, <3>1, SubmissionFields DEF TypeOK
      <3> QED BY <2>1, <3>1, <3>2 DEF Reports, Strict
    <2> QED BY <2>1, <2>2 DEF Reports
  <1> QED BY <1>1, BatchInvariant, PTL

\* What a batch has made durable is what it has reported or named in an Audit
\* error, plus at most the item in flight, and a batch refused as a whole has
\* written and shown nothing: wherever the future is dropped and whichever
\* commit replies are lost (authorize_batch, BatchDecisions, BatchError).
THEOREM DurablePrefix == Spec => []DurableIsPrefix
  <1>1. BatchInv => DurableIsPrefix
    <2> SUFFICES ASSUME BatchInv, NEW b \in Callers
                 PROVE  /\ \A e \in Written(b) :
                             \/ e.id.item = next[b] /\ pc[b] \in {"recorded", "done"}
                             \/ /\ e.id.item \in DOMAIN results[b]
                                /\ results[b][e.id.item].id = e.id
                                /\ results[b][e.id.item].ok \/ results[b][e.id.item].error = "audit"
                        /\ answer[b] \in WholeBatchErrors =>
                             ~\E e \in store \union observed : e.id.owner = b /\ e.id.run = runs[b]
      BY DEF DurableIsPrefix
    <2>1. TypeOK /\ CallerInv(b) /\ observed \subseteq store BY DEF BatchInv, TypeInv
    <2>2. \A e \in store : (e.id.owner = b /\ e.id.run = runs[b]) => Named(b, e)
      BY <2>1 DEF CallerInv, Accounted
    <2>3. ASSUME NEW e, e.id.owner = b, frozen[b] # Nil, e.id = frozen[b].id
          PROVE  e.id.item = next[b]
      BY <2>1, <2>3, FrozenOwner DEF TypeOK
    <2>4. ASSUME answer[b] \in WholeBatchErrors, NEW e PROVE ~Named(b, e)
      BY <2>1, <2>4 DEF CallerInv, Reports, Named
    <2> QED BY <2>1, <2>2, <2>3, <2>4 DEF Written, Named
  <1> QED BY <1>1, BatchInvariant, PTL

\* A frozen item was judged at its own receipt, for any number of items and
\* however long the writes before it took (assemble).
THEOREM ItemsAreJudgedAtReceipt == Spec => []ItemJudgedAtReceipt
  <1>1. BatchInv => ItemJudgedAtReceipt
    BY DEF BatchInv, CallerInv, Judging, ItemJudgedAtReceipt
  <1> QED BY <1>1, BatchInvariant, PTL
=============================================================================
