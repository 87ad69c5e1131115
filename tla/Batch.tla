------------------------------- MODULE Batch -------------------------------
(***************************************************************************)
(* Authorizer::authorize_batch and BatchDecisions::into_strict.            *)
(*                                                                         *)
(* One bulk load answers for all contexts; then the items are assembled    *)
(* and persisted one after the other, each in a sink transaction of its    *)
(* own.  Callers, the clock and failures interleave at every await: the    *)
(* bulk load and each item's record().                                     *)
(***************************************************************************)
EXTENDS Assembly, Sequences

CONSTANTS
  Submissions,   \* batches a caller may submit: policy, contexts, limit
  Loads,         \* what resolve_batch may return: a sequence of results
  Resolutions,   \* the resolutions those sequences are made of
  MaxRuns,       \* bound: times a caller submits
  MaxFaults      \* bound: sink failures and dropped futures

Callers == Writers

\* Err(error) at one position of what resolve_batch returned.
ItemError == Nil

\* An identity generated for one item of one submission, or (owner = Nil)
\* one the application put into the context.
AuditIds == [owner : Callers \union {Nil}, run : Nat, item : Nat]

Contexts ==
  [tenant : Tenants, binding : Bindings,
   occurrence : [id : [owner : {Nil}, run : Nat, item : Nat], at : Time] \union {Nil}]

Events ==
  [kind : {"decision"}, tenant : Tenants, id : AuditIds, at : Time, policy : Policies,
   binding : Bindings, outcome : Decisions, evidence : Resolutions]

Results ==
  [ok : {TRUE}, outcome : Decisions, id : AuditIds] \union
  [ok : {FALSE}, error : {"resolve", "context", "evidence", "trace", "occurrence", "audit"},
   id : AuditIds \union {Nil}]

\* "returned": Ok(BatchDecisions); "strict" and "retained": what into_strict
\* made of it; otherwise the BatchError, or a dropped future.
Answers ==
  {"none", "returned", "strict", "retained", "limit", "context", "resolve",
   "cardinality", "dropped"}

WholeBatchErrors == {"limit", "context", "resolve", "cardinality"}

ASSUME ModelValues == /\ Nil \notin Callers /\ Nil \notin Submissions
                      /\ Nil \notin Resolutions /\ Nil \notin Events
ASSUME BoundsAssumption == MaxRuns \in Nat /\ MaxFaults \in Nat
ASSUME SubmissionsAssumption ==
  \A s \in Submissions :
    /\ s.policy \in Policies /\ s.contexts \in Seq(Contexts) /\ s.limit \in Nat \ {0}
    /\ \A i \in DOMAIN s.contexts : WellFormedCall(s.contexts[i])
ASSUME LoadsAssumption ==
  /\ Resolutions \subseteq AllResolutions /\ \A res \in Resolutions : WellFormedResolution(res)
  /\ \A a \in Loads : a \in Seq(Resolutions \union {ItemError})

-----------------------------------------------------------------------------
VARIABLES
  now,
  pc, batch, runs,
  next,          \* the position the current loop is at
  loaded,        \* resolve_batch's results
  received,      \* history: the receipt time of the current item
  frozen,        \* the current item's PendingDecision
  results,       \* the Vec under construction; lost with a dropped future
  answer,
  observed,
  faults

itemVars == <<next, loaded, received, frozen, results>>
vars == <<now, pc, batch, runs, itemVars, answer, observed, faults, store, txn>>

PCs == {"idle", "validating", "loading", "item", "stamping", "recording", "recorded", "done"}

TypeOK ==
  /\ now \in Time
  /\ pc \in [Callers -> PCs]
  /\ batch \in [Callers -> Submissions \union {Nil}]
  /\ runs \in [Callers -> 0 .. MaxRuns]
  /\ next \in [Callers -> Nat]
  /\ loaded \in [Callers -> Loads \union {<<>>}]
  /\ received \in [Callers -> Time]
  /\ frozen \in [Callers -> Events \union {Nil}]
  /\ results \in [Callers -> Seq(Results)]
  /\ answer \in [Callers -> Answers]
  /\ observed \subseteq Events
  /\ faults \in 0 .. MaxFaults
  /\ SinkTypeOK(Events)

Init ==
  /\ now = 0
  /\ pc = [b \in Callers |-> "idle"]
  /\ batch = [b \in Callers |-> Nil]
  /\ runs = [b \in Callers |-> 0]
  /\ next = [b \in Callers |-> 0]
  /\ loaded = [b \in Callers |-> <<>>]
  /\ received = [b \in Callers |-> 0]
  /\ frozen = [b \in Callers |-> Nil]
  /\ results = [b \in Callers |-> <<>>]
  /\ answer = [b \in Callers |-> "none"]
  /\ observed = {}
  /\ faults = 0
  /\ SinkInit

\* The question item i of the batch asks: one policy, the i-th context.
Asked(b, i) ==
  LET c == batch[b].contexts[i]
  IN  [op |-> "authorize_batch", policy |-> batch[b].policy,
       tenant |-> c.tenant, binding |-> c.binding, occurrence |-> c.occurrence]

Current(b) == Asked(b, next[b])

Size(b) == Len(batch[b].contexts)

-----------------------------------------------------------------------------
(***************************************************************************)
(* Before the first await.                                                 *)
(***************************************************************************)
EndWith(b, a) == pc' = [pc EXCEPT ![b] = "done"] /\ answer' = [answer EXCEPT ![b] = a]

Submit(b, s) ==
  /\ pc[b] = "idle" \/ (pc[b] = "done" /\ answer[b] = "dropped" /\ s = batch[b])
  /\ runs[b] < MaxRuns
  /\ batch' = [batch EXCEPT ![b] = s]
  /\ runs' = [runs EXCEPT ![b] = @ + 1]
  /\ next' = [next EXCEPT ![b] = 1]
  /\ loaded' = [loaded EXCEPT ![b] = <<>>]
  /\ frozen' = [frozen EXCEPT ![b] = Nil]
  /\ results' = [results EXCEPT ![b] = <<>>]
  /\ \/ Len(s.contexts) > s.limit /\ EndWith(b, "limit")
     \/ Len(s.contexts) = 0 /\ EndWith(b, "returned")
     \/ /\ Len(s.contexts) \in 1 .. s.limit
        /\ pc' = [pc EXCEPT ![b] = "validating"]
        /\ answer' = [answer EXCEPT ![b] = "none"]
  /\ UNCHANGED <<now, received, observed, faults, sinkVars>>

\* One turn of the validation loop, with its own clock reading.
Validate(b) ==
  /\ pc[b] = "validating"
  /\ \/ ~ContextValidAt(Current(b), now) /\ EndWith(b, "context") /\ UNCHANGED next
     \/ /\ ContextValidAt(Current(b), now)
        /\ pc' = [pc EXCEPT ![b] = IF next[b] = Size(b) THEN "loading" ELSE @]
        /\ next' = [next EXCEPT ![b] = IF @ = Size(b) THEN 1 ELSE @ + 1]
        /\ UNCHANGED answer
  /\ UNCHANGED <<now, batch, runs, loaded, received, frozen, results, observed, faults, sinkVars>>

(***************************************************************************)
(* The bulk load.                                                          *)
(***************************************************************************)
LoadFails(b) ==
  /\ pc[b] = "loading"
  /\ EndWith(b, "resolve")
  /\ UNCHANGED <<now, batch, runs, itemVars, observed, faults, sinkVars>>

Load(b, a) ==
  /\ pc[b] = "loading"
  /\ \/ Len(a) # Size(b) /\ EndWith(b, "cardinality") /\ UNCHANGED loaded
     \/ /\ Len(a) = Size(b)
        /\ loaded' = [loaded EXCEPT ![b] = a]
        /\ pc' = [pc EXCEPT ![b] = "item"]
        /\ UNCHANGED answer
  /\ UNCHANGED <<now, batch, runs, next, received, frozen, results, observed, faults, sinkVars>>

-----------------------------------------------------------------------------
(***************************************************************************)
(* One item: finish() or the provider's item error, then results.push and  *)
(* the next turn of the loop, or the return.                               *)
(***************************************************************************)
Ok(e) == [ok |-> TRUE, outcome |-> e.outcome, id |-> e.id]
Err(error, id) == [ok |-> FALSE, error |-> error, id |-> id]

\* Slip: the provider's failures are moved out of the way before the zip.
PairedFlattened(b) ==
  LET kept == SelectSeq(loaded[b], LAMBDA x : x # ItemError)
  IN  IF next[b] <= Len(kept) THEN kept[next[b]] ELSE ItemError

\* contexts.iter().zip(resolutions)
Paired(b) == loaded[b][next[b]]

Push(b, result) ==
  /\ results' = [results EXCEPT ![b] = Append(@, result)]
  /\ frozen' = [frozen EXCEPT ![b] = Nil]
  /\ next' = [next EXCEPT ![b] = @ + 1]
  /\ IF next[b] = Size(b)
     THEN EndWith(b, "returned")
     ELSE pc' = [pc EXCEPT ![b] = "item"] /\ UNCHANGED answer

\* Slip: the bulk load was validated once; items are not judged again.
AssembleTrusting(b) ==
  /\ pc[b] = "item"
  /\ LET res == Paired(b)
     IN  \/ /\ res = ItemError
            /\ Push(b, Err("resolve", Nil))
            /\ UNCHANGED received
         \/ /\ res # ItemError
            /\ received' = [received EXCEPT ![b] = now]
            /\ pc' = [pc EXCEPT ![b] = "stamping"]
            /\ UNCHANGED <<next, frozen, results, answer>>
  /\ UNCHANGED <<now, batch, runs, loaded, observed, faults, sinkVars>>

Judge(b, res) ==
  \/ ~ContextValidAt(Current(b), now) /\ Push(b, Err("context", Nil))
  \/ /\ ContextValidAt(Current(b), now)
     /\ ~(ResolutionValidAt(res, now) /\ Complete(Current(b), res))
     /\ Push(b, Err("resolve", Nil))
  \/ /\ ContextValidAt(Current(b), now)
     /\ ResolutionValidAt(res, now) /\ Complete(Current(b), res)
     /\ pc' = [pc EXCEPT ![b] = "stamping"]
     /\ UNCHANGED <<next, frozen, results, answer>>

Assemble(b) ==
  /\ pc[b] = "item"
  /\ LET res == Paired(b)
     IN  \/ /\ res = ItemError
            /\ Push(b, Err("resolve", Nil))
            /\ UNCHANGED received
         \/ /\ res # ItemError
            /\ received' = [received EXCEPT ![b] = now]
            /\ Judge(b, res)
  /\ UNCHANGED <<now, batch, runs, loaded, observed, faults, sinkVars>>

AssembleFails(b, error) ==
  /\ pc[b] = "stamping"
  /\ error = "occurrence" => Current(b).occurrence = Nil
  /\ Push(b, Err(error, Nil))
  /\ UNCHANGED <<now, batch, runs, loaded, received, observed, faults, sinkVars>>

Occurrence(b) ==
  IF Current(b).occurrence # Nil THEN Current(b).occurrence
  ELSE [id |-> [owner |-> b, run |-> runs[b], item |-> next[b]], at |-> now]

Stamp(b) ==
  /\ pc[b] = "stamping"
  /\ frozen' = [frozen EXCEPT ![b] =
       FromDecision(Current(b), Occurrence(b), Paired(b))]
  /\ pc' = [pc EXCEPT ![b] = "recording"]
  /\ UNCHANGED <<now, batch, runs, next, loaded, received, results, answer, observed, faults, sinkVars>>

(***************************************************************************)
(* persist: the item's own sink transaction, then the observer.            *)
(***************************************************************************)
RecordBegin(b) ==
  /\ pc[b] = "recording" /\ Begin(b)
  /\ UNCHANGED <<now, pc, batch, runs, itemVars, answer, observed, faults>>

RecordEnqueue(b) ==
  /\ pc[b] = "recording" /\ Enqueue(b, frozen[b])
  /\ UNCHANGED <<now, pc, batch, runs, itemVars, answer, observed, faults>>

RecordCommit(b) ==
  /\ pc[b] = "recording" /\ Commit(b)
  /\ pc' = [pc EXCEPT ![b] = "recorded"]
  /\ UNCHANGED <<now, batch, runs, itemVars, answer, observed, faults>>

\* A refused identity: the item's Audit error, and on to the next item.
RecordConflict(b) ==
  /\ pc[b] = "recording" /\ EnqueueConflict(b, frozen[b])
  /\ Push(b, Err("audit", frozen[b].id))
  /\ UNCHANGED <<now, batch, runs, loaded, received, observed, faults>>

\* Slip: a sink error loses the occurrence whose write is uncertain.
RecordFailsAnonymously(b) ==
  /\ pc[b] = "recording" /\ faults < MaxFaults
  /\ LostReply(b)
  /\ Push(b, Err("audit", Nil))
  /\ faults' = faults + 1
  /\ UNCHANGED <<now, batch, runs, loaded, received, observed>>

RecordFails(b) ==
  /\ pc[b] = "recording" /\ faults < MaxFaults
  /\ LostReply(b)
  /\ Push(b, Err("audit", frozen[b].id))
  /\ faults' = faults + 1
  /\ UNCHANGED <<now, batch, runs, loaded, received, observed>>

Finish(b) ==
  /\ pc[b] = "recorded"
  /\ observed' = observed \union {frozen[b]}
  /\ Push(b, Ok(frozen[b]))
  /\ UNCHANGED <<now, batch, runs, loaded, received, faults, sinkVars>>

(***************************************************************************)
(* The future is dropped at an await: remaining items are cancelled.       *)
(***************************************************************************)
Drop(b) ==
  /\ pc[b] \in {"loading", "recording", "recorded"} /\ faults < MaxFaults
  /\ faults' = faults + 1
  /\ LostReply(b)
  /\ EndWith(b, "dropped")
  /\ UNCHANGED <<now, batch, runs, itemVars, observed>>

(***************************************************************************)
(* into_strict on the returned batch.                                      *)
(***************************************************************************)
\* Slip: the decisions are collected without a look at the errors.
StrictAlways(rs) == TRUE

Strict(rs) == \A i \in DOMAIN rs : rs[i].ok

IntoStrict(b) ==
  /\ answer[b] = "returned"
  /\ answer' = [answer EXCEPT ![b] = IF Strict(results[b]) THEN "strict" ELSE "retained"]
  /\ UNCHANGED <<now, pc, batch, runs, itemVars, observed, faults, sinkVars>>

ClockStep(t) ==
  /\ now' = t
  /\ UNCHANGED <<pc, batch, runs, itemVars, answer, observed, faults, sinkVars>>

-----------------------------------------------------------------------------
Step(b) ==
  \/ Validate(b)
  \/ LoadFails(b) \/ \E a \in Loads : Load(b, a)
  \/ Assemble(b)
  \/ \E error \in {"evidence", "trace", "occurrence"} : AssembleFails(b, error)
  \/ Stamp(b)
  \/ RecordBegin(b) \/ RecordEnqueue(b) \/ RecordCommit(b) \/ RecordConflict(b)
  \/ Finish(b)

Next ==
  \/ \E b \in Callers :
       \/ \E s \in Submissions : Submit(b, s)
       \/ Step(b) \/ RecordFails(b) \/ Drop(b) \/ IntoStrict(b)
  \/ \E t \in Time : ClockStep(t)

\* A polled future makes progress; nothing is assumed of callers or faults.
Fairness == \A b \in Callers : WF_vars(Step(b))

Spec == Init /\ [][Next]_vars

FairSpec == Spec /\ Fairness

-----------------------------------------------------------------------------
\* The durable events of a caller's latest submission, by generated identity.
Written(b) == {e \in store : e.id.owner = b /\ e.id.run = runs[b]}

\* A durable decision on the context at position i, from the facts at i.
Answered(b, i) ==
  /\ i \in DOMAIN results[b] /\ results[b][i].ok /\ loaded[b][i] # ItemError
  /\ \E e \in store :
       /\ e.id = results[b][i].id /\ e.outcome = results[b][i].outcome
       /\ e.tenant = batch[b].contexts[i].tenant
       /\ e.binding = batch[b].contexts[i].binding
       /\ e.policy = batch[b].policy
       /\ e.outcome = Decide[batch[b].policy][loaded[b][i].present]

\* Every Ok of the result vector is durable and answers the context at its
\* own position: that tenant and binding, this policy, and the facts the
\* provider returned at that position, although failed items in between
\* write nothing (the zip in authorize_batch).  into_strict hands out
\* decisions only if every submitted context has such an answer.
ResultsAnswerTheirContexts ==
  \A b \in Callers :
    /\ \A i \in DOMAIN results[b] : results[b][i].ok => Answered(b, i)
    /\ answer[b] = "strict" => \A i \in DOMAIN batch[b].contexts : Answered(b, i)

\* BatchDecisions: "earlier writes may already be durable and the in-flight
\* write may be uncertain".  What a batch has made durable is exactly what it
\* has reported or, for a lost reply, named in an Audit error, plus at most
\* the item in flight; nothing at a later position, and nothing more once the
\* future has been dropped.  A batch that is refused as a whole (BatchError:
\* "before any decisions are evaluated or persisted") has written and shown
\* to the observer nothing at all (authorize_batch).
DurableIsPrefix ==
  \A b \in Callers :
    /\ \A e \in Written(b) :
         \/ e.id.item = next[b] /\ pc[b] \in {"recorded", "done"}
         \/ /\ e.id.item \in DOMAIN results[b]
            /\ results[b][e.id.item].id = e.id
            /\ results[b][e.id.item].ok \/ results[b][e.id.item].error = "audit"
    /\ answer[b] \in WholeBatchErrors =>
         ~\E e \in store \union observed : e.id.owner = b /\ e.id.run = runs[b]

\* Each item is judged at its own receipt, after the writes of the items
\* before it, not at the time of the bulk load (assemble).
ItemJudgedAtReceipt ==
  \A b \in Callers : frozen[b] # Nil =>
    /\ BindingValidAt(frozen[b].binding, received[b])
    /\ ResolutionValidAt(frozen[b].evidence, received[b])
    /\ Required[batch[b].policy] \subseteq frozen[b].evidence.known

\* A submitted batch ends, also when several batches write the same
\* identities: an item holds its transaction only for its own write
\* (authorize_batch, persist).
BatchSettles == \A b \in Callers : pc[b] = "validating" ~> pc[b] = "done"

=============================================================================
