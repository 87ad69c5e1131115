----------------------------- MODULE AuditSink -----------------------------
(***************************************************************************)
(* The Dovecote-backed audit sinks of gatekeep-sqlx (SqliteDovecoteAudit,  *)
(* PgDovecoteAudit, MySqlDovecoteAudit): one sink-owned transaction per    *)
(* record, `begin; enqueue; commit`.                                       *)
(*                                                                         *)
(* Dovecote and the database are external. What the sinks rely on is       *)
(* modelled here: an event is unique under (tenant, source, event id), an  *)
(* identical event is AlreadyEnqueued, a changed payload under the same    *)
(* identity is rejected, an uncommitted insert makes a second writer of    *)
(* the same identity wait, and a commit whose reply is lost may or may not *)
(* have been applied.  The source is one configuration value shared by     *)
(* decisions and attempts, so it does not appear in the key; the event-id  *)
(* prefix that separates the two kinds does (`kind`).                      *)
(*                                                                         *)
(* An event is a record with at least the fields kind, tenant, id and      *)
(* binding.                                                                *)
(***************************************************************************)
CONSTANTS
  Writers,       \* futures that may own a sink transaction
  Serialized,    \* TRUE: begin_write is BEGIN IMMEDIATE (SQLite)
  Nil

ASSUME SerializedAssumption == Serialized \in BOOLEAN

VARIABLES
  store,         \* committed events
  txn            \* the transaction each writer owns

sinkVars == <<store, txn>>

Phases == {"closed", "open", "written", "duplicate"}

Closed == [phase |-> "closed", event |-> Nil]

SinkTypeOK(E) ==
  /\ store \subseteq E
  /\ txn \in [Writers -> [phase : Phases, event : E \union {Nil}]]

SinkInit ==
  /\ store = {}
  /\ txn = [w \in Writers |-> Closed]

(***************************************************************************)
(* The deduplication identity: `gatekeep-audit-<id>` or                    *)
(* `gatekeep-attempt-<id>` in the tenant's scope.                          *)
(***************************************************************************)
Key(e) == <<e.kind, e.tenant, e.id>>

Stored(e) == \E f \in store : Key(f) = Key(e)

\* Another transaction has inserted this identity and not finished.
Awaited(w, e) ==
  \E v \in Writers \ {w} : txn[v].phase = "written" /\ Key(txn[v].event) = Key(e)

(***************************************************************************)
(* begin_write / pool().begin()                                            *)
(***************************************************************************)
Begin(w) ==
  /\ txn[w].phase = "closed"
  /\ Serialized => \A v \in Writers : txn[v].phase = "closed"
  /\ txn' = [txn EXCEPT ![w] = [phase |-> "open", event |-> Nil]]
  /\ UNCHANGED store

(***************************************************************************)
(* event_from_entry / event_from_attempt followed by enqueue: validation   *)
(* of the frozen record, then the insert.                                  *)
(***************************************************************************)
ValidEvent(e) == e.binding.tenant = e.tenant

\* Slip: the event is inserted without a look at its identity.
EnqueueBlind(w, e) ==
  /\ txn[w].phase = "open"
  /\ ValidEvent(e)
  /\ txn' = [txn EXCEPT ![w] = [phase |-> "written", event |-> e]]
  /\ UNCHANGED store

Enqueue(w, e) ==
  /\ txn[w].phase = "open"
  /\ ValidEvent(e)
  /\ ~Awaited(w, e)
  /\ \/ /\ ~Stored(e)
        /\ txn' = [txn EXCEPT ![w] = [phase |-> "written", event |-> e]]
     \/ /\ e \in store
        /\ txn' = [txn EXCEPT ![w] = [phase |-> "duplicate", event |-> e]]
  /\ UNCHANGED store

\* The same identity is stored with another payload: enqueue fails and the
\* dropped transaction rolls back.
EnqueueConflict(w, e) ==
  /\ txn[w].phase = "open"
  /\ ~Awaited(w, e)
  /\ Stored(e) /\ e \notin store
  /\ txn' = [txn EXCEPT ![w] = Closed]
  /\ UNCHANGED store

(***************************************************************************)
(* commit().  A lost reply (connection failure, dropped future) leaves the *)
(* write applied or not; the sink reports an error either way.             *)
(***************************************************************************)
Apply(w) ==
  IF txn[w].phase = "written" THEN store \union {txn[w].event} ELSE store

\* Slip: the transaction is dropped where it should be committed.
CommitOmitted(w) ==
  /\ txn[w].phase \in {"written", "duplicate"}
  /\ txn' = [txn EXCEPT ![w] = Closed]
  /\ UNCHANGED store

Commit(w) ==
  /\ txn[w].phase \in {"written", "duplicate"}
  /\ store' = Apply(w)
  /\ txn' = [txn EXCEPT ![w] = Closed]

\* Slip: a failed write leaves its transaction, and SQLite's write lock, open.
RollbackLeaks(w) == UNCHANGED sinkVars

\* Any `?` of the sink before commit, or a drop of the transaction handle.
Rollback(w) ==
  /\ txn' = [txn EXCEPT ![w] = Closed]
  /\ UNCHANGED store

\* The write that was submitted may already have been applied.
LostReply(w) == Commit(w) \/ Rollback(w)

-----------------------------------------------------------------------------
\* The sink keeps one event per (tenant, source, event id), whatever writers
\* race on an identity and whichever commit replies are lost
\* (record_decision_audit, record_authorization_attempt).
UniqueEvents == \A e, f \in store : Key(e) = Key(f) => e = f

-----------------------------------------------------------------------------
(***************************************************************************)
(* What the users of the sink, Authorizer and Batch, prove of it.          *)
(***************************************************************************)
\* A transaction that has written carries an event.
SinkShape(E) ==
  /\ SinkTypeOK(E)
  /\ \A w \in Writers : txn[w].phase \in {"written", "duplicate"} => txn[w].event \in E

\* Why Commit keeps identities unique: what a transaction has inserted is not
\* stored, what it found stored is there as it is, and no two transactions
\* hold inserts of one identity.
SinkInv ==
  /\ UniqueEvents
  /\ \A w \in Writers : txn[w].phase = "written" => ~Stored(txn[w].event)
  /\ \A w \in Writers : txn[w].phase = "duplicate" => txn[w].event \in store
  /\ \A v, w \in Writers :
       (v # w /\ txn[v].phase = "written" /\ txn[w].phase = "written")
         => Key(txn[v].event) # Key(txn[w].event)

SinkStep(w, e) ==
  Begin(w) \/ Enqueue(w, e) \/ EnqueueConflict(w, e) \/ Commit(w) \/ Rollback(w)

=============================================================================
