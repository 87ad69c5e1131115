-------------------------- MODULE KeepsakeResolver --------------------------
(***************************************************************************)
(* gatekeep-keepsake: facts read from active Keepsake relations, one       *)
(* subject after another, while the relations are applied and revoked.     *)
(*                                                                         *)
(* Keepsake is external.  What the resolver uses of it is modelled: a      *)
(* tenant's subject has at most one active assignment of a relation, a     *)
(* source returns at least the assignments it is asked for (and, if it is  *)
(* at fault, others), and the effective state of an assignment at a time.  *)
(* An assignment carries tenant, subject, relation, id, its deadline       *)
(* (`expires`, or Nil) and `lifecycle`: "plain", "fulfilment" for one that *)
(* ends when its evidence is complete, "disabled" for a disabled           *)
(* definition.                                                             *)
(***************************************************************************)
EXTENDS Naturals, FiniteSetsExt

CONSTANTS
  Bound,         \* FactBinding of each bound fact: slot, relation, query
  SubjectOf,     \* subject of each slot the Context fills, the principal's too
  Order,         \* all slots, in the order of BTreeMap<Option<SubjectSlot>, _>
  Tenant,        \* the Context's tenant
  Requests,      \* sets of facts a policy may require
  Assignments,   \* assignments that may exist
  MaxTime,       \* bound: clock readings are 0..MaxTime
  MaxChanges,    \* bound: relations applied or revoked during the run
  Nil

Time == 0 .. MaxTime

\* At most one active assignment per target.
Consistent(A) ==
  \A a, b \in A : (<<a.tenant, a.subject, a.relation>> = <<b.tenant, b.subject, b.relation>>)
                     => a = b

Lifecycles == {"plain", "fulfilment", "disabled"}

ASSUME TimeAssumption == MaxTime \in Nat /\ MaxChanges \in Nat /\ Nil \notin Time
ASSUME AssignmentsAssumption ==
  /\ Nil \notin Assignments
  /\ \A a \in Assignments : a.expires \in Time \union {Nil} /\ a.lifecycle \in Lifecycles
\* An assignment id names one assignment of its tenant.
ASSUME AssignmentIds ==
  \A a, b \in Assignments : <<a.tenant, a.id>> = <<b.tenant, b.id>> => a = b

VARIABLES
  now, active, changes,
  pc, mode, required,
  at,            \* observed_at, read before the first await
  todo,          \* grouped: slots not read yet
  ids,           \* EffectiveRelations::ids
  expires_at,    \* EffectiveRelations::expires_at
  error,
  past           \* history: the relations at each moment of the resolution

call == <<mode, required, at>>
vars == <<now, active, changes, pc, call, todo, ids, expires_at, error, past>>

Errors == {"missing_fact", "missing_subject", "scope_mismatch", "effective", "resolution", "source"}

TypeOK ==
  /\ now \in Time /\ at \in Time
  /\ active \subseteq Assignments /\ Consistent(active)
  /\ pc \in {"idle", "reading", "answered", "failed"}
  /\ mode \in {"decision", "query"} /\ required \in Requests \union {{}}
  /\ expires_at \in Time \union {Nil}
  /\ changes \in 0 .. MaxChanges
  /\ error \in Errors \union {"none"}
  /\ past \subseteq SUBSET Assignments
  /\ (todo # {}) = (pc = "reading")
  /\ (error # "none") = (pc = "failed")

Init ==
  /\ now = 0 /\ at = 0
  /\ active \in {A \in SUBSET Assignments : Consistent(A)}
  /\ changes = 0
  /\ pc = "idle" /\ mode = "decision" /\ required = {}
  /\ todo = {} /\ ids = {} /\ expires_at = Nil
  /\ error = "none"
  /\ past = {}

-----------------------------------------------------------------------------
(***************************************************************************)
(* Targets and effective state.                                            *)
(***************************************************************************)
\* target_for_binding
Target(f) ==
  [tenant |-> Tenant, subject |-> SubjectOf[Bound[f].slot], relation |-> Bound[f].relation]

InScope(a, x) == a.tenant = x.tenant /\ a.subject = x.subject /\ a.relation = x.relation

Due(a, t) == a.expires # Nil /\ a.expires <= t

\* keepsake::effective_state
EffectiveState(t, a, evidence) ==
  CASE Due(a, t) -> "expired"
    [] ~Due(a, t) /\ a.lifecycle = "plain" -> "applied"
    [] ~Due(a, t) /\ a.lifecycle = "disabled" -> "unavailable"
    [] ~Due(a, t) /\ a.lifecycle = "fulfilment" ->
         IF evidence = Nil THEN "unavailable"
         ELSE IF evidence.satisfied THEN "fulfilled" ELSE "applied"

\* The facts that a call reads: a query leaves deferred facts to its rows.
Resolved(m, R) == {f \in R : m = "decision" \/ Bound[f].query = "resolve"}

FactsOf(slot) == {f \in Resolved(mode, required) : Bound[f].slot = slot}

-----------------------------------------------------------------------------
(***************************************************************************)
(* resolve_for_decision and resolve_for_query up to the first read.        *)
(***************************************************************************)
Fail(err) ==
  /\ pc' = "failed"
  /\ error' = err
  /\ todo' = {}
  /\ UNCHANGED <<ids, expires_at>>

Grouped(m, R) == {Bound[f].slot : f \in Resolved(m, R)}

Start(m, R) ==
  /\ pc = "idle"
  /\ mode' = m /\ required' = R /\ at' = now
  /\ past' = {active}
  /\ \/ ~(R \subseteq DOMAIN Bound) /\ Fail("missing_fact")
     \/ /\ R \subseteq DOMAIN Bound
        /\ \E f \in Resolved(m, R) : Bound[f].slot \notin DOMAIN SubjectOf
        /\ Fail("missing_subject")
     \/ /\ R \subseteq DOMAIN Bound
        /\ \A f \in Resolved(m, R) : Bound[f].slot \in DOMAIN SubjectOf
        /\ todo' = Grouped(m, R)
        /\ pc' = IF todo' = {} THEN "answered" ELSE "reading"
        /\ UNCHANGED <<ids, expires_at, error>>
  /\ UNCHANGED <<now, active, changes>>

(***************************************************************************)
(* One source read, and what SubjectLookup::effective keeps of it.         *)
(***************************************************************************)
\* Slip: whatever the source returns is believed.
RequestedAny(a, slot) == TRUE

Requested(a, slot) == \E f \in FactsOf(slot) : InScope(a, Target(f))

\* Slip: an active assignment counts although its deadline has passed.
EffectiveActive(rows) == rows

Effective(rows) == {a \in rows : EffectiveState(at, a, Nil) = "applied"}

\* Slip: the deadline read last wins.
EarliestLast(old, rows) ==
  LET deadlines == {a.expires : a \in rows} \ {Nil}
  IN  IF deadlines = {} THEN old ELSE Min(deadlines)

\* EffectiveRelations::insert
Earliest(old, rows) ==
  LET deadlines == ({old} \union {a.expires : a \in rows}) \ {Nil}
  IN  IF deadlines = {} THEN Nil ELSE Min(deadlines)

WellFormedWindow(until) == until # Nil => at <= until

Found(slot, rows) == {<<slot, a.relation>> : a \in Effective(rows)}

Keep(slot, rows) ==
  /\ ids' = ids \union Found(slot, rows)
  /\ expires_at' = Earliest(expires_at, Effective(rows))
  /\ todo' = todo \ {slot}
  /\ pc' = IF todo' = {} THEN "answered" ELSE "reading"
  /\ UNCHANGED error

\* The map is iterated in the order of its keys.
IsFirst(slot) ==
  \A i, j \in DOMAIN Order : (Order[i] = slot /\ Order[j] \in todo) => i <= j

Read(slot, stray) ==
  /\ pc = "reading" /\ IsFirst(slot)
  /\ LET rows == {a \in active : Requested(a, slot)} \union stray
     IN  \/ (\E a \in rows : ~Requested(a, slot)) /\ Fail("scope_mismatch")
         \/ (\E a \in rows : EffectiveState(at, a, Nil) = "unavailable") /\ Fail("effective")
         \/ /\ \A a \in rows : Requested(a, slot) /\ EffectiveState(at, a, Nil) # "unavailable"
            /\ IF todo # {slot} \/ WellFormedWindow(Earliest(expires_at, Effective(rows)))
               THEN Keep(slot, rows) ELSE Fail("resolution")
  /\ UNCHANGED <<now, active, changes, call, past>>

SourceFails ==
  /\ pc = "reading"
  /\ Fail("source")
  /\ UNCHANGED <<now, active, changes, call, past>>

-----------------------------------------------------------------------------
(***************************************************************************)
(* The rest of the system: assignments come and go, also through the       *)
(* target of a fact, and time passes.                                      *)
(***************************************************************************)
Change(A) ==
  /\ changes < MaxChanges
  /\ changes' = changes + 1
  /\ active' = A
  /\ past' = IF pc = "reading" THEN past \union {A} ELSE past
  /\ UNCHANGED <<now, pc, call, todo, ids, expires_at, error>>

Apply(a) == a \notin active /\ Consistent(active \union {a}) /\ Change(active \union {a})

RevokeBySubject(f) ==
  /\ Bound[f].slot \in DOMAIN SubjectOf
  /\ \E a \in active : InScope(a, Target(f)) /\ Change(active \ {a})

ClockStep(t) ==
  /\ now' = t
  /\ UNCHANGED <<active, changes, pc, call, todo, ids, expires_at, error, past>>

Next ==
  \/ \E m \in {"decision", "query"}, R \in Requests : Start(m, R)
  \/ \E slot \in todo, stray \in SUBSET active : Read(slot, stray)
  \/ SourceFails
  \/ \E a \in Assignments : Apply(a)
  \/ \E f \in DOMAIN Bound : RevokeBySubject(f)
  \/ \E t \in Time : ClockStep(t)

Spec == Init /\ [][Next]_vars

-----------------------------------------------------------------------------
(***************************************************************************)
(* effective_presence: the same question inside a caller's transaction,    *)
(* over a scoped snapshot and possibly fulfilment evidence.                *)
(***************************************************************************)
SnapshotOf(x) ==
  [scope |-> x,
   active |-> IF \E a \in active : InScope(a, x)
              THEN CHOOSE a \in active : InScope(a, x) ELSE Nil]

Evidence(a, b) == [tenant |-> a.tenant, id |-> a.id, satisfied |-> b]

ASSUME EvidenceIsSome == \A a \in Assignments, b \in BOOLEAN : Evidence(a, b) # Nil

EvidenceFits(a, evidence) ==
  evidence # Nil => a # Nil /\ evidence.tenant = a.tenant /\ evidence.id = a.id

\* Slip: evidence is matched by its tenant only.
EffectivePresenceLoose(x, t, snapshot, evidence) ==
  IF t = Nil THEN "unavailable"
  ELSE IF snapshot.active = Nil THEN "absent"
  ELSE CASE EffectiveState(t, snapshot.active, evidence) = "applied" -> "present"
         [] EffectiveState(t, snapshot.active, evidence) = "unavailable" -> "unavailable"
         [] OTHER -> "absent"

EffectivePresence(x, t, snapshot, evidence) ==
  IF t = Nil THEN "unavailable"
  ELSE IF snapshot.scope # x THEN "scope_mismatch"
  ELSE IF ~EvidenceFits(snapshot.active, evidence) THEN "fulfilment_mismatch"
  ELSE IF snapshot.active = Nil THEN "absent"
  ELSE CASE EffectiveState(t, snapshot.active, evidence) = "applied" -> "present"
         [] EffectiveState(t, snapshot.active, evidence) = "unavailable" -> "unavailable"
         [] OTHER -> "absent"

-----------------------------------------------------------------------------
Present == {f \in Resolved(mode, required) : <<Bound[f].slot, Bound[f].relation>> \in ids}

\* The fact is true of the relations A at the observation time.
Holds(f, A) == \E a \in A : InScope(a, Target(f)) /\ ~Due(a, at)

\* The decision boundary would accept the answer now (FactResolution::validate_at).
Fresh == at <= now /\ (expires_at # Nil => now < expires_at)

\* The facts of one subject are those of one moment of the resolution, in the
\* Context's tenant and for that subject only, although relations change, a
\* source may answer too much and another subject may hold the same relation.
SubjectIsConsistent ==
  pc = "answered" =>
    \A slot \in Grouped(mode, required) : \E A \in past :
      \A f \in FactsOf(slot) : (f \in Present) = Holds(f, A)

\* As long as the boundary takes the answer for fresh, no relation behind a
\* present fact has passed its deadline (EffectiveRelations::insert); and the
\* answer is never refused for its own window, because a relation that is due
\* at the observation time takes no part in the deadline (FactResolution::new).
FreshnessBoundsPresence ==
  /\ error # "resolution"
  /\ (pc = "answered" /\ Fresh) =>
       \A f \in Present : \E A \in past : \E a \in A : InScope(a, Target(f)) /\ ~Due(a, now)

\* A fact the resolver is about to read and the same fact asked of a
\* transaction's snapshot at that time agree, unavailable evidence included.
PathsAgree ==
  \A slot \in todo :
    LET rows == {a \in active : Requested(a, slot)}
        through(f) == EffectivePresence(Target(f), at, SnapshotOf(Target(f)), Nil)
    IN  IF \E a \in rows : EffectiveState(at, a, Nil) = "unavailable"
        THEN \E f \in FactsOf(slot) : through(f) = "unavailable"
        ELSE \A f \in FactsOf(slot) :
               through(f) = IF <<slot, Bound[f].relation>> \in Found(slot, rows)
                            THEN "present" ELSE "absent"

\* Fulfilment evidence decides a fact only for the assignment it was gathered
\* for: not after it was revoked and applied anew, nor for another target.
EvidenceIsCurrent ==
  \A x \in {Target(f) : f \in {g \in DOMAIN Bound : Bound[g].slot \in DOMAIN SubjectOf}} :
    LET snapshot == SnapshotOf(x)
    IN  \A a \in Assignments, b \in BOOLEAN :
          EffectivePresence(x, now, snapshot, Evidence(a, b)) \in {"present", "absent"}
            => a \in active /\ InScope(a, x)

=============================================================================
