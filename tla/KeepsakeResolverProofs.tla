----------------------- MODULE KeepsakeResolverProofs -----------------------
(***************************************************************************)
(* Theorems about KeepsakeResolver for any bindings, requests and sets of  *)
(* assignments.                                                            *)
(*                                                                         *)
(* The argument: a slot that has been read answers for the relations at    *)
(* the moment of its read (Settled), which later reads do not disturb      *)
(* because each one adds pairs of its own slot only; and the deadline kept *)
(* so far bounds every assignment that was counted (Backed).               *)
(***************************************************************************)
EXTENDS KeepsakeResolver, WellFoundedInduction, TLAPS

\* The deadline e bounds the assignment.
Bounds(e, a) == a.expires # Nil => e # Nil /\ e <= a.expires

ReadSlots == Grouped(mode, required) \ todo

\* Each slot read so far is consistent with one moment of the past.
Settled ==
  \A slot \in ReadSlots : \E A \in past :
    \A f \in FactsOf(slot) : (<<slot, Bound[f].relation>> \in ids) <=> Holds(f, A)

\* Pairs come from slots that were read.
Attributed == \A slot \in todo : \A relation : <<slot, relation>> \notin ids

\* Behind each present fact is an assignment the kept deadline bounds.
Backed ==
  \A f \in Present : \E A \in past : \E a \in A : InScope(a, Target(f)) /\ Bounds(expires_at, a)

ResolverInv ==
  /\ TypeOK
  /\ pc = "idle" => ids = {} /\ expires_at = Nil
  /\ pc = "reading" => active \in past /\ todo \subseteq Grouped(mode, required)
  /\ pc \in {"reading", "answered"} => Settled /\ Attributed /\ Backed
  /\ expires_at # Nil => at < expires_at
  /\ error # "resolution"

-----------------------------------------------------------------------------
(***************************************************************************)
(* The earliest deadline.                                                  *)
(***************************************************************************)
LEMMA MinFacts ==
  ASSUME NEW T \in SUBSET Nat, T # {}
  PROVE  Min(T) \in T /\ \A y \in T : Min(T) <= y
  <1> DEFINE R == {ss \in Nat \X Nat : ss[1] < ss[2]}
  <1>0. IsWellFoundedOn(R, Nat)
    BY NatLessThanWellFounded DEF OpToRel
  <1>1. PICK x \in T : \A y \in T : <<y, x>> \notin R
    <2> HIDE DEF R
    <2> QED BY <1>0, WFMin
  <1>2. ASSUME NEW y \in T, y < x PROVE FALSE
    <2> DEFINE ss == <<y, x>>
    <2>1. ss \in Nat \X Nat /\ ss[1] = y /\ ss[2] = x OBVIOUS
    <2>2. ss \in R BY <1>2, <2>1
    <2> QED BY <1>1, <2>2
  <1>3. \A y \in T : x <= y BY <1>2
  <1> QED BY <1>3 DEF Min

LEMMA EarliestFacts ==
  ASSUME NEW old \in Time \union {Nil}, NEW rows, \A a \in rows : a.expires \in Time \union {Nil},
         NEW e, e = Earliest(old, rows)
  PROVE  /\ e \in Time \union {Nil}
         /\ old # Nil => e # Nil /\ e <= old
         /\ \A a \in rows : Bounds(e, a)
         /\ e # Nil => e = old \/ \E a \in rows : a.expires # Nil /\ e = a.expires
  <1> DEFINE deadlines == ({old} \union {a.expires : a \in rows}) \ {Nil}
  <1>1. e = IF deadlines = {} THEN Nil ELSE Min(deadlines)
    BY DEF Earliest
  <1>2. deadlines \subseteq Time /\ deadlines \in SUBSET Nat
    <2>1. deadlines \subseteq Time OBVIOUS
    <2>2. Time \subseteq Nat BY TimeAssumption DEF Time
    <2> QED BY <2>1, <2>2
  <1>3. deadlines # {} => e \in deadlines /\ \A y \in deadlines : e <= y
    <2> HIDE DEF deadlines
    <2>1. deadlines # {} => Min(deadlines) \in deadlines /\ \A y \in deadlines : Min(deadlines) <= y
      BY <1>2, MinFacts, Zenon
    <2> QED BY <1>1, <2>1, Zenon
  <1>4. /\ old # Nil => old \in deadlines
        /\ \A a \in rows : a.expires # Nil => a.expires \in deadlines
    OBVIOUS
  <1>5. \A y \in deadlines : y # Nil /\ (y = old \/ \E a \in rows : y = a.expires)
    OBVIOUS
  <1> HIDE DEF deadlines
  <1> QED BY <1>1, <1>2, <1>3, <1>4, <1>5 DEF Bounds

(***************************************************************************)
(* Effective state and scope.                                              *)
(***************************************************************************)
LEMMA EffectiveStateFacts ==
  ASSUME NEW a \in Assignments, NEW t
  PROVE  /\ EffectiveState(t, a, Nil) \in {"expired", "applied", "unavailable"}
         /\ EffectiveState(t, a, Nil) = "applied" => ~Due(a, t)
         /\ (EffectiveState(t, a, Nil) # "unavailable" /\ ~Due(a, t))
              => EffectiveState(t, a, Nil) = "applied"
  <1>1. a.lifecycle \in Lifecycles BY AssignmentsAssumption
  <1>2. CASE Due(a, t)
    BY <1>2, Zenon DEF EffectiveState
  <1>3. CASE ~Due(a, t) /\ a.lifecycle = "plain"
    BY <1>3, Zenon DEF EffectiveState
  <1>4. CASE ~Due(a, t) /\ a.lifecycle = "disabled"
    BY <1>4, Zenon DEF EffectiveState
  <1>5. CASE ~Due(a, t) /\ a.lifecycle = "fulfilment"
    BY <1>5, Zenon DEF EffectiveState
  <1> QED BY <1>1, <1>2, <1>3, <1>4, <1>5 DEF Lifecycles

\* Within a slot, the relation alone tells which fact an assignment is about.
LEMMA SlotScope ==
  ASSUME NEW slot, NEW f \in FactsOf(slot), NEW a
  PROVE  /\ InScope(a, Target(f)) => Requested(a, slot) /\ a.relation = Bound[f].relation
         /\ (Requested(a, slot) /\ a.relation = Bound[f].relation) => InScope(a, Target(f))
  BY DEF Requested, FactsOf, InScope, Target

\* What a read finds for a fact of its slot is what holds at that moment.
LEMMA ReadFinds ==
  ASSUME NEW slot, NEW f \in FactsOf(slot), active \subseteq Assignments,
         NEW rows, rows = {a \in active : Requested(a, slot)},
         \A a \in rows : EffectiveState(at, a, Nil) # "unavailable"
  PROVE  (<<slot, Bound[f].relation>> \in Found(slot, rows)) <=> Holds(f, active)
  <1>1. ASSUME <<slot, Bound[f].relation>> \in Found(slot, rows) PROVE Holds(f, active)
    <2>1. PICK a \in Effective(rows) : <<slot, a.relation>> = <<slot, Bound[f].relation>>
      BY <1>1 DEF Found
    <2>2. a \in rows /\ EffectiveState(at, a, Nil) = "applied" /\ a.relation = Bound[f].relation
      BY <2>1 DEF Effective
    <2>3. a \in active /\ InScope(a, Target(f)) /\ ~Due(a, at)
      BY <2>2, SlotScope, EffectiveStateFacts
    <2> QED BY <2>3 DEF Holds
  <1>2. ASSUME Holds(f, active) PROVE <<slot, Bound[f].relation>> \in Found(slot, rows)
    <2>1. PICK a \in active : InScope(a, Target(f)) /\ ~Due(a, at)
      BY <1>2 DEF Holds
    <2>2. a \in rows /\ a.relation = Bound[f].relation
      BY <2>1, SlotScope
    <2>3. a \in Effective(rows)
      BY <2>1, <2>2, EffectiveStateFacts DEF Effective
    <2> QED BY <2>2, <2>3 DEF Found
  <1> QED BY <1>1, <1>2

-----------------------------------------------------------------------------
(***************************************************************************)
(* The steps.                                                              *)
(***************************************************************************)
LEMMA InitResolver == Init => ResolverInv
  BY TimeAssumption
  DEF Init, ResolverInv, TypeOK, Time, Errors

\* A resolution that fails keeps what TypeOK asks for.
LEMMA FailInv ==
  ASSUME ResolverInv, NEW err \in Errors \ {"resolution"}, Fail(err),
         UNCHANGED <<now, active, changes>>, mode' \in {"decision", "query"},
         required' \in Requests \union {{}}, past' \subseteq SUBSET Assignments,
         \/ at' = at
         \/ at' \in Time /\ expires_at = Nil
  PROVE  ResolverInv'
  <1>1. TypeOK' BY DEF Fail, ResolverInv, TypeOK, Errors
  <1>2. pc' = "failed" /\ error' = err /\ expires_at' = expires_at BY DEF Fail
  <1> QED BY <1>1, <1>2 DEF ResolverInv

LEMMA StartInv ==
  ASSUME ResolverInv, NEW m \in {"decision", "query"}, NEW R \in Requests, Start(m, R)
  PROVE  ResolverInv'
  <1>1. /\ mode' = m /\ required' = R /\ at' = now /\ past' = {active}
        /\ ids = {} /\ expires_at = Nil /\ error = "none" /\ UNCHANGED <<now, active, changes>>
        /\ active \subseteq Assignments
    BY DEF Start, ResolverInv, TypeOK
  <1>2. CASE Fail("missing_fact") \/ Fail("missing_subject")
    <2>1. past' \subseteq SUBSET Assignments /\ at' \in Time BY <1>1 DEF ResolverInv, TypeOK
    <2> QED BY <1>1, <1>2, <2>1, FailInv DEF Errors
  <1>3. CASE /\ todo' = Grouped(m, R) /\ pc' = IF todo' = {} THEN "answered" ELSE "reading"
             /\ UNCHANGED <<ids, expires_at, error>>
    <2>1. pc' \in {"answered", "reading"} /\ (todo' # {}) = (pc' = "reading") BY <1>3
    <2>2. TypeOK' BY <1>1, <1>3, <2>1 DEF ResolverInv, TypeOK
    <2>3. ReadSlots' = {} BY <1>1, <1>3 DEF ReadSlots, Grouped, Resolved
    <2>4. Settled' BY <2>3 DEF Settled
    <2>5. Attributed' /\ Backed' BY <1>1, <1>3 DEF Attributed, Backed, Present
    <2>6. pc' = "reading" => active' \in past' /\ todo' \subseteq Grouped(mode, required)'
      BY <1>1, <1>3 DEF Grouped, Resolved
    <2> QED BY <1>1, <1>3, <2>1, <2>2, <2>4, <2>5, <2>6 DEF ResolverInv
  <1> QED BY <1>2, <1>3 DEF Start

\* The deadline after a read: kept for the assignments counted before, and
\* later than the observation.
LEMMA ReadDeadline ==
  ASSUME ResolverInv, NEW rows \in SUBSET Assignments,
         NEW e, e = Earliest(expires_at, Effective(rows))
  PROVE  /\ e \in Time \union {Nil} /\ (e # Nil => at < e) /\ WellFormedWindow(e)
         /\ \A a \in Assignments : Bounds(expires_at, a) => Bounds(e, a)
         /\ \A a \in Effective(rows) : Bounds(e, a)
  <1>1. /\ \A a \in Effective(rows) : a \in Assignments /\ EffectiveState(at, a, Nil) = "applied"
        /\ expires_at \in Time \union {Nil} /\ at \in Time /\ (expires_at # Nil => at < expires_at)
    BY DEF Effective, ResolverInv, TypeOK
  <1>2. /\ e \in Time \union {Nil}
        /\ expires_at # Nil => e # Nil /\ e <= expires_at
        /\ \A a \in Effective(rows) : Bounds(e, a)
        /\ e # Nil => e = expires_at \/ \E a \in Effective(rows) : a.expires # Nil /\ e = a.expires
    BY <1>1, AssignmentsAssumption, EarliestFacts
  <1>3. Time \subseteq Nat BY TimeAssumption DEF Time
  <1>4. e # Nil => at < e
    <2>1. ASSUME NEW a \in Effective(rows), a.expires # Nil PROVE at < a.expires
      <3>1. ~Due(a, at) /\ a.expires \in Time
        BY <1>1, <2>1, EffectiveStateFacts, AssignmentsAssumption
      <3>2. at \in Nat /\ a.expires \in Nat BY <1>1, <1>3, <3>1, Zenon
      <3> QED BY <2>1, <3>1, <3>2 DEF Due
    <2>2. CASE e = expires_at
      BY <1>1, <2>2
    <2>3. CASE \E a \in Effective(rows) : a.expires # Nil /\ e = a.expires
      BY <2>1, <2>3
    <2> QED BY <1>2, <2>2, <2>3, Zenon
  <1>5. ASSUME NEW a \in Assignments, Bounds(expires_at, a) PROVE Bounds(e, a)
    <2> SUFFICES ASSUME a.expires # Nil PROVE e # Nil /\ e <= a.expires
      BY DEF Bounds
    <2>1. a.expires \in Time BY AssignmentsAssumption
    <2>2. expires_at # Nil /\ expires_at <= a.expires BY <1>5 DEF Bounds
    <2>3. e # Nil /\ e <= expires_at /\ e \in Time /\ expires_at \in Time
      <3>1. e # Nil /\ e <= expires_at BY <1>2, <2>2, Zenon
      <3> QED BY <1>1, <1>2, <2>2, <3>1
    <2>4. a.expires \in Nat /\ e \in Nat /\ expires_at \in Nat BY <1>3, <2>1, <2>3, Zenon
    <2> QED BY <2>2, <2>3, <2>4
  <1>6. WellFormedWindow(e)
    BY <1>1, <1>2, <1>3, <1>4 DEF WellFormedWindow
  <1> QED BY <1>2, <1>4, <1>5, <1>6

LEMMA KeepInv ==
  ASSUME ResolverInv, NEW slot \in todo, pc = "reading",
         NEW rows, rows = {a \in active : Requested(a, slot)},
         \A a \in rows : EffectiveState(at, a, Nil) # "unavailable",
         Keep(slot, rows), UNCHANGED <<now, active, changes, call, past>>
  PROVE  ResolverInv'
  <1>1. /\ ids' = ids \union Found(slot, rows) /\ expires_at' = Earliest(expires_at, Effective(rows))
        /\ todo' = todo \ {slot} /\ pc' \in {"answered", "reading"}
        /\ (todo' # {}) = (pc' = "reading") /\ error' = error
        /\ UNCHANGED <<mode, required, at>>
    BY DEF Keep, call
  <1>2. /\ active \subseteq Assignments /\ active \in past /\ slot \in Grouped(mode, required)
        /\ Settled /\ Attributed /\ Backed /\ rows \in SUBSET Assignments
    BY DEF ResolverInv, TypeOK
  <1>3. /\ expires_at' \in Time \union {Nil} /\ (expires_at' # Nil => at < expires_at')
        /\ \A a \in Assignments : Bounds(expires_at, a) => Bounds(expires_at', a)
        /\ \A a \in Effective(rows) : Bounds(expires_at', a)
    BY <1>1, <1>2, ReadDeadline
  <1>4. TypeOK'
    BY <1>1, <1>3 DEF ResolverInv, TypeOK
  <1>5. \A s, r : <<s, r>> \in Found(slot, rows) => s = slot
    BY DEF Found
  <1>6. Settled'
    <2> SUFFICES ASSUME NEW s \in ReadSlots'
                 PROVE  \E A \in past : \A f \in FactsOf(s) :
                          (<<s, Bound[f].relation>> \in ids') <=> Holds(f, A)
      BY <1>1 DEF Settled, FactsOf, Holds, Target, Resolved, call
    <2>1. CASE s = slot
      <3>1. \A f \in FactsOf(s) : <<s, Bound[f].relation>> \notin ids
        BY <1>2, <2>1 DEF Attributed
      <3>2. \A f \in FactsOf(s) : (<<s, Bound[f].relation>> \in Found(slot, rows)) <=> Holds(f, active)
        BY <1>2, <2>1, ReadFinds
      <3> QED BY <1>1, <1>2, <3>1, <3>2
    <2>2. CASE s # slot
      <3>1. s \in ReadSlots BY <1>1, <2>2 DEF ReadSlots, Grouped, Resolved
      <3>2. PICK A \in past : \A f \in FactsOf(s) :
              (<<s, Bound[f].relation>> \in ids) <=> Holds(f, A)
        BY <1>2, <3>1 DEF Settled
      <3> QED BY <1>1, <1>5, <2>2, <3>2
    <2> QED BY <2>1, <2>2
  <1>7. Attributed'
    BY <1>1, <1>2, <1>5 DEF Attributed
  <1>8. Backed'
    <2> SUFFICES ASSUME NEW f \in Present'
                 PROVE  \E A \in past : \E a \in A : InScope(a, Target(f)) /\ Bounds(expires_at', a)
      BY <1>1 DEF Backed, Target
    <2>1. f \in Resolved(mode, required) /\ <<Bound[f].slot, Bound[f].relation>> \in ids'
      BY <1>1 DEF Present, Resolved
    <2>2. CASE <<Bound[f].slot, Bound[f].relation>> \in ids
      <3>1. PICK A \in past : \E a \in A : InScope(a, Target(f)) /\ Bounds(expires_at, a)
        BY <1>2, <2>1, <2>2 DEF Backed, Present
      <3>2. A \subseteq Assignments BY <3>1 DEF ResolverInv, TypeOK
      <3> QED BY <1>3, <3>1, <3>2
    <2>3. CASE <<Bound[f].slot, Bound[f].relation>> \in Found(slot, rows)
      <3>1. PICK a \in Effective(rows) : <<slot, a.relation>> = <<Bound[f].slot, Bound[f].relation>>
        BY <2>3 DEF Found
      <3>2. a \in active /\ Requested(a, slot) /\ f \in FactsOf(slot) /\ a.relation = Bound[f].relation
        BY <2>1, <3>1 DEF Effective, FactsOf
      <3> QED BY <1>2, <1>3, <3>1, <3>2, SlotScope
    <2> QED BY <1>1, <2>1, <2>2, <2>3
  <1>9. pc' = "reading" => active' \in past' /\ todo' \subseteq Grouped(mode, required)'
    BY <1>1, <1>2 DEF ResolverInv, Grouped, Resolved
  <1> QED BY <1>1, <1>3, <1>4, <1>6, <1>7, <1>8, <1>9 DEF ResolverInv

LEMMA ReadInv ==
  ASSUME ResolverInv, NEW slot \in todo, NEW stray \in SUBSET active, Read(slot, stray)
  PROVE  ResolverInv'
  <1> DEFINE rows == {a \in active : Requested(a, slot)} \union stray
  <1>1. /\ pc = "reading" /\ UNCHANGED <<now, active, changes, call, past>>
        /\ UNCHANGED <<mode, required, at>>
        /\ active \subseteq Assignments /\ past \subseteq SUBSET Assignments
        /\ mode \in {"decision", "query"} /\ required \in Requests \union {{}}
    BY DEF Read, call, ResolverInv, TypeOK
  <1>2. CASE Fail("scope_mismatch") \/ Fail("effective")
    BY <1>1, <1>2, FailInv DEF Errors
  <1>3. CASE /\ \A a \in rows : Requested(a, slot) /\ EffectiveState(at, a, Nil) # "unavailable"
             /\ IF todo # {slot} \/ WellFormedWindow(Earliest(expires_at, Effective(rows)))
                THEN Keep(slot, rows) ELSE Fail("resolution")
    <2>1. rows = {a \in active : Requested(a, slot)} BY <1>3
    <2>2. WellFormedWindow(Earliest(expires_at, Effective(rows)))
      <3>1. rows \in SUBSET Assignments BY <1>1
      <3> HIDE DEF rows
      <3> QED BY <3>1, ReadDeadline
    <2>3. Keep(slot, rows) BY <1>3, <2>2
    <2> HIDE DEF rows
    <2> QED BY <1>1, <1>3, <2>1, <2>3, KeepInv
  <1> QED BY <1>2, <1>3 DEF Read

\* The rest of the system: the past only grows while slots are being read.
LEMMA WorldInv ==
  ASSUME ResolverInv, UNCHANGED <<pc, call, todo, ids, expires_at, error>>,
         now' \in Time, active' \subseteq Assignments, Consistent(active'),
         changes' \in 0 .. MaxChanges,
         past \subseteq past', past' \subseteq SUBSET Assignments, pc = "reading" => active' \in past'
  PROVE  ResolverInv'
  <1>1. UNCHANGED <<mode, required, at>> BY DEF call
  <1>2. TypeOK' BY <1>1 DEF ResolverInv, TypeOK, Consistent
  <1>3. /\ \A m, R : Grouped(m, R)' = Grouped(m, R) /\ Resolved(m, R)' = Resolved(m, R)
        /\ ReadSlots' = ReadSlots /\ Present' = Present
        /\ \A slot : FactsOf(slot)' = FactsOf(slot)
        /\ \A f, A : Holds(f, A)' = Holds(f, A)
    BY <1>1 DEF Grouped, Resolved, ReadSlots, Present, FactsOf, Holds, Target
  <1>4. Settled => Settled'
    BY <1>3 DEF Settled
  <1>5. Attributed => Attributed'
    BY DEF Attributed
  <1>6. Backed => Backed'
    BY <1>3 DEF Backed
  <1> QED BY <1>1, <1>2, <1>3, <1>4, <1>5, <1>6 DEF ResolverInv

LEMMA ChangeInv ==
  ASSUME ResolverInv, NEW A \in SUBSET Assignments, Consistent(A), Change(A)
  PROVE  ResolverInv'
  <1>1. /\ changes' \in 0 .. MaxChanges /\ active' = A /\ now' \in Time
        /\ past' = (IF pc = "reading" THEN past \union {A} ELSE past)
        /\ past \subseteq SUBSET Assignments
    BY TimeAssumption DEF Change, ResolverInv, TypeOK
  <1> QED BY <1>1, WorldInv DEF Change

LEMMA NextResolver == ResolverInv /\ [Next]_vars => ResolverInv'
  <1> SUFFICES ASSUME ResolverInv, [Next]_vars PROVE ResolverInv'
    OBVIOUS
  <1>0. /\ active \subseteq Assignments /\ Consistent(active) /\ now \in Time
        /\ past \subseteq SUBSET Assignments /\ changes \in 0 .. MaxChanges
        /\ mode \in {"decision", "query"} /\ required \in Requests \union {{}}
        /\ pc = "reading" => active \in past
    BY DEF ResolverInv, TypeOK
  <1>1. CASE UNCHANGED vars
    BY <1>0, <1>1, WorldInv DEF vars
  <1>2. ASSUME NEW m \in {"decision", "query"}, NEW R \in Requests, Start(m, R) PROVE ResolverInv'
    BY <1>2, StartInv
  <1>3. ASSUME NEW slot \in todo, NEW stray \in SUBSET active, Read(slot, stray) PROVE ResolverInv'
    BY <1>3, ReadInv
  <1>4. CASE SourceFails
    BY <1>0, <1>4, FailInv DEF SourceFails, call, Errors
  <1>5. ASSUME NEW a \in Assignments, Apply(a) PROVE ResolverInv'
    <2>1. active \union {a} \in SUBSET Assignments BY <1>0
    <2> QED BY <1>5, <2>1, ChangeInv DEF Apply
  <1>6. ASSUME NEW f \in DOMAIN Bound, RevokeBySubject(f) PROVE ResolverInv'
    <2>1. PICK a \in active : Change(active \ {a}) BY <1>6 DEF RevokeBySubject
    <2>2. active \ {a} \in SUBSET Assignments /\ Consistent(active \ {a}) BY <1>0 DEF Consistent
    <2> QED BY <2>1, <2>2, ChangeInv
  <1>7. ASSUME NEW t \in Time, ClockStep(t) PROVE ResolverInv'
    BY <1>0, <1>7, WorldInv DEF ClockStep, Consistent
  <1> QED BY <1>1, <1>2, <1>3, <1>4, <1>5, <1>6, <1>7 DEF Next

LEMMA ResolverInvariant == Spec => []ResolverInv
  BY InitResolver, NextResolver, PTL DEF Spec

-----------------------------------------------------------------------------
\* Every component of the resolver's state keeps its type while relations are
\* applied and revoked and sources fail.
THEOREM ResolverTypeCorrect == Spec => []TypeOK
  BY ResolverInvariant, PTL DEF ResolverInv

\* The answer for each subject is that of one moment of the resolution, for
\* any bindings and any history of the relations
\* (active_relation_ids_by_subject, SubjectLookup::effective).
THEOREM SubjectsAreConsistent == Spec => []SubjectIsConsistent
  <1>1. ResolverInv => SubjectIsConsistent
    <2> SUFFICES ASSUME ResolverInv, pc = "answered", NEW slot \in Grouped(mode, required)
                 PROVE  \E A \in past : \A f \in FactsOf(slot) : (f \in Present) = Holds(f, A)
      BY DEF SubjectIsConsistent
    <2>1. Settled /\ todo = {} BY DEF ResolverInv, TypeOK
    <2>2. PICK A \in past : \A f \in FactsOf(slot) :
            (<<slot, Bound[f].relation>> \in ids) <=> Holds(f, A)
      BY <2>1 DEF Settled, ReadSlots
    <2>3. \A f \in FactsOf(slot) : f \in Present <=> <<slot, Bound[f].relation>> \in ids
      BY DEF FactsOf, Present
    <2>4. ASSUME NEW f \in FactsOf(slot) PROVE (f \in Present) = Holds(f, A)
      <3>1. (f \in Present) <=> Holds(f, A) BY <2>2, <2>3
      <3>2. Holds(f, A) \in BOOLEAN BY DEF Holds
      <3> QED BY <3>1, <3>2
    <2> QED BY <2>4
  <1> QED BY <1>1, ResolverInvariant, PTL

\* While the boundary takes an answer for fresh, nothing behind a present
\* fact is past its deadline, and no answer is refused for its own window
\* (EffectiveRelations::insert, FactResolution::new).
THEOREM FreshnessIsBounded == Spec => []FreshnessBoundsPresence
  <1>1. ResolverInv => FreshnessBoundsPresence
    <2> SUFFICES ASSUME ResolverInv, pc = "answered", Fresh, NEW f \in Present
                 PROVE  \E A \in past : \E a \in A : InScope(a, Target(f)) /\ ~Due(a, now)
      BY DEF FreshnessBoundsPresence, ResolverInv
    <2>1. Backed /\ past \subseteq SUBSET Assignments /\ now \in Time
          /\ expires_at \in Time \union {Nil}
      BY DEF ResolverInv, TypeOK
    <2>2. PICK A \in past : \E a \in A : InScope(a, Target(f)) /\ Bounds(expires_at, a)
      BY <2>1 DEF Backed
    <2>3. PICK a \in A : InScope(a, Target(f)) /\ Bounds(expires_at, a)
      BY <2>2
    <2>4. ~Due(a, now)
      <3> SUFFICES ASSUME a.expires # Nil PROVE ~(a.expires <= now)
        BY DEF Due
      <3>1. a.expires \in Time BY <2>1, <2>2, <2>3, AssignmentsAssumption
      <3>2. expires_at # Nil /\ expires_at <= a.expires /\ now < expires_at
        BY <2>3 DEF Bounds, Fresh
      <3>3. Time \subseteq Nat BY TimeAssumption DEF Time
      <3>4. a.expires \in Nat /\ expires_at \in Nat /\ now \in Nat
        BY <2>1, <3>1, <3>2, <3>3
      <3> QED BY <3>2, <3>4
    <2> QED BY <2>2, <2>3, <2>4
  <1> QED BY <1>1, ResolverInvariant, PTL

(***************************************************************************)
(* effective_presence.                                                     *)
(***************************************************************************)
LEMMA SnapshotFacts ==
  ASSUME ResolverInv, NEW x
  PROVE  /\ SnapshotOf(x).scope = x
         /\ SnapshotOf(x).active # Nil =>
              SnapshotOf(x).active \in active /\ InScope(SnapshotOf(x).active, x)
         /\ \A a \in active : InScope(a, x) => SnapshotOf(x).active = a
  <1>1. Nil \notin active /\ Consistent(active)
    BY AssignmentsAssumption DEF ResolverInv, TypeOK
  <1>2. \A a, b \in active : (InScope(a, x) /\ InScope(b, x)) => a = b
    BY <1>1 DEF Consistent, InScope
  <1> QED BY <1>1, <1>2 DEF SnapshotOf

\* Without evidence, presence is the effective state of the one assignment.
LEMMA PresenceFacts ==
  ASSUME ResolverInv, NEW x,
         NEW through, through = EffectivePresence(x, at, SnapshotOf(x), Nil)
  PROVE  /\ (\A a \in active : ~InScope(a, x)) => through = "absent"
         /\ \A a \in active : InScope(a, x) =>
              /\ EffectiveState(at, a, Nil) = "applied" => through = "present"
              /\ EffectiveState(at, a, Nil) = "unavailable" => through = "unavailable"
              /\ EffectiveState(at, a, Nil) = "expired" => through = "absent"
  <1>1. at # Nil /\ Nil \notin active
    BY TimeAssumption, AssignmentsAssumption DEF ResolverInv, TypeOK
  <1>2. EvidenceFits(SnapshotOf(x).active, Nil) BY DEF EvidenceFits
  <1>3. ASSUME \A a \in active : ~InScope(a, x) PROVE through = "absent"
    <2>1. SnapshotOf(x).active = Nil BY <1>3, SnapshotFacts
    <2> QED BY <1>1, <1>2, <2>1, SnapshotFacts, Zenon DEF EffectivePresence
  <1>4. ASSUME NEW a \in active, InScope(a, x)
        PROVE  /\ EffectiveState(at, a, Nil) = "applied" => through = "present"
               /\ EffectiveState(at, a, Nil) = "unavailable" => through = "unavailable"
               /\ EffectiveState(at, a, Nil) = "expired" => through = "absent"
    <2>1. SnapshotOf(x).active = a /\ SnapshotOf(x).scope = x /\ a # Nil
      BY <1>1, <1>4, SnapshotFacts
    <2>2. through = CASE EffectiveState(at, a, Nil) = "applied" -> "present"
                      [] EffectiveState(at, a, Nil) = "unavailable" -> "unavailable"
                      [] OTHER -> "absent"
      BY <1>1, <1>2, <2>1, Zenon DEF EffectivePresence
    <2> QED BY <2>2, Zenon
  <1> QED BY <1>3, <1>4

\* The resolver's read and effective_presence over a snapshot of the same
\* moment agree on every fact, for any bindings and assignments
\* (SubjectLookup::effective, effective_presence).
THEOREM ReadPathsAgree == Spec => []PathsAgree
  <1>1. ResolverInv => PathsAgree
    <2> SUFFICES ASSUME ResolverInv, NEW slot \in todo
                 PROVE  LET rows == {a \in active : Requested(a, slot)}
                            through(f) == EffectivePresence(Target(f), at, SnapshotOf(Target(f)), Nil)
                        IN  IF \E a \in rows : EffectiveState(at, a, Nil) = "unavailable"
                            THEN \E f \in FactsOf(slot) : through(f) = "unavailable"
                            ELSE \A f \in FactsOf(slot) :
                                   through(f) = IF <<slot, Bound[f].relation>> \in Found(slot, rows)
                                                THEN "present" ELSE "absent"
      BY DEF PathsAgree
    <2> DEFINE rows == {a \in active : Requested(a, slot)}
               through(f) == EffectivePresence(Target(f), at, SnapshotOf(Target(f)), Nil)
    <2>0. active \subseteq Assignments BY DEF ResolverInv, TypeOK
    <2>1. ASSUME NEW a \in rows, EffectiveState(at, a, Nil) = "unavailable"
          PROVE  \E f \in FactsOf(slot) : through(f) = "unavailable"
      <3>1. PICK f \in FactsOf(slot) : InScope(a, Target(f)) BY <2>1 DEF Requested
      <3> QED BY <2>1, <3>1, PresenceFacts
    <2>2. ASSUME \A a \in rows : EffectiveState(at, a, Nil) # "unavailable", NEW f \in FactsOf(slot)
          PROVE  through(f) = IF <<slot, Bound[f].relation>> \in Found(slot, rows)
                              THEN "present" ELSE "absent"
      <3>1. (<<slot, Bound[f].relation>> \in Found(slot, rows)) <=> Holds(f, active)
        BY <2>0, <2>2, ReadFinds
      <3>2. CASE Holds(f, active)
        <4>1. PICK a \in active : InScope(a, Target(f)) /\ ~Due(a, at) BY <3>2 DEF Holds
        <4>2. a \in rows BY <4>1, SlotScope
        <4>3. EffectiveState(at, a, Nil) = "applied"
          BY <2>0, <2>2, <4>1, <4>2, EffectiveStateFacts
        <4>4. through(f) = "present" BY <4>1, <4>3, PresenceFacts
        <4> QED BY <3>1, <3>2, <4>4
      <3>3. CASE ~Holds(f, active)
        <4>1. ASSUME NEW a \in active, InScope(a, Target(f)) PROVE EffectiveState(at, a, Nil) = "expired"
          <5>1. Due(a, at) BY <3>3, <4>1 DEF Holds
          <5> QED BY <5>1, Zenon DEF EffectiveState
        <4>2. through(f) = "absent" BY <4>1, PresenceFacts
        <4> QED BY <3>1, <3>3, <4>2
      <3> QED BY <3>2, <3>3
    <2> QED BY <2>1, <2>2
  <1> QED BY <1>1, ResolverInvariant, PTL

\* Evidence decides a fact only for the assignment it was gathered for, for
\* any assignments and any history of them (effective_presence).
THEOREM EvidenceStaysCurrent == Spec => []EvidenceIsCurrent
  <1>1. ResolverInv => EvidenceIsCurrent
    <2> SUFFICES ASSUME ResolverInv, NEW x, NEW a \in Assignments, NEW b \in BOOLEAN,
                        EffectivePresence(x, now, SnapshotOf(x), Evidence(a, b)) \in {"present", "absent"}
                 PROVE  a \in active /\ InScope(a, x)
      BY DEF EvidenceIsCurrent
    <2>1. EvidenceFits(SnapshotOf(x).active, Evidence(a, b))
      BY Zenon DEF EffectivePresence
    <2>2. /\ SnapshotOf(x).active # Nil
          /\ a.tenant = SnapshotOf(x).active.tenant /\ a.id = SnapshotOf(x).active.id
      BY <2>1, EvidenceIsSome DEF EvidenceFits, Evidence
    <2>3. /\ SnapshotOf(x).active \in active /\ InScope(SnapshotOf(x).active, x)
          /\ SnapshotOf(x).active \in Assignments
      BY <2>2, SnapshotFacts DEF ResolverInv, TypeOK
    <2> QED BY <2>2, <2>3, AssignmentIds
  <1> QED BY <1>1, ResolverInvariant, PTL
=============================================================================
