----------------------- MODULE RelationLifecycleProofs -----------------------
(***************************************************************************)
(* Theorems about RelationLifecycle for any workers, jobs, commands and    *)
(* scopes.                                                                 *)
(*                                                                         *)
(* The argument: the scope locks and the FOR SHARE locks isolate an open   *)
(* transaction (Undisturbed): no other transaction changes a row it has    *)
(* locked, or commits a receipt for a scope it has locked.  So what it     *)
(* read under its locks is still true when it commits, its uncommitted     *)
(* writes form a whole of their own (Whole), and a commit is the union of  *)
(* two wholes.                                                             *)
(***************************************************************************)
EXTENDS RelationLifecycle, TLAPS

ByCommand == {"apply", "renew"}

(***************************************************************************)
(* What is committed.                                                      *)
(***************************************************************************)
\* Receipts R, sessions S and events E that belong together.  The union of
\* two wholes is a whole.
Whole(R, S, E) ==
  /\ \A r \in R, kind \in {"decision", "notification"} :
       \E e \in E : e.kind = kind /\ e.key.of = "command" /\ e.key.id = r.id
  /\ \A e \in E : e.key.of = "command" => \E r \in R : r.id = e.key.id
  /\ \A x \in S : \E e \in E : e.key.of = "session" /\ e.key.id = x /\ Permits(e.seen)
  /\ \A e \in E : (e.key.of = "session" /\ Permits(e.seen)) => e.key.id \in S
  /\ \A e \in E, kind \in {"decision", "notification"} :
       e.key.of = "expired" =>
         \E f \in E : f.kind = kind /\ f.key.of = "expired" /\ f.key.id = e.key.id

\* The assignment k in scope s was created by one of the receipts R.
Created(R, s, k) ==
  \E r \in R : r.command.scope = s /\ r.command.assignment = k /\ r.assignment = k

ReceiptsKeyed ==
  /\ \A r \in receipts : r.id = r.command.id
  /\ \A r, q \in receipts : r.id = q.id => r = q

Origin == \A s \in Scopes : relation[s] # Nil => Created(receipts, s, relation[s].id)

\* An expired assignment once had a receipt, and is in no scope any more.
Retired ==
  \A e \in events : e.key.of = "expired" =>
    /\ \E r \in receipts : r.command.assignment = e.key.id
    /\ \A s \in Scopes : relation[s] # Nil => relation[s].id # e.key.id

\* Two open transactions never hold receipts under one id.
Apart ==
  \A v, w \in Workers : v # w =>
    \A r \in draft[v].receipts, q \in draft[w].receipts : r.id # q.id

Told ==
  \A x \in told : x.outcome.is \in {"applied", "replayed"} =>
    \E r \in receipts : r.command = x.job.command /\ r.assignment = x.outcome.id

(***************************************************************************)
(* An open transaction.                                                    *)
(***************************************************************************)
Conduct(w) ==
  /\ phase[w] # "idle" => job[w] \in Jobs
  /\ phase[w] = "auth" => job[w].op # "revoke"
  /\ phase[w] = "expire" => job[w].op = "renew"
  /\ phase[w] \in {"receipt", "write", "audit", "notify"} => job[w].op \in ByCommand
  /\ phase[w] = "decide" => job[w].op = "admit" /\ job[w].at # Nil /\ todo[w] = <<>>
  /\ phase[w] = "revoke" => job[w].op = "revoke"
  /\ phase[w] = "observe" => todo[w] # <<>>
  /\ phase[w] = "auth" /\ job[w].op = "admit" => todo[w] = AdmissionScopes
  /\ phase[w] \in {"auth", "expire", "observe"} /\ job[w].op \in ByCommand =>
       todo[w] = <<job[w].command.scope>>
  /\ phase[w] = "observe" /\ job[w].op = "revoke" => todo[w] = <<job[w].scope>>
  /\ phase[w] \notin {"returned", "failed"} => outcome[w].is = "none"
  /\ outcome[w].is \in {"applied", "replayed", "admitted"} => phase[w] = "returned"
  /\ phase[w] = "failed" => outcome[w].is \in {"conflict", "error"}
  /\ outcome[w].is \in {"applied", "replayed"} => job[w].op \in ByCommand
  /\ outcome[w].is = "admitted" => job[w].op = "admit" /\ todo[w] = <<>> /\ Permits(seen[w])

\* The authority read under FOR SHARE is still enabled.
Cleared(w) ==
  (/\ \/ phase[w] \in {"expire", "observe", "receipt", "write", "audit", "notify", "decide"}
      \/ outcome[w].is \in {"applied", "replayed", "admitted"}
   /\ job[w].op # "revoke") =>
     w \in shares[Principal(job[w])] /\ enabled[Principal(job[w])]

\* The scopes a transaction writes, and the one it was asked for, are locked.
Holding(w) ==
  /\ \A s \in DOMAIN draft[w].relation : locks[s] = w
  /\ phase[w] \in {"receipt", "write", "audit", "notify"} => locks[job[w].command.scope] = w
  /\ phase[w] = "revoke" => locks[job[w].scope] = w
  /\ \A r \in draft[w].receipts : locks[r.command.scope] = w

\* What an admission has read is still so.
Admission(w) ==
  (phase[w] \in {"observe", "decide"} /\ job[w].op = "admit") \/ outcome[w].is = "admitted" =>
    \A i \in DOMAIN AdmissionScopes :
      \/ \E k \in DOMAIN todo[w] : todo[w][k] = AdmissionScopes[i]
      \/ /\ locks[AdmissionScopes[i]] = w
         /\ Effective(relation[AdmissionScopes[i]], job[w].at) => AdmissionScopes[i] \in seen[w]

\* How far the uncommitted writes have got.
Drafted(w) ==
  /\ phase[w] \in {"idle", "auth", "expire", "decide", "revoke"} => draft[w] = NoDraft
  /\ phase[w] = "observe" /\ job[w].op # "renew" => draft[w] = NoDraft
  /\ phase[w] \in {"observe", "receipt", "write"} =>
       /\ draft[w].receipts = {}
       /\ \A e \in draft[w].events : e.key.of = "expired"
  /\ phase[w] \in {"observe", "receipt", "write", "audit", "notify"} => draft[w].sessions = {}
  /\ phase[w] = "audit" => \A e \in draft[w].events : e.key.of = "expired"
  /\ phase[w] \in {"audit", "notify"} => \E r \in draft[w].receipts : r.command = job[w].command
  /\ phase[w] = "notify" =>
       /\ CommandEvent("decision", job[w].command) \in draft[w].events
       /\ \A e \in draft[w].events :
            e.key.of = "expired" \/ e = CommandEvent("decision", job[w].command)
  /\ phase[w] = "returned" => Whole(draft[w].receipts, draft[w].sessions, draft[w].events)
  /\ \A e \in draft[w].events, kind \in {"decision", "notification"} :
       e.key.of = "expired" =>
         \E f \in draft[w].events : f.kind = kind /\ f.key.of = "expired" /\ f.key.id = e.key.id
  /\ \A e \in draft[w].events : e \notin Foreign

\* Uncommitted receipts are the command's own, under an id nobody has used.
Receipted(w) ==
  /\ \A r \in draft[w].receipts : r.command = job[w].command /\ r.id = r.command.id
  /\ \A r, q \in draft[w].receipts : r = q
  /\ \A r \in draft[w].receipts, q \in receipts : r.id # q.id

\* Where uncommitted rows come from, and which rows have been expired.
Rowed(w) ==
  /\ \A s \in DOMAIN draft[w].relation :
       draft[w].relation[s] # Nil =>
         \/ draft[w].relation[s] = relation[s]
         \/ Created(draft[w].receipts, s, draft[w].relation[s].id)
  /\ \A e \in draft[w].events : e.key.of = "expired" =>
       \E s \in DOMAIN draft[w].relation :
         /\ relation[s] # Nil /\ relation[s].id = e.key.id
         /\ draft[w].relation[s] # Nil => draft[w].relation[s].id # e.key.id

Answered(w) ==
  /\ phase[w] = "write" => \A r \in receipts : r.command # job[w].command
  /\ outcome[w].is = "applied" =>
       \E r \in draft[w].receipts : r.command = job[w].command /\ r.assignment = outcome[w].id
  /\ outcome[w].is = "replayed" =>
       \E r \in receipts : r.command = job[w].command /\ r.assignment = outcome[w].id
  /\ (outcome[w].is = "conflict" /\ job[w].op \in ByCommand) =>
       \/ \E r \in receipts : r.id = job[w].command.id /\ r.command # job[w].command
       \/ \E e \in Foreign : e.key = [of |-> "command", id |-> job[w].command.id]

Own(w) ==
  /\ Conduct(w) /\ Cleared(w) /\ Holding(w) /\ Admission(w)
  /\ Drafted(w) /\ Receipted(w) /\ Rowed(w) /\ Answered(w)

Committed ==
  /\ Foreign \subseteq events
  /\ Whole(receipts, sessions, events \ Foreign)
  /\ ReceiptsKeyed /\ Origin /\ Retired /\ Told

LifecycleInv == TypeOK /\ Committed /\ Apart /\ \A w \in Workers : Own(w)

-----------------------------------------------------------------------------
(***************************************************************************)
(* Types.                                                                  *)
(***************************************************************************)
LEMMA JobFacts ==
  ASSUME NEW j \in Jobs
  PROVE  /\ j.op \in {"apply", "admit", "renew", "revoke"}
         /\ j # Nil
         /\ j.op \in ByCommand =>
              /\ j.command \in Commands
              /\ j.command.scope \in Scopes /\ j.command.at \in Time
              /\ j.command.until \in Time \union {Nil}
              /\ j.command.id \in CommandIds /\ j.command.assignment \in Assignments
         /\ j.op = "admit" => j.session \in Sessions /\ j.audit_denial \in BOOLEAN
         /\ j.op = "revoke" => j.scope \in Scopes
         /\ j.at \in Time \union {Nil}
         /\ j.op = "renew" => j.at \in Time
  <1>1. j.op \in ByCommand => j.command \in Commands BY JobsAssumption DEF ByCommand
  <1> QED BY <1>1, JobsAssumption, CommandsAssumption, ModelValues DEF CommandIds, Assignments

LEMMA RowChangesElim ==
  ASSUME NEW f \in RowChanges
  PROVE  DOMAIN f \subseteq Scopes /\ \A x \in DOMAIN f : f[x] \in Rows \union {Nil}
  BY DEF RowChanges

LEMMA RowChangesIntro ==
  ASSUME NEW D \in SUBSET Scopes, NEW f \in [D -> Rows \union {Nil}]
  PROVE  f \in RowChanges
  BY DEF RowChanges

LEMMA DraftFacts ==
  ASSUME NEW d \in Drafts
  PROVE  /\ d.relation \in RowChanges
         /\ DOMAIN d.relation \subseteq Scopes
         /\ \A x \in DOMAIN d.relation : d.relation[x] \in Rows \union {Nil}
         /\ d.receipts \subseteq Receipts /\ d.sessions \subseteq Sessions
         /\ d.events \subseteq Events
         /\ \A r \in d.receipts : r.command \in Commands /\ r.command.scope \in Scopes
  <1>1. d.relation \in RowChanges /\ d.receipts \subseteq Receipts /\ d.sessions \subseteq Sessions
        /\ d.events \subseteq Events
    BY DEF Drafts
  <1>2. \A r \in d.receipts : r.command \in Commands BY <1>1 DEF Receipts
  <1> QED BY <1>1, <1>2, RowChangesElim, CommandsAssumption

LEMMA NoDraftFacts ==
  /\ NoDraft \in Drafts /\ NoDraft.relation = <<>> /\ DOMAIN NoDraft.relation = {}
  /\ NoDraft.receipts = {} /\ NoDraft.sessions = {} /\ NoDraft.events = {}
  <1>1. <<>> \in RowChanges
    <2>1. <<>> \in [{} -> Rows \union {Nil}] OBVIOUS
    <2> QED BY <2>1, RowChangesIntro
  <1>2. DOMAIN <<>> = {} OBVIOUS
  <1> QED BY <1>1, <1>2 DEF NoDraft, Drafts

\* A draft with another row, and with other receipts, sessions or events.
LEMMA WithRowFacts ==
  ASSUME NEW d \in Drafts, NEW s \in Scopes, NEW row \in Rows \union {Nil}
  PROVE  LET n == WithRow(d, s, row)
         IN  /\ n \in Drafts
             /\ n.receipts = d.receipts /\ n.sessions = d.sessions /\ n.events = d.events
             /\ DOMAIN n.relation = DOMAIN d.relation \union {s}
             /\ n.relation[s] = row
             /\ \A x \in DOMAIN d.relation : x # s => n.relation[x] = d.relation[x]
  <1> DEFINE rel == [x \in DOMAIN d.relation \union {s} |-> IF x = s THEN row ELSE d.relation[x]]
             n == [d EXCEPT !.relation = rel]
  <1>0. WithRow(d, s, row) = n BY DEF WithRow
  <1>1. rel \in RowChanges
    <2>1. DOMAIN d.relation \union {s} \subseteq Scopes BY DraftFacts
    <2>2. rel \in [DOMAIN d.relation \union {s} -> Rows \union {Nil}] BY DraftFacts
    <2> QED BY <2>1, <2>2, RowChangesIntro
  <1> HIDE DEF rel
  <1>2. /\ n \in Drafts /\ n.relation = rel
        /\ n.receipts = d.receipts /\ n.sessions = d.sessions /\ n.events = d.events
    BY <1>1 DEF Drafts
  <1>3. /\ DOMAIN rel = DOMAIN d.relation \union {s}
        /\ rel[s] = row
        /\ \A x \in DOMAIN d.relation : x # s => rel[x] = d.relation[x]
    BY DEF rel
  <1> HIDE DEF n
  <1> QED BY <1>0, <1>2, <1>3

LEMMA EventFacts ==
  ASSUME NEW kind, NEW of, NEW id, NEW about, NEW at, NEW facts
  PROVE  LET e == Event(kind, of, id, about, at, facts)
         IN  /\ e.kind = kind /\ e.key = [of |-> of, id |-> id] /\ e.key.of = of /\ e.key.id = id
             /\ e.about = about /\ e.at = at /\ e.seen = facts
  BY DEF Event

LEMMA CommandEventFacts ==
  ASSUME NEW kind \in {"decision", "notification"}, NEW c \in Commands
  PROVE  LET e == CommandEvent(kind, c)
         IN  /\ e \in Events /\ e \notin Foreign
             /\ e.kind = kind /\ e.key = [of |-> "command", id |-> c.id]
             /\ e.key.of = "command" /\ e.key.id = c.id
  <1>1. c.id \in CommandIds /\ c.at \in Time BY CommandsAssumption DEF CommandIds
  <1>2. [of |-> "command", id |-> c.id] \in EventKeys BY <1>1 DEF EventKeys
  <1>3. CommandEvent(kind, c) \in Events BY <1>1, <1>2 DEF CommandEvent, Event, Events
  <1>4. CommandEvent(kind, c).about = c /\ c # Nil BY ModelValues DEF CommandEvent, Event
  <1> QED BY <1>3, <1>4, EventFacts, ForeignAssumption DEF CommandEvent

\* What TypeOK says of one transaction.
LEMMA WorkerTypes ==
  ASSUME TypeOK, NEW w \in Workers
  PROVE  /\ phase[w] \in Phases /\ job[w] \in Jobs \union {Nil} /\ todo[w] \in Seq(Scopes)
         /\ seen[w] \in SUBSET Scopes /\ draft[w] \in Drafts /\ outcome[w] \in Outcomes
  BY DEF TypeOK

-----------------------------------------------------------------------------
(***************************************************************************)
(* Isolation: what a step of another transaction leaves to transaction v.  *)
(***************************************************************************)
SameWorker(v) ==
  /\ phase'[v] = phase[v] /\ job'[v] = job[v] /\ todo'[v] = todo[v]
  /\ seen'[v] = seen[v] /\ draft'[v] = draft[v] /\ outcome'[v] = outcome[v]

Undisturbed(v) ==
  /\ SameWorker(v)
  /\ \A s \in Scopes : locks[s] = v => locks'[s] = v /\ relation'[s] = relation[s]
  /\ \A p \in Principals : v \in shares[p] => v \in shares'[p] /\ enabled'[p] = enabled[p]
  /\ receipts \subseteq receipts'
  /\ \A r \in receipts' \ receipts :
       locks[r.command.scope] # v /\ \A q \in draft[v].receipts : q.id # r.id

LEMMA FrameOwn ==
  ASSUME TypeOK, NEW v \in Workers, Own(v), Undisturbed(v)
  PROVE  Own(v)'
  <1>0. SameWorker(v) BY DEF Undisturbed
  <1>1. Conduct(v)' BY <1>0 DEF Own, Conduct, SameWorker
  <1>2. Cleared(v)'
    <2>1. Principal(job[v]) \in Principals BY DEF Principal, Principals
    <2> QED BY <1>0, <2>1, Zenon DEF Own, Cleared, SameWorker, Undisturbed
  <1>3. phase[v] # "idle" => job[v] \in Jobs BY DEF Own, Conduct
  <1>4. /\ phase[v] \in {"receipt", "write", "audit", "notify"} => job[v].command.scope \in Scopes
        /\ phase[v] = "revoke" => job[v].scope \in Scopes
    BY <1>3, JobFacts DEF Own, Conduct
  <1>5. /\ DOMAIN draft[v].relation \subseteq Scopes
        /\ \A r \in draft[v].receipts : r.command.scope \in Scopes
    BY WorkerTypes, DraftFacts
  <1>6. Holding(v)' BY <1>0, <1>4, <1>5 DEF Own, Holding, SameWorker, Undisturbed
  <1>7. Admission(v)'
    <2>1. \A i \in DOMAIN AdmissionScopes : AdmissionScopes[i] \in Scopes BY ScopesAssumption
    <2>2. ASSUME NEW i \in DOMAIN AdmissionScopes, locks[AdmissionScopes[i]] = v
          PROVE  locks'[AdmissionScopes[i]] = v
                 /\ relation'[AdmissionScopes[i]] = relation[AdmissionScopes[i]]
      BY <2>1, <2>2 DEF Undisturbed
    <2> QED BY <1>0, <2>2 DEF Own, Admission, SameWorker, Effective
  <1>8. Drafted(v)' BY <1>0 DEF Own, Drafted, SameWorker
  <1>9. Receipted(v)'
    <2>1. \A r \in draft[v].receipts, q \in receipts' : r.id # q.id
      BY DEF Own, Receipted, Undisturbed
    <2> QED BY <1>0, <2>1, Zenon DEF Own, Receipted, SameWorker
  <1>10. Rowed(v)'
    <2>1. \A s \in DOMAIN draft[v].relation : relation'[s] = relation[s]
      BY <1>5 DEF Own, Holding, Undisturbed
    <2> QED BY <1>0, <2>1, Zenon DEF Own, Rowed, SameWorker
  <1>11. Answered(v)'
    <2>1. ASSUME phase[v] = "write", NEW r \in receipts' PROVE r.command # job[v].command
      <3>1. CASE r \in receipts BY <2>1, <3>1 DEF Own, Answered
      <3>2. CASE r \notin receipts BY <2>1, <3>2 DEF Own, Holding, Undisturbed
      <3> QED BY <3>1, <3>2
    <2>2. receipts \subseteq receipts' BY DEF Undisturbed
    <2> QED BY <1>0, <2>1, <2>2, Zenon DEF Own, Answered, SameWorker
  <1> QED BY <1>1, <1>2, <1>6, <1>7, <1>8, <1>9, <1>10, <1>11 DEF Own

-----------------------------------------------------------------------------
(***************************************************************************)
(* Steps that commit nothing.                                              *)
(***************************************************************************)
\* A step of w that changes its own transaction and, if anything else, takes
\* free locks.
Aside(w) ==
  /\ UNCHANGED <<dbVars, told>>
  /\ \A v \in Workers : v # w => SameWorker(v)
  /\ \A s \in Scopes : locks'[s] = locks[s] \/ locks[s] \in {Nil, w}
  /\ \A p \in Principals, v \in Workers : v # w /\ v \in shares[p] => v \in shares'[p]

LEMMA AsideUndisturbed ==
  ASSUME TypeOK, NEW w \in Workers, Aside(w)
  PROVE  \A v \in Workers : v # w => Undisturbed(v)
  <1> SUFFICES ASSUME NEW v \in Workers, v # w PROVE Undisturbed(v) OBVIOUS
  <1>1. v # Nil BY ModelValues
  <1>2. SameWorker(v) BY DEF Aside
  <1>3. relation' = relation /\ receipts' = receipts /\ enabled' = enabled BY DEF Aside, dbVars
  <1>4. \A s \in Scopes : locks[s] = v => locks'[s] = v BY <1>1 DEF Aside
  <1>5. \A p \in Principals : v \in shares[p] => v \in shares'[p] BY DEF Aside
  <1> QED BY <1>2, <1>3, <1>4, <1>5 DEF Undisturbed

LEMMA AsideInv ==
  ASSUME LifecycleInv, NEW w \in Workers, Aside(w), TypeOK', Own(w)',
         \/ draft'[w].receipts \subseteq draft[w].receipts
         \/ \A v \in Workers \ {w} : \A r \in draft[v].receipts, q \in draft'[w].receipts : r.id # q.id
  PROVE  LifecycleInv'
  <1>1. \A v \in Workers : Own(v)'
    <2> TAKE v \in Workers
    <2>1. CASE v = w BY <2>1
    <2>2. CASE v # w
      <3>1. Own(v) /\ Undisturbed(v) BY <2>2, AsideUndisturbed DEF LifecycleInv
      <3> QED BY <3>1, FrameOwn DEF LifecycleInv
    <2> QED BY <2>1, <2>2
  <1>2. Committed'
    <2>1. relation' = relation /\ receipts' = receipts /\ sessions' = sessions /\ events' = events
          /\ told' = told
      BY DEF Aside, dbVars
    <2> QED BY <2>1 DEF LifecycleInv, Committed, ReceiptsKeyed, Origin, Retired, Told
  <1>3. Apart'
    <2> SUFFICES ASSUME NEW u \in Workers, NEW v \in Workers, u # v,
                        NEW r \in draft'[u].receipts, NEW q \in draft'[v].receipts
                 PROVE  r.id # q.id
      BY DEF Apart
    <2>1. \A x \in Workers : x # w => draft'[x] = draft[x] BY DEF Aside, SameWorker
    <2>2. Apart BY DEF LifecycleInv
    <2>3. CASE u # w /\ v # w BY <2>1, <2>2, <2>3 DEF Apart
    <2>4. CASE u = w BY <2>1, <2>2, <2>4 DEF Apart
    <2>5. CASE v = w BY <2>1, <2>2, <2>5 DEF Apart
    <2> QED BY <2>3, <2>4, <2>5
  <1> QED BY <1>1, <1>2, <1>3 DEF LifecycleInv

LEMMA GotoFacts ==
  ASSUME TypeOK, NEW w \in Workers, NEW p \in Phases, Goto(w, p)
  PROVE  /\ phase' \in [Workers -> Phases] /\ phase'[w] = p
         /\ \A v \in Workers : v # w => phase'[v] = phase[v]
  BY DEF TypeOK, Goto

LEMMA ReturnFacts ==
  ASSUME TypeOK, NEW w \in Workers,
         NEW is \in {"applied", "replayed", "denied", "admitted", "revoked", "conflict", "error"},
         NEW id \in Assignments \union {Nil}, Return(w, is, id)
  PROVE  /\ phase' \in [Workers -> Phases]
         /\ phase'[w] = IF is \in {"conflict", "error"} THEN "failed" ELSE "returned"
         /\ outcome' \in [Workers -> Outcomes]
         /\ outcome'[w].is = is /\ outcome'[w].id = id
         /\ \A v \in Workers : v # w => phase'[v] = phase[v] /\ outcome'[v] = outcome[v]
  <1>1. (IF is \in {"conflict", "error"} THEN "failed" ELSE "returned") \in Phases BY DEF Phases
  <1>2. [is |-> is, id |-> id] \in Outcomes BY DEF Outcomes
  <1>3. outcome' = [outcome EXCEPT ![w] = [is |-> is, id |-> id]] BY DEF Return
  <1>4. /\ outcome' \in [Workers -> Outcomes] /\ outcome'[w] = [is |-> is, id |-> id]
        /\ \A v \in Workers : v # w => outcome'[v] = outcome[v]
    BY <1>2, <1>3 DEF TypeOK
  <1>5. Goto(w, IF is \in {"conflict", "error"} THEN "failed" ELSE "returned") BY DEF Return
  <1> QED BY <1>1, <1>4, <1>5, GotoFacts

\* A statement fails: what was written stays, to be rolled back.
LEMMA FailOwn ==
  ASSUME TypeOK, NEW w \in Workers, Own(w), phase[w] # "idle",
         phase'[w] = "failed", job'[w] = job[w], draft'[w] = draft[w],
         outcome'[w].is \in {"conflict", "error"},
         relation' = relation, receipts' = receipts,
         \A s \in Scopes : locks[s] = w => locks'[s] = w,
         (outcome'[w].is = "conflict" /\ job[w].op \in ByCommand) =>
           \/ \E r \in receipts : r.id = job[w].command.id /\ r.command # job[w].command
           \/ \E e \in Foreign : e.key = [of |-> "command", id |-> job[w].command.id]
  PROVE  Own(w)'
  <1>1. Conduct(w)' BY DEF Own, Conduct
  <1>2. Cleared(w)' BY DEF Cleared
  <1>3. Holding(w)' BY WorkerTypes, DraftFacts DEF Own, Holding
  <1>4. Admission(w)' BY DEF Admission
  <1>5. Drafted(w)'
    <2>1. phase'[w] = "failed" OBVIOUS
    <2> QED BY <2>1 DEF Own, Drafted
  <1>6. Receipted(w)' BY DEF Own, Receipted
  <1>7. Rowed(w)' BY DEF Own, Rowed
  <1>8. Answered(w)' BY DEF Answered
  <1> QED BY <1>1, <1>2, <1>3, <1>4, <1>5, <1>6, <1>7, <1>8 DEF Own

LEMMA SingleFacts ==
  ASSUME NEW s \in Scopes
  PROVE  <<s>> \in Seq(Scopes) /\ Head(<<s>>) = s /\ Len(<<s>>) = 1
  OBVIOUS

LEMMA BeginInv ==
  ASSUME LifecycleInv, NEW w \in Workers, NEW j \in Jobs, Begin(w, j)
  PROVE  LifecycleInv'
  <1> DEFINE p == IF j.op = "revoke" THEN "observe" ELSE "auth"
             scopes == CASE j.op = "admit"  -> AdmissionScopes
                         [] j.op = "revoke" -> <<j.scope>>
                         [] OTHER           -> <<j.command.scope>>
  <1>0. TypeOK /\ Own(w) /\ phase[w] = "idle" BY DEF LifecycleInv, Begin
  <1>1. /\ j.op = "admit" => scopes = AdmissionScopes
        /\ j.op = "revoke" => scopes = <<j.scope>>
        /\ j.op \in ByCommand => scopes = <<j.command.scope>>
    BY JobFacts, Zenon DEF ByCommand
  <1>3. /\ begun < MaxJobs /\ begun' = begun + 1
        /\ job' = [job EXCEPT ![w] = j]
        /\ Goto(w, p)
        /\ todo' = [todo EXCEPT ![w] = scopes]
        /\ UNCHANGED <<dbVars, lockVars, seen, draft, outcome, told, toggles, faults>>
    BY Zenon DEF Begin
  <1> HIDE DEF scopes
  <1>2. scopes \in Seq(Scopes)
    <2>1. CASE j.op = "admit" BY <1>1, <2>1, ScopesAssumption
    <2>2. CASE j.op = "revoke"
      <3>1. j.scope \in Scopes BY <2>2, JobFacts
      <3> QED BY <1>1, <2>2, <3>1, SingleFacts
    <2>3. CASE j.op \in ByCommand
      <3>1. j.command.scope \in Scopes BY <2>3, JobFacts
      <3> QED BY <1>1, <2>3, <3>1, SingleFacts
    <2> QED BY <2>1, <2>2, <2>3, JobFacts DEF ByCommand
  <1>4. p \in Phases BY DEF Phases
  <1>5. /\ phase' \in [Workers -> Phases] /\ phase'[w] = p
        /\ \A v \in Workers : v # w => phase'[v] = phase[v]
    BY <1>0, <1>3, <1>4, GotoFacts
  <1>6. /\ job' \in [Workers -> Jobs \union {Nil}] /\ job'[w] = j
        /\ \A v \in Workers : v # w => job'[v] = job[v]
    BY <1>0, <1>3 DEF TypeOK
  <1>7. /\ todo' \in [Workers -> Seq(Scopes)] /\ todo'[w] = scopes
        /\ \A v \in Workers : v # w => todo'[v] = todo[v]
    BY <1>0, <1>2, <1>3 DEF TypeOK
  <1>8. begun' \in 0 .. MaxJobs BY <1>0, <1>3, BoundsAssumption DEF TypeOK
  <1>9. TypeOK' BY <1>0, <1>3, <1>5, <1>6, <1>7, <1>8 DEF TypeOK, dbVars, lockVars
  <1>10. Aside(w) BY <1>3, <1>5, <1>6, <1>7 DEF Aside, SameWorker, dbVars, lockVars
  <1>11. Own(w)'
    <2>0. /\ draft'[w] = NoDraft /\ outcome'[w] = outcome[w] /\ outcome[w].is = "none"
      BY <1>0, <1>3 DEF Own, Conduct, Drafted
    <2>1. Conduct(w)'
      <3>1. AdmissionScopes # <<>> /\ \A x : <<x>> # <<>> BY ScopesAssumption
      <3>2. scopes # <<>> BY <1>1, <3>1, JobFacts DEF ByCommand
      <3> QED BY <1>1, <1>5, <1>6, <1>7, <2>0, <3>2 DEF Conduct
    <2>2. Cleared(w)' BY <1>5, <1>6, <2>0 DEF Cleared
    <2>3. Holding(w)' BY <1>5, <2>0, NoDraftFacts DEF Holding
    <2>4. Admission(w)' BY <1>5, <1>6, <2>0 DEF Admission
    <2>5. Drafted(w)' BY <1>5, <2>0, NoDraftFacts DEF Drafted
    <2>6. Receipted(w)' BY <2>0, NoDraftFacts DEF Receipted
    <2>7. Rowed(w)' BY <2>0, NoDraftFacts DEF Rowed
    <2>8. Answered(w)' BY <1>5, <2>0 DEF Answered
    <2> QED BY <2>1, <2>2, <2>3, <2>4, <2>5, <2>6, <2>7, <2>8 DEF Own
  <1>12. draft'[w] = draft[w] BY <1>3
  <1> QED BY <1>9, <1>10, <1>11, <1>12, AsideInv

LEMMA AuthenticateInv ==
  ASSUME LifecycleInv, NEW w \in Workers, Authenticate(w)
  PROVE  LifecycleInv'
  <1> DEFINE j == job[w]
             who == Principal(j)
  <1>0. TypeOK /\ Own(w) /\ phase[w] = "auth" BY DEF LifecycleInv, Authenticate
  <1>1. j \in Jobs /\ j.op # "revoke" /\ draft[w] = NoDraft /\ outcome[w].is = "none"
    BY <1>0 DEF Own, Conduct, Drafted
  <1>2. who \in Principals BY DEF Principal, Principals
  <1> HIDE DEF who
  <1>3. /\ shares' = [shares EXCEPT ![who] = @ \union {w}]
        /\ Admitting(w)
        /\ UNCHANGED <<dbVars, locks, job, todo, seen, draft, told, bounds>>
    BY DEF Authenticate, who
  <1>4. /\ shares' \in [Principals -> SUBSET Workers] /\ w \in shares'[who]
        /\ \A q \in Principals : shares[q] \subseteq shares'[q]
    BY <1>0, <1>2, <1>3 DEF TypeOK
  <1>5. /\ phase' \in [Workers -> Phases] /\ outcome' \in [Workers -> Outcomes]
        /\ \A v \in Workers : v # w => phase'[v] = phase[v] /\ outcome'[v] = outcome[v]
        /\ \/ /\ enabled[who] /\ outcome' = outcome
              /\ phase'[w] = IF j.op = "renew" THEN "expire" ELSE "observe"
           \/ /\ phase'[w] = "failed" /\ outcome'[w].is = "error"
           \/ /\ phase'[w] = "returned" /\ outcome'[w].is = "denied"
    <2>1. CASE enabled[who] /\ Goto(w, IF j.op = "renew" THEN "expire" ELSE "observe")
               /\ UNCHANGED outcome
      <3>1. (IF j.op = "renew" THEN "expire" ELSE "observe") \in Phases BY DEF Phases
      <3>2. outcome' \in [Workers -> Outcomes] /\ outcome' = outcome BY <1>0, <2>1 DEF TypeOK
      <3> QED BY <1>0, <2>1, <3>1, <3>2, GotoFacts
    <2>2. CASE Return(w, IF j.op = "renew" THEN "error" ELSE "denied", Nil)
      BY <1>0, <2>2, ReturnFacts
    <2> QED BY <1>3, <2>1, <2>2 DEF Admitting, who
  <1>6. TypeOK' BY <1>0, <1>3, <1>4, <1>5 DEF TypeOK, dbVars, bounds
  <1>7. Aside(w) BY <1>3, <1>4, <1>5 DEF Aside, SameWorker, dbVars
  <1>8. Own(w)'
    <2>0. /\ draft'[w] = draft[w] /\ job'[w] = j /\ todo'[w] = todo[w] /\ locks' = locks
          /\ receipts' = receipts /\ relation' = relation /\ enabled' = enabled
      BY <1>3 DEF dbVars
    <2>1. CASE phase'[w] = "failed" /\ outcome'[w].is = "error"
      BY <1>0, <2>0, <2>1, FailOwn
    <2>2. CASE phase'[w] = "returned" /\ outcome'[w].is = "denied"
      <3>1. Conduct(w)' BY <1>1, <2>0, <2>2 DEF Conduct
      <3>2. Cleared(w)' BY <2>2 DEF Cleared
      <3>3. Holding(w)' BY <1>1, <2>0, <2>2, NoDraftFacts DEF Holding
      <3>4. Admission(w)' BY <2>2 DEF Admission
      <3>5. Drafted(w)' BY <1>1, <2>0, <2>2, NoDraftFacts DEF Drafted, Whole
      <3>6. Receipted(w)' BY <1>1, <2>0, NoDraftFacts DEF Receipted
      <3>7. Rowed(w)' BY <1>1, <2>0, NoDraftFacts DEF Rowed
      <3>8. Answered(w)' BY <2>2 DEF Answered
      <3> QED BY <3>1, <3>2, <3>3, <3>4, <3>5, <3>6, <3>7, <3>8 DEF Own
    <2>3. CASE /\ enabled[who] /\ outcome' = outcome
               /\ phase'[w] = IF j.op = "renew" THEN "expire" ELSE "observe"
      <3>1. Conduct(w)'
        <4>1. AdmissionScopes # <<>> /\ \A x : <<x>> # <<>> BY ScopesAssumption
        <4>2. todo[w] # <<>> BY <1>0, <1>1, <4>1, JobFacts DEF Own, Conduct, ByCommand
        <4> QED BY <1>0, <1>1, <2>0, <2>3, <4>2 DEF Own, Conduct
      <3>2. Cleared(w)' BY <1>2, <1>4, <2>0, <2>3, Zenon DEF Cleared, who
      <3>3. Holding(w)' BY <1>1, <2>0, <2>3, NoDraftFacts DEF Holding
      <3>4. Admission(w)'
        <4>1. j.op = "admit" => todo'[w] = AdmissionScopes BY <1>0, <2>0 DEF Own, Conduct
        <4> QED BY <1>1, <2>0, <2>3, <4>1 DEF Admission
      <3>5. Drafted(w)' BY <1>1, <2>0, <2>3, NoDraftFacts DEF Drafted
      <3>6. Receipted(w)' BY <1>1, <2>0, NoDraftFacts DEF Receipted
      <3>7. Rowed(w)' BY <1>1, <2>0, NoDraftFacts DEF Rowed
      <3>8. Answered(w)' BY <1>1, <2>3 DEF Answered
      <3> QED BY <3>1, <3>2, <3>3, <3>4, <3>5, <3>6, <3>7, <3>8 DEF Own
    <2> QED BY <1>5, <2>1, <2>2, <2>3
  <1>9. draft'[w] = draft[w] BY <1>3
  <1> QED BY <1>6, <1>7, <1>8, <1>9, AsideInv

LEMMA AfterObserveFacts ==
  ASSUME NEW j \in Jobs
  PROVE  /\ j.op = "admit" => AfterObserve(j) = "decide"
         /\ j.op = "revoke" => AfterObserve(j) = "revoke"
         /\ j.op \in ByCommand => AfterObserve(j) = "receipt"
         /\ AfterObserve(j) \in {"decide", "revoke", "receipt"}
  BY JobFacts, Zenon DEF AfterObserve, ByCommand

LEMMA TailFacts ==
  ASSUME NEW q \in Seq(Scopes), q # <<>>
  PROVE  /\ Head(q) \in Scopes /\ Tail(q) \in Seq(Scopes)
         /\ Len(q) = 1 => Tail(q) = <<>>
         /\ Len(q) # 1 => Tail(q) # <<>>
         /\ \A k \in DOMAIN q : q[k] = Head(q) \/ \E i \in DOMAIN Tail(q) : Tail(q)[i] = q[k]
  <1>1. Len(q) \in Nat \ {0} /\ Head(q) = q[1] /\ DOMAIN q = 1 .. Len(q) OBVIOUS
  <1>2. Tail(q) \in Seq(Scopes) /\ Len(Tail(q)) = Len(q) - 1 /\ DOMAIN Tail(q) = 1 .. (Len(q) - 1)
        /\ \A i \in 1 .. (Len(q) - 1) : Tail(q)[i] = q[i + 1]
    BY <1>1
  <1>3. Head(q) \in Scopes BY <1>1
  <1>4. Len(q) = 1 => Tail(q) = <<>> BY <1>2
  <1>5. Len(q) # 1 => Tail(q) # <<>>
    <2>1. Len(q) # 1 => Len(Tail(q)) # 0 BY <1>1, <1>2
    <2>2. Len(<<>>) = 0 OBVIOUS
    <2> QED BY <2>1, <2>2, Zenon
  <1>6. ASSUME NEW k \in DOMAIN q, q[k] # Head(q)
        PROVE  \E i \in DOMAIN Tail(q) : Tail(q)[i] = q[k]
    <2>1. k \in 1 .. Len(q) /\ k # 1 BY <1>1, <1>6
    <2>2. k - 1 \in 1 .. (Len(q) - 1) /\ (k - 1) + 1 = k BY <1>1, <2>1
    <2>3. Tail(q)[k - 1] = q[k] BY <1>2, <2>2
    <2> QED BY <1>2, <2>2, <2>3
  <1> QED BY <1>2, <1>3, <1>4, <1>5, <1>6

LEMMA ObserveInv ==
  ASSUME LifecycleInv, NEW w \in Workers, Observe(w)
  PROVE  LifecycleInv'
  <1> DEFINE j == job[w]
             s == Head(todo[w])
             timeless == j.op = "admit" /\ j.at = Nil
             found == IF j.op = "admit" /\ Effective(Visible(w, s), j.at)
                      THEN seen[w] \union {s} ELSE seen[w]
             p == IF Len(todo[w]) = 1 THEN AfterObserve(j) ELSE "observe"
  <1>0. TypeOK /\ Own(w) /\ phase[w] = "observe" BY DEF LifecycleInv, Observe
  <1>1. /\ j \in Jobs /\ todo[w] # <<>> /\ outcome[w].is = "none"
        /\ todo[w] \in Seq(Scopes) /\ seen[w] \in SUBSET Scopes
    BY <1>0, WorkerTypes DEF Own, Conduct
  <1>2. s \in Scopes BY <1>1, TailFacts
  <1>3. /\ locks[s] \in {Nil, w} /\ locks' = [locks EXCEPT ![s] = w]
        /\ todo' = [todo EXCEPT ![w] = Tail(todo[w])]
        /\ \/ timeless /\ Return(w, "error", Nil) /\ UNCHANGED seen
           \/ /\ ~timeless
              /\ Goto(w, p)
              /\ seen' = [seen EXCEPT ![w] = found]
              /\ UNCHANGED outcome
        /\ UNCHANGED <<dbVars, shares, job, draft, told, bounds>>
    BY DEF Observe, LockScope
  <1> HIDE DEF s
  <1>4. /\ locks' \in [Scopes -> Workers \union {Nil}] /\ locks'[s] = w
        /\ \A x \in Scopes : locks[x] = w => locks'[x] = w
        /\ \A x \in Scopes : locks'[x] = locks[x] \/ locks[x] \in {Nil, w}
    BY <1>0, <1>2, <1>3 DEF TypeOK
  <1>5. /\ todo' \in [Workers -> Seq(Scopes)] /\ todo'[w] = Tail(todo[w])
        /\ \A v \in Workers : v # w => todo'[v] = todo[v]
    <2>1. Tail(todo[w]) \in Seq(Scopes) BY <1>1, TailFacts
    <2> QED BY <1>0, <1>3, <2>1 DEF TypeOK
  <1>6. found \in SUBSET Scopes /\ seen[w] \subseteq found BY <1>1, <1>2
  <1>7. p \in Phases BY <1>1, AfterObserveFacts DEF Phases
  <1> HIDE DEF found, p
  <1>8. /\ seen' \in [Workers -> SUBSET Scopes] /\ \A v \in Workers : v # w => seen'[v] = seen[v]
        /\ phase' \in [Workers -> Phases] /\ outcome' \in [Workers -> Outcomes]
        /\ \A v \in Workers : v # w => phase'[v] = phase[v] /\ outcome'[v] = outcome[v]
        /\ \/ phase'[w] = "failed" /\ outcome'[w].is = "error"
           \/ ~timeless /\ phase'[w] = p /\ seen'[w] = found /\ outcome' = outcome
    <2>1. CASE timeless /\ Return(w, "error", Nil) /\ UNCHANGED seen
      BY <1>0, <2>1, ReturnFacts DEF TypeOK
    <2>2. CASE ~timeless /\ Goto(w, p) /\ seen' = [seen EXCEPT ![w] = found] /\ UNCHANGED outcome
      <3>1. /\ phase' \in [Workers -> Phases] /\ phase'[w] = p
            /\ \A v \in Workers : v # w => phase'[v] = phase[v]
        BY <1>0, <1>7, <2>2, GotoFacts
      <3> QED BY <1>0, <1>6, <2>2, <3>1 DEF TypeOK
    <2> QED BY <1>3, <2>1, <2>2
  <1>9. TypeOK' BY <1>0, <1>3, <1>4, <1>5, <1>8 DEF TypeOK, dbVars, bounds
  <1>10. Aside(w) BY <1>3, <1>4, <1>5, <1>8 DEF Aside, SameWorker, dbVars
  <1>11. Own(w)'
    <2>0. /\ draft'[w] = draft[w] /\ job'[w] = j /\ receipts' = receipts /\ relation' = relation
          /\ enabled' = enabled /\ shares' = shares
      BY <1>3 DEF dbVars
    <2>1. CASE phase'[w] = "failed" /\ outcome'[w].is = "error"
      BY <1>0, <1>4, <2>0, <2>1, FailOwn
    <2>2. CASE ~timeless /\ phase'[w] = p /\ seen'[w] = found /\ outcome' = outcome
      <3>0. /\ j.op \in ByCommand => p = "receipt" /\ s = j.command.scope
            /\ j.op = "revoke" => p = "revoke" /\ s = j.scope
            /\ j.op = "admit" => p \in {"decide", "observe"} /\ draft[w] = NoDraft
            /\ j.op = "revoke" => draft[w] = NoDraft
            /\ p = "decide" => todo'[w] = <<>>
            /\ p = "observe" => todo'[w] # <<>>
        <4>1. j.op \in ByCommand => p = "receipt" /\ s = j.command.scope
          <5>1. j.op \in ByCommand => todo[w] = <<j.command.scope>> /\ j.command.scope \in Scopes
            BY <1>0, <1>1, JobFacts DEF Own, Conduct
          <5> QED BY <1>1, <5>1, SingleFacts, AfterObserveFacts DEF p, s
        <4>2. j.op = "revoke" => p = "revoke" /\ s = j.scope
          <5>1. j.op = "revoke" => todo[w] = <<j.scope>> /\ j.scope \in Scopes
            BY <1>0, <1>1, JobFacts DEF Own, Conduct
          <5> QED BY <1>1, <5>1, SingleFacts, AfterObserveFacts DEF p, s
        <4>3. j.op = "admit" => p \in {"decide", "observe"} BY <1>1, AfterObserveFacts DEF p
        <4>4. j.op # "renew" => draft[w] = NoDraft BY <1>0 DEF Own, Drafted
        <4>5. (p = "decide" => Len(todo[w]) = 1) /\ (p = "observe" => Len(todo[w]) # 1)
          BY <1>1, AfterObserveFacts DEF p
        <4> QED BY <1>1, <1>5, <4>1, <4>2, <4>3, <4>4, <4>5, TailFacts
      <3>a. j.op \in ByCommand \/ j.op = "revoke" \/ j.op = "admit"
        BY <1>1, JobFacts DEF ByCommand
      <3>1. Conduct(w)' BY <1>0, <1>1, <2>0, <2>2, <3>0, <3>a DEF Conduct, ByCommand
      <3>2. Cleared(w)' BY <1>0, <1>1, <2>0, <2>2, Zenon DEF Own, Cleared
      <3>3. Holding(w)'
        <4>1. DOMAIN draft[w].relation \subseteq Scopes
              /\ \A r \in draft[w].receipts : r.command.scope \in Scopes
          BY <1>0, WorkerTypes, DraftFacts
        <4> QED BY <1>0, <1>4, <2>0, <2>2, <3>0, <3>a, <4>1 DEF Own, Holding, ByCommand
      <3>4. Admission(w)'
        <4> SUFFICES ASSUME j.op = "admit", NEW i \in DOMAIN AdmissionScopes
                     PROVE  \/ \E k \in DOMAIN todo'[w] : todo'[w][k] = AdmissionScopes[i]
                            \/ /\ locks'[AdmissionScopes[i]] = w
                               /\ Effective(relation'[AdmissionScopes[i]], j.at) =>
                                    AdmissionScopes[i] \in seen'[w]
          BY <1>1, <2>0, <2>2 DEF Admission
        <4> DEFINE a == AdmissionScopes[i]
        <4>1. a \in Scopes BY ScopesAssumption
        <4> HIDE DEF a
        <4>2. CASE a = s
          <5>1. Visible(w, s) = relation[s] BY <3>0, NoDraftFacts DEF Visible
          <5>2. Effective(relation[s], j.at) => s \in found BY <5>1 DEF found
          <5> QED BY <1>4, <2>0, <2>2, <4>2, <5>2 DEF a
        <4>3. CASE a # s /\ \E k \in DOMAIN todo[w] : todo[w][k] = a
          <5>1. PICK k \in DOMAIN todo[w] : todo[w][k] = a BY <4>3
          <5>2. PICK m \in DOMAIN Tail(todo[w]) : Tail(todo[w])[m] = todo[w][k]
            BY <1>1, <4>3, <5>1, TailFacts, Zenon DEF s
          <5> QED BY <1>5, <5>1, <5>2, Zenon DEF a
        <4>4. CASE locks[a] = w /\ (Effective(relation[a], j.at) => a \in seen[w])
          BY <1>4, <1>6, <2>0, <2>2, <4>1, <4>4 DEF a
        <4>5. \/ \E k \in DOMAIN todo[w] : todo[w][k] = a
              \/ locks[a] = w /\ (Effective(relation[a], j.at) => a \in seen[w])
          BY <1>0 DEF Own, Admission, a
        <4> QED BY <4>2, <4>3, <4>4, <4>5
      <3>5. Drafted(w)' BY <1>0, <2>0, <2>2, <3>0, <3>a, NoDraftFacts DEF Own, Drafted, ByCommand
      <3>6. Receipted(w)' BY <1>0, <2>0 DEF Own, Receipted
      <3>7. Rowed(w)' BY <1>0, <2>0 DEF Own, Rowed
      <3>8. Answered(w)' BY <1>1, <2>0, <2>2, <3>0, <3>a DEF Answered
      <3> QED BY <3>1, <3>2, <3>3, <3>4, <3>5, <3>6, <3>7, <3>8 DEF Own
    <2> QED BY <1>8, <2>1, <2>2
  <1>12. draft'[w] = draft[w] BY <1>3
  <1> QED BY <1>9, <1>10, <1>11, <1>12, AsideInv

\* Expiries alone are a whole.
LEMMA ExpiriesWhole ==
  ASSUME NEW E, \A e \in E : e.key.of = "expired",
         \A e \in E, kind \in {"decision", "notification"} :
           e.key.of = "expired" =>
             \E f \in E : f.kind = kind /\ f.key.of = "expired" /\ f.key.id = e.key.id
  PROVE  Whole({}, {}, E)
  BY DEF Whole

LEMMA ReceiptInv ==
  ASSUME LifecycleInv, NEW w \in Workers, Receipt(w)
  PROVE  LifecycleInv'
  <1> DEFINE j == job[w]
             c == j.command
  <1>0. TypeOK /\ Own(w) /\ phase[w] = "receipt" /\ ReceiptsKeyed
    BY DEF LifecycleInv, Receipt, Committed
  <1>1. /\ j \in Jobs /\ j.op \in ByCommand /\ outcome[w].is = "none"
    BY <1>0 DEF Own, Conduct
  <1>2. UNCHANGED <<dbVars, lockVars, job, todo, seen, draft, told, bounds>>
    BY DEF Receipt
  <1>3. \/ (\A r \in receipts : r.id # c.id) /\ Goto(w, "write") /\ UNCHANGED outcome
        \/ \E r \in receipts : r.id = c.id /\ r.command = c /\ Return(w, "replayed", r.assignment)
        \/ \E r \in receipts : r.id = c.id /\ r.command # c /\ Return(w, "conflict", Nil)
    BY DEF Receipt
  <1>4. /\ phase' \in [Workers -> Phases] /\ outcome' \in [Workers -> Outcomes]
        /\ \A v \in Workers : v # w => phase'[v] = phase[v] /\ outcome'[v] = outcome[v]
        /\ \/ (\A r \in receipts : r.id # c.id) /\ phase'[w] = "write" /\ outcome' = outcome
           \/ \E r \in receipts : /\ r.command = c /\ outcome'[w].id = r.assignment
                                  /\ phase'[w] = "returned" /\ outcome'[w].is = "replayed"
           \/ \E r \in receipts : /\ r.id = c.id /\ r.command # c
                                  /\ phase'[w] = "failed" /\ outcome'[w].is = "conflict"
    <2>1. CASE (\A r \in receipts : r.id # c.id) /\ Goto(w, "write") /\ UNCHANGED outcome
      <3>1. "write" \in Phases BY DEF Phases
      <3>2. outcome' = outcome /\ outcome' \in [Workers -> Outcomes] BY <1>0, <2>1 DEF TypeOK
      <3> QED BY <1>0, <2>1, <3>1, <3>2, GotoFacts
    <2>2. CASE \E r \in receipts : r.id = c.id /\ r.command = c /\ Return(w, "replayed", r.assignment)
      <3>1. PICK r \in receipts : r.id = c.id /\ r.command = c /\ Return(w, "replayed", r.assignment)
        BY <2>2
      <3>2. r.assignment \in Assignments BY <1>0 DEF TypeOK, Receipts
      <3> QED BY <1>0, <3>1, <3>2, ReturnFacts
    <2>3. CASE \E r \in receipts : r.id = c.id /\ r.command # c /\ Return(w, "conflict", Nil)
      BY <1>0, <2>3, ReturnFacts
    <2> QED BY <1>3, <2>1, <2>2, <2>3
  <1>5. TypeOK' BY <1>0, <1>2, <1>4 DEF TypeOK, dbVars, lockVars, bounds
  <1>6. Aside(w) BY <1>2, <1>4 DEF Aside, SameWorker, dbVars, lockVars
  <1>7. Own(w)'
    <2>0. /\ draft'[w] = draft[w] /\ job'[w] = j /\ todo'[w] = todo[w] /\ locks' = locks
          /\ receipts' = receipts /\ relation' = relation /\ enabled' = enabled /\ shares' = shares
      BY <1>2 DEF dbVars, lockVars
    <2>1. CASE (\A r \in receipts : r.id # c.id) /\ phase'[w] = "write" /\ outcome' = outcome
      <3>1. Conduct(w)' BY <1>1, <2>0, <2>1 DEF Conduct
      <3>2. Cleared(w)' BY <1>0, <1>1, <2>0, <2>1, Zenon DEF Own, Cleared
      <3>3. Holding(w)' BY <1>0, <2>0, <2>1 DEF Own, Holding
      <3>4. Admission(w)' BY <1>1, <2>0, <2>1 DEF Admission
      <3>5. Drafted(w)' BY <1>0, <2>0, <2>1 DEF Own, Drafted
      <3>6. Receipted(w)' BY <1>0, <2>0 DEF Own, Receipted
      <3>7. Rowed(w)' BY <1>0, <2>0 DEF Own, Rowed
      <3>8. Answered(w)' BY <1>0, <1>1, <2>0, <2>1 DEF Answered, ReceiptsKeyed
      <3> QED BY <3>1, <3>2, <3>3, <3>4, <3>5, <3>6, <3>7, <3>8 DEF Own
    <2>2. CASE \E r \in receipts : /\ r.command = c /\ outcome'[w].id = r.assignment
                                   /\ phase'[w] = "returned" /\ outcome'[w].is = "replayed"
      <3>1. Conduct(w)' BY <1>1, <2>0, <2>2 DEF Conduct
      <3>2. Cleared(w)' BY <1>0, <1>1, <2>0, <2>2, Zenon DEF Own, Cleared
      <3>3. Holding(w)' BY <1>0, <2>0, <2>2 DEF Own, Holding
      <3>4. Admission(w)' BY <1>1, <2>0, <2>2 DEF Admission
      <3>5. Drafted(w)'
        <4>1. draft[w].receipts = {} /\ draft[w].sessions = {} BY <1>0 DEF Own, Drafted
        <4>2. Whole({}, {}, draft[w].events) BY <1>0, ExpiriesWhole DEF Own, Drafted
        <4> QED BY <1>0, <2>0, <2>2, <4>1, <4>2 DEF Own, Drafted
      <3>6. Receipted(w)' BY <1>0, <2>0 DEF Own, Receipted
      <3>7. Rowed(w)' BY <1>0, <2>0 DEF Own, Rowed
      <3>8. Answered(w)' BY <2>0, <2>2 DEF Answered
      <3> QED BY <3>1, <3>2, <3>3, <3>4, <3>5, <3>6, <3>7, <3>8 DEF Own
    <2>3. CASE \E r \in receipts : /\ r.id = c.id /\ r.command # c
                                   /\ phase'[w] = "failed" /\ outcome'[w].is = "conflict"
      BY <1>0, <2>0, <2>3, FailOwn
    <2> QED BY <1>4, <2>1, <2>2, <2>3
  <1>8. draft'[w] = draft[w] BY <1>2
  <1> QED BY <1>5, <1>6, <1>7, <1>8, AsideInv

LEMMA ConflictFacts ==
  ASSUME TypeOK, NEW w \in Workers, Conflict(w)
  PROVE  /\ phase' \in [Workers -> Phases] /\ phase'[w] = "failed"
         /\ outcome' \in [Workers -> Outcomes] /\ outcome'[w].is = "conflict"
         /\ \A v \in Workers : v # w => phase'[v] = phase[v] /\ outcome'[v] = outcome[v]
         /\ draft' = draft
  BY ReturnFacts DEF Conflict

\* A refused insert ends the statement, whatever locks it has taken.
LEMMA ConflictInv ==
  ASSUME LifecycleInv, NEW w \in Workers, phase[w] # "idle", Conflict(w),
         UNCHANGED <<dbVars, shares, job, todo, seen, told, bounds>>,
         locks' \in [Scopes -> Workers \union {Nil}],
         \A s \in Scopes : locks'[s] = locks[s] \/ locks[s] = Nil \/ locks[s] = w,
         \A s \in Scopes : locks[s] = w => locks'[s] = w,
         job[w].op \in ByCommand =>
           \/ \E r \in receipts : r.id = job[w].command.id /\ r.command # job[w].command
           \/ \E e \in Foreign : e.key = [of |-> "command", id |-> job[w].command.id]
  PROVE  LifecycleInv'
  <1>0. TypeOK /\ Own(w) BY DEF LifecycleInv
  <1>1. /\ phase' \in [Workers -> Phases] /\ phase'[w] = "failed"
        /\ outcome' \in [Workers -> Outcomes] /\ outcome'[w].is = "conflict"
        /\ \A v \in Workers : v # w => phase'[v] = phase[v] /\ outcome'[v] = outcome[v]
        /\ draft' = draft
    BY <1>0, ConflictFacts
  <1>2. TypeOK' BY <1>0, <1>1 DEF TypeOK, dbVars, bounds
  <1>3. Aside(w) BY <1>1 DEF Aside, SameWorker, dbVars
  <1>4. Own(w)'
    <2>1. job'[w] = job[w] /\ relation' = relation /\ receipts' = receipts BY DEF dbVars
    <2> QED BY <1>0, <1>1, <2>1, FailOwn
  <1> QED BY <1>1, <1>2, <1>3, <1>4, AsideInv

LEMMA WriteInv ==
  ASSUME LifecycleInv, NEW w \in Workers, Write(w)
  PROVE  LifecycleInv'
  <1> DEFINE j == job[w]
             c == j.command
             x == c.scope
             d == draft[w]
             was == Visible(w, x)
             row == IF was = Nil THEN NewRow(c) ELSE was
             rec == [id |-> c.id, command |-> c, assignment |-> row.id]
             n == [WithRow(d, x, row) EXCEPT !.receipts = {rec}]
  <1>0. TypeOK /\ Own(w) /\ phase[w] = "write" /\ ReceiptsKeyed /\ Origin
    BY DEF LifecycleInv, Write, Committed
  <1>1. /\ j \in Jobs /\ j.op \in ByCommand /\ outcome[w].is = "none"
    BY <1>0 DEF Own, Conduct
  <1>2. /\ c \in Commands /\ x \in Scopes /\ c.id \in CommandIds /\ c.assignment \in Assignments
        /\ c.until \in Time \union {Nil}
    BY <1>1, JobFacts
  <1>3. /\ UNCHANGED <<dbVars, lockVars, job, todo, seen, told, bounds>>
        /\ \A v \in Workers \ {w} : \A r \in draft[v].receipts : r.id # c.id
        /\ \/ (\E r \in receipts : r.id = c.id) /\ Conflict(w)
           \/ /\ \A r \in receipts : r.id # c.id
              /\ draft' = [draft EXCEPT ![w] = n]
              /\ Goto(w, "audit")
              /\ UNCHANGED outcome
    BY DEF Write
  <1>4. CASE (\E r \in receipts : r.id = c.id) /\ Conflict(w)
    <2>1. \E r \in receipts : r.id = c.id /\ r.command # c BY <1>0, <1>4 DEF Own, Answered
    <2>2. locks' = locks /\ shares' = shares /\ locks \in [Scopes -> Workers \union {Nil}]
      BY <1>0, <1>3 DEF lockVars, TypeOK
    <2> QED BY <1>0, <1>3, <1>4, <2>1, <2>2, ConflictInv
  <1>5. CASE /\ \A r \in receipts : r.id # c.id
             /\ draft' = [draft EXCEPT ![w] = n] /\ Goto(w, "audit") /\ UNCHANGED outcome
    <2>0. d \in Drafts /\ d.receipts = {} /\ d.sessions = {}
          /\ \A e \in d.events : e.key.of = "expired"
      BY <1>0, WorkerTypes DEF Own, Drafted
    <2>1. was \in Rows \union {Nil}
          /\ was = IF x \in DOMAIN d.relation THEN d.relation[x] ELSE relation[x]
      BY <1>0, <1>2, <2>0, DraftFacts DEF Visible, TypeOK
    <2>2. row \in Rows /\ row.id \in Assignments
      <3>1. NewRow(c) \in Rows BY <1>2 DEF NewRow, Rows
      <3>2. row \in Rows BY <2>1, <3>1
      <3> QED BY <3>2 DEF Rows
    <2>3. row = IF was = Nil THEN NewRow(c) ELSE was OBVIOUS
    <2> HIDE DEF row
    <2>4. rec \in Receipts /\ rec.id = c.id /\ rec.command = c /\ rec.assignment = row.id
      BY <1>2, <2>2 DEF Receipts
    <2> HIDE DEF rec
    <2> DEFINE m == WithRow(d, x, row)
    <2>5. /\ m \in Drafts
          /\ m.sessions = d.sessions /\ m.events = d.events
          /\ DOMAIN m.relation = DOMAIN d.relation \union {x}
          /\ m.relation[x] = row
          /\ \A y \in DOMAIN d.relation : y # x => m.relation[y] = d.relation[y]
      BY <1>2, <2>0, <2>2, WithRowFacts
    <2>6. n = [m EXCEPT !.receipts = {rec}] OBVIOUS
    <2> HIDE DEF m, n
    <2>7. /\ n \in Drafts /\ n.receipts = {rec} /\ n.relation = m.relation
          /\ n.sessions = m.sessions /\ n.events = m.events
      BY <2>4, <2>5, <2>6 DEF Drafts
    <2>8. /\ draft' \in [Workers -> Drafts] /\ draft'[w] = n
          /\ \A v \in Workers : v # w => draft'[v] = draft[v]
      BY <1>0, <1>5, <2>7 DEF TypeOK
    <2>9. /\ phase' \in [Workers -> Phases] /\ phase'[w] = "audit"
          /\ \A v \in Workers : v # w => phase'[v] = phase[v]
      <3>1. "audit" \in Phases BY DEF Phases
      <3> QED BY <1>0, <1>5, <3>1, GotoFacts
    <2>10. TypeOK' BY <1>0, <1>3, <1>5, <2>8, <2>9 DEF TypeOK, dbVars, lockVars, bounds
    <2>11. Aside(w) BY <1>3, <1>5, <2>8, <2>9 DEF Aside, SameWorker, dbVars, lockVars
    <2>12. Own(w)'
      <3>0. /\ job'[w] = j /\ todo'[w] = todo[w] /\ locks' = locks /\ shares' = shares
            /\ receipts' = receipts /\ relation' = relation /\ enabled' = enabled
            /\ outcome'[w] = outcome[w]
        BY <1>3, <1>5 DEF dbVars, lockVars
      <3>1. Conduct(w)' BY <1>1, <2>9, <3>0 DEF Conduct
      <3>2. Cleared(w)' BY <1>0, <1>1, <2>9, <3>0, Zenon DEF Own, Cleared
      <3>3. Holding(w)'
        <4>1. locks[x] = w BY <1>0 DEF Own, Holding
        <4>2. DOMAIN n.relation = DOMAIN d.relation \union {x} BY <2>5, <2>7
        <4> QED BY <1>0, <2>4, <2>7, <2>8, <2>9, <3>0, <4>1, <4>2 DEF Own, Holding
      <3>4. Admission(w)' BY <1>1, <2>9, <3>0 DEF Admission
      <3>5. Drafted(w)'
        <4>1. n.events = d.events /\ n.sessions = {} /\ rec \in n.receipts BY <2>0, <2>5, <2>7
        <4> QED BY <1>0, <2>0, <2>4, <2>8, <2>9, <3>0, <4>1 DEF Own, Drafted
      <3>6. Receipted(w)' BY <1>5, <2>4, <2>7, <2>8, <3>0 DEF Receipted
      <3>7. Rowed(w)'
        <4>1. ASSUME relation[x] # Nil PROVE relation[x].id # c.assignment
          <5>1. PICK r \in receipts : r.command.assignment = relation[x].id
            BY <1>0, <1>2, <4>1 DEF Origin, Created
          <5>2. r.command \in Commands /\ r.id = r.command.id /\ r.id # c.id
            BY <1>0, <1>5 DEF TypeOK, Receipts, ReceiptsKeyed
          <5> QED BY <1>2, <5>1, <5>2, FreshAssignments
        <4>2. \A s \in DOMAIN d.relation :
                d.relation[s] # Nil => d.relation[s] = relation[s] \/ Created({}, s, d.relation[s].id)
          BY <1>0, <2>0 DEF Own, Rowed
        <4>3. \A e \in d.events : e.key.of = "expired" =>
                \E s \in DOMAIN d.relation :
                  /\ relation[s] # Nil /\ relation[s].id = e.key.id
                  /\ d.relation[s] # Nil => d.relation[s].id # e.key.id
          BY <1>0 DEF Own, Rowed
        <4>4. /\ DOMAIN n.relation = DOMAIN d.relation \union {x} /\ n.relation[x] = row
              /\ \A s \in DOMAIN d.relation : s # x => n.relation[s] = d.relation[s]
              /\ n.events = d.events /\ n.receipts = {rec}
          BY <2>5, <2>7
        <4> HIDE DEF d, was
        <4>5. \A s \in DOMAIN d.relation : d.relation[s] # Nil => d.relation[s] = relation[s]
          BY <4>2 DEF Created
        <4>6. was # Nil => row = relation[x] BY <2>1, <2>3, <4>5
        <4>7. was = Nil => row.id = c.assignment /\ Created({rec}, x, row.id)
          BY <2>3, <2>4 DEF Created, NewRow
        <4>8. ASSUME NEW s \in DOMAIN n.relation, n.relation[s] # Nil
              PROVE  n.relation[s] = relation[s] \/ Created(n.receipts, s, n.relation[s].id)
          <5>1. CASE s = x BY <4>4, <4>6, <4>7, <5>1
          <5>2. CASE s # x BY <4>4, <4>5, <4>8, <5>2
          <5> QED BY <5>1, <5>2
        <4>9. ASSUME NEW e \in n.events, e.key.of = "expired"
              PROVE  \E s \in DOMAIN n.relation :
                       /\ relation[s] # Nil /\ relation[s].id = e.key.id
                       /\ n.relation[s] # Nil => n.relation[s].id # e.key.id
          <5>1. PICK s \in DOMAIN d.relation :
                  /\ relation[s] # Nil /\ relation[s].id = e.key.id
                  /\ d.relation[s] # Nil => d.relation[s].id # e.key.id
            BY <4>3, <4>4, <4>9
          <5>2. CASE s = x
            <6>1. was # Nil => row.id # e.key.id BY <2>1, <2>3, <5>1, <5>2
            <6>2. was = Nil => row.id # e.key.id BY <4>1, <4>7, <5>1, <5>2
            <6> QED BY <4>4, <5>1, <5>2, <6>1, <6>2
          <5>3. CASE s # x BY <4>4, <5>1, <5>3
          <5> QED BY <5>2, <5>3
        <4> QED BY <2>8, <3>0, <4>8, <4>9 DEF Rowed
      <3>8. Answered(w)' BY <1>1, <2>9, <3>0 DEF Answered
      <3> QED BY <3>1, <3>2, <3>3, <3>4, <3>5, <3>6, <3>7, <3>8 DEF Own
    <2>13. \A v \in Workers \ {w} : \A r \in draft[v].receipts, q \in draft'[w].receipts : r.id # q.id
      BY <1>3, <2>4, <2>7, <2>8
    <2> QED BY <2>10, <2>11, <2>12, <2>13, AsideInv
  <1> QED BY <1>3, <1>4, <1>5

\* A command that has written its receipt is refused an event only because of
\* another producer.
LEMMA CommandRefused ==
  ASSUME LifecycleInv, NEW w \in Workers, phase[w] \in {"audit", "notify"},
         NEW kind \in {"decision", "notification"},
         Refused(CommandEvent(kind, job[w].command))
  PROVE  \E e \in Foreign : e.key = [of |-> "command", id |-> job[w].command.id]
  <1> DEFINE c == job[w].command
  <1>0. TypeOK /\ Own(w) BY DEF LifecycleInv
  <1>1. c \in Commands BY <1>0, JobFacts DEF Own, Conduct
  <1> HIDE DEF c
  <1>2. PICK f \in events : f.key = CommandEvent(kind, c).key BY DEF Refused, c
  <1>3. /\ f.key = [of |-> "command", id |-> c.id] /\ f.key.of = "command" /\ f.key.id = c.id
    <2>1. CommandEvent(kind, c).key = [of |-> "command", id |-> c.id] BY <1>1, CommandEventFacts
    <2> QED BY <1>2, <2>1
  <1>4. f \in Foreign
    <2> SUFFICES ASSUME f \in events \ Foreign PROVE FALSE OBVIOUS
    <2>1. Whole(receipts, sessions, events \ Foreign) BY DEF LifecycleInv, Committed
    <2>2. PICK r \in receipts : r.id = c.id BY <1>3, <2>1 DEF Whole
    <2>3. PICK q \in draft[w].receipts : q.command = c BY <1>0 DEF Own, Drafted, c
    <2>4. q.id = c.id /\ q.id # r.id BY <1>0, <2>3 DEF Own, Receipted
    <2> QED BY <2>2, <2>4
  <1> QED BY <1>3, <1>4 DEF c

\* A draft with more events.
LEMMA EventsFacts ==
  ASSUME NEW d \in Drafts, NEW E \in SUBSET Events
  PROVE  LET n == [d EXCEPT !.events = E]
         IN  /\ n \in Drafts /\ n.events = E /\ n.relation = d.relation
             /\ n.receipts = d.receipts /\ n.sessions = d.sessions
  BY DEF Drafts

LEMMA AuditInv ==
  ASSUME LifecycleInv, NEW w \in Workers, Audit(w)
  PROVE  LifecycleInv'
  <1> DEFINE j == job[w]
             c == j.command
             d == draft[w]
             e0 == CommandEvent("decision", c)
             n == [d EXCEPT !.events = d.events \union {e0}]
  <1>0. TypeOK /\ Own(w) /\ phase[w] = "audit" BY DEF LifecycleInv, Audit
  <1>1. j \in Jobs /\ j.op \in ByCommand /\ outcome[w].is = "none" /\ d \in Drafts
    BY <1>0, WorkerTypes DEF Own, Conduct
  <1>2. c \in Commands BY <1>1, JobFacts
  <1>3. /\ UNCHANGED <<dbVars, lockVars, job, todo, seen, told, bounds>>
        /\ \/ Refused(e0) /\ Conflict(w)
           \/ /\ draft' = [draft EXCEPT ![w].events = @ \union {e0}]
              /\ Goto(w, "notify")
              /\ UNCHANGED outcome
    BY DEF Audit, Accepted
  <1>4. CASE Refused(e0) /\ Conflict(w)
    <2>1. \E e \in Foreign : e.key = [of |-> "command", id |-> c.id]
      BY <1>0, <1>4, CommandRefused
    <2>2. locks' = locks /\ shares' = shares /\ locks \in [Scopes -> Workers \union {Nil}]
      BY <1>0, <1>3 DEF lockVars, TypeOK
    <2> QED BY <1>0, <1>3, <1>4, <2>1, <2>2, ConflictInv
  <1>5. CASE /\ draft' = [draft EXCEPT ![w].events = @ \union {e0}]
             /\ Goto(w, "notify") /\ UNCHANGED outcome
    <2>1. e0 \in Events /\ e0 \notin Foreign /\ e0.key.of = "command"
      BY <1>2, CommandEventFacts
    <2>2. /\ n \in Drafts /\ n.events = d.events \union {e0} /\ n.relation = d.relation
          /\ n.receipts = d.receipts /\ n.sessions = d.sessions
      <3>1. d.events \union {e0} \in SUBSET Events BY <1>1, <2>1, DraftFacts
      <3> QED BY <1>1, <3>1, EventsFacts
    <2>3. draft' = [draft EXCEPT ![w] = n] BY <1>0, <1>5 DEF TypeOK
    <2> HIDE DEF n
    <2>4. /\ draft' \in [Workers -> Drafts] /\ draft'[w] = n
          /\ \A v \in Workers : v # w => draft'[v] = draft[v]
      BY <1>0, <2>2, <2>3 DEF TypeOK
    <2>5. /\ phase' \in [Workers -> Phases] /\ phase'[w] = "notify"
          /\ \A v \in Workers : v # w => phase'[v] = phase[v]
      <3>1. "notify" \in Phases BY DEF Phases
      <3> QED BY <1>0, <1>5, <3>1, GotoFacts
    <2>6. TypeOK' BY <1>0, <1>3, <1>5, <2>4, <2>5 DEF TypeOK, dbVars, lockVars, bounds
    <2>7. Aside(w) BY <1>3, <1>5, <2>4, <2>5 DEF Aside, SameWorker, dbVars, lockVars
    <2>8. Own(w)'
      <3>0. /\ job'[w] = j /\ todo'[w] = todo[w] /\ locks' = locks /\ shares' = shares
            /\ receipts' = receipts /\ relation' = relation /\ enabled' = enabled
            /\ outcome'[w] = outcome[w]
        BY <1>3, <1>5 DEF dbVars, lockVars
      <3>1. Conduct(w)' BY <1>1, <2>5, <3>0 DEF Conduct
      <3>2. Cleared(w)' BY <1>0, <1>1, <2>5, <3>0, Zenon DEF Own, Cleared
      <3>3. Holding(w)' BY <1>0, <2>2, <2>4, <2>5, <3>0 DEF Own, Holding
      <3>4. Admission(w)' BY <1>1, <2>5, <3>0 DEF Admission
      <3>5. Drafted(w)' BY <1>0, <2>1, <2>2, <2>4, <2>5, <3>0 DEF Own, Drafted
      <3>6. Receipted(w)' BY <1>0, <2>2, <2>4, <3>0 DEF Own, Receipted
      <3>7. Rowed(w)' BY <1>0, <2>1, <2>2, <2>4, <3>0 DEF Own, Rowed
      <3>8. Answered(w)' BY <1>1, <2>5, <3>0 DEF Answered
      <3> QED BY <3>1, <3>2, <3>3, <3>4, <3>5, <3>6, <3>7, <3>8 DEF Own
    <2> QED BY <2>2, <2>4, <2>6, <2>7, <2>8, AsideInv
  <1> QED BY <1>3, <1>4, <1>5

LEMMA NotifyInv ==
  ASSUME LifecycleInv, NEW w \in Workers, Notify(w)
  PROVE  LifecycleInv'
  <1> DEFINE j == job[w]
             c == j.command
             d == draft[w]
             e0 == CommandEvent("decision", c)
             e1 == CommandEvent("notification", c)
             n == [d EXCEPT !.events = d.events \union {e1}]
  <1>0. TypeOK /\ Own(w) /\ phase[w] = "notify" BY DEF LifecycleInv, Notify
  <1>1. j \in Jobs /\ j.op \in ByCommand /\ outcome[w].is = "none" /\ d \in Drafts
    BY <1>0, WorkerTypes DEF Own, Conduct
  <1>2. c \in Commands BY <1>1, JobFacts
  <1>3. /\ UNCHANGED <<dbVars, lockVars, job, todo, seen, told, bounds>>
        /\ \/ Refused(e1) /\ Conflict(w)
           \/ /\ draft' = [draft EXCEPT ![w].events = @ \union {e1}]
              /\ \E r \in d.receipts : Return(w, "applied", r.assignment)
    BY DEF Notify, Accepted
  <1>4. CASE Refused(e1) /\ Conflict(w)
    <2>1. \E e \in Foreign : e.key = [of |-> "command", id |-> c.id]
      BY <1>0, <1>4, CommandRefused
    <2>2. locks' = locks /\ shares' = shares /\ locks \in [Scopes -> Workers \union {Nil}]
      BY <1>0, <1>3 DEF lockVars, TypeOK
    <2> QED BY <1>0, <1>3, <1>4, <2>1, <2>2, ConflictInv
  <1>5. CASE /\ draft' = [draft EXCEPT ![w].events = @ \union {e1}]
             /\ \E r \in d.receipts : Return(w, "applied", r.assignment)
    <2>0. PICK r \in d.receipts : Return(w, "applied", r.assignment) BY <1>5
    <2>1. /\ e0.kind = "decision" /\ e0.key.of = "command" /\ e0.key.id = c.id
          /\ e1 \in Events /\ e1 \notin Foreign
          /\ e1.kind = "notification" /\ e1.key.of = "command" /\ e1.key.id = c.id
      BY <1>2, CommandEventFacts
    <2>2. /\ n \in Drafts /\ n.events = d.events \union {e1} /\ n.relation = d.relation
          /\ n.receipts = d.receipts /\ n.sessions = d.sessions
      <3>1. d.events \union {e1} \in SUBSET Events BY <1>1, <2>1, DraftFacts
      <3> QED BY <1>1, <3>1, EventsFacts
    <2>3. draft' = [draft EXCEPT ![w] = n] BY <1>0, <1>5 DEF TypeOK
    <2> HIDE DEF n
    <2>4. /\ draft' \in [Workers -> Drafts] /\ draft'[w] = n
          /\ \A v \in Workers : v # w => draft'[v] = draft[v]
      BY <1>0, <2>2, <2>3 DEF TypeOK
    <2>5. /\ phase' \in [Workers -> Phases] /\ phase'[w] = "returned"
          /\ outcome' \in [Workers -> Outcomes]
          /\ outcome'[w].is = "applied" /\ outcome'[w].id = r.assignment
          /\ \A v \in Workers : v # w => phase'[v] = phase[v] /\ outcome'[v] = outcome[v]
      <3>1. r.assignment \in Assignments BY <1>1, DraftFacts DEF Receipts
      <3> QED BY <1>0, <2>0, <3>1, ReturnFacts
    <2>6. TypeOK' BY <1>0, <1>3, <2>4, <2>5 DEF TypeOK, dbVars, lockVars, bounds
    <2>7. Aside(w) BY <1>3, <2>4, <2>5 DEF Aside, SameWorker, dbVars, lockVars
    <2>8. Own(w)'
      <3>0. /\ job'[w] = j /\ todo'[w] = todo[w] /\ locks' = locks /\ shares' = shares
            /\ receipts' = receipts /\ relation' = relation /\ enabled' = enabled
        BY <1>3 DEF dbVars, lockVars
      <3>1. Conduct(w)' BY <1>1, <2>5, <3>0 DEF Conduct
      <3>2. Cleared(w)' BY <1>0, <1>1, <2>5, <3>0, Zenon DEF Own, Cleared
      <3>3. Holding(w)' BY <1>0, <2>2, <2>4, <2>5, <3>0 DEF Own, Holding
      <3>4. Admission(w)' BY <1>1, <2>5, <3>0 DEF Admission
      <3>5. Drafted(w)'
        <4>1. /\ \A q \in d.receipts : q.id = c.id
              /\ d.sessions = {}
              /\ e0 \in d.events
              /\ \A e \in d.events : e.key.of = "expired" \/ e = e0
          BY <1>0 DEF Own, Drafted, Receipted
        <4>2. \A e \in d.events, kind \in {"decision", "notification"} :
                e.key.of = "expired" =>
                  \E f \in d.events : f.kind = kind /\ f.key.of = "expired" /\ f.key.id = e.key.id
          BY <1>0 DEF Own, Drafted
        <4> HIDE DEF d, e0, e1
        <4>3. Whole(n.receipts, n.sessions, n.events)
          <5>1. \A q \in n.receipts, kind \in {"decision", "notification"} :
                  \E e \in n.events : e.kind = kind /\ e.key.of = "command" /\ e.key.id = q.id
            BY <2>1, <2>2, <4>1
          <5>2. \A e \in n.events : e.key.of = "command" => \E q \in n.receipts : q.id = e.key.id
            BY <2>0, <2>1, <2>2, <4>1
          <5>3. n.sessions = {} /\ \A e \in n.events : e.key.of # "session" BY <2>1, <2>2, <4>1
          <5>4. ASSUME NEW e \in n.events, NEW kind \in {"decision", "notification"},
                       e.key.of = "expired"
                PROVE  \E f \in n.events : f.kind = kind /\ f.key.of = "expired" /\ f.key.id = e.key.id
            <6>1. e \in d.events BY <2>1, <2>2, <5>4
            <6>2. PICK f \in d.events : f.kind = kind /\ f.key.of = "expired" /\ f.key.id = e.key.id
              BY <4>2, <5>4, <6>1, Zenon
            <6> QED BY <2>2, <6>2
          <5> QED BY <5>1, <5>2, <5>3, <5>4 DEF Whole
        <4>4. \A e \in n.events, kind \in {"decision", "notification"} :
                e.key.of = "expired" =>
                  \E f \in n.events : f.kind = kind /\ f.key.of = "expired" /\ f.key.id = e.key.id
          BY <4>3 DEF Whole
        <4>5. \A e \in n.events : e \notin Foreign BY <1>0, <2>1, <2>2 DEF Own, Drafted, d
        <4> QED BY <2>4, <2>5, <4>3, <4>4, <4>5 DEF Drafted
      <3>6. Receipted(w)' BY <1>0, <2>2, <2>4, <3>0 DEF Own, Receipted
      <3>7. Rowed(w)' BY <1>0, <2>1, <2>2, <2>4, <3>0 DEF Own, Rowed
      <3>8. Answered(w)' BY <1>0, <2>0, <2>2, <2>4, <2>5, <3>0 DEF Own, Receipted, Answered
      <3> QED BY <3>1, <3>2, <3>3, <3>4, <3>5, <3>6, <3>7, <3>8 DEF Own
    <2> QED BY <2>2, <2>4, <2>6, <2>7, <2>8, AsideInv
  <1> QED BY <1>3, <1>4, <1>5

LEMMA DecideInv ==
  ASSUME LifecycleInv, NEW w \in Workers, Decide(w)
  PROVE  LifecycleInv'
  <1> DEFINE j == job[w]
             d == draft[w]
             permit == Permits(seen[w])
             e0 == Event("decision", "session", j.session, Nil, j.at, seen[w])
             es == IF permit \/ j.audit_denial THEN {e0} ELSE {}
             ss == IF permit THEN {j.session} ELSE {}
             is == IF permit THEN "admitted" ELSE "denied"
             n == [d EXCEPT !.events = es, !.sessions = ss]
  <1>0. TypeOK /\ Own(w) /\ phase[w] = "decide" BY DEF LifecycleInv, Decide
  <1>1. /\ j \in Jobs /\ j.op = "admit" /\ j.at # Nil /\ outcome[w].is = "none" /\ d = NoDraft
        /\ seen[w] \in SUBSET Scopes /\ todo[w] = <<>>
    BY <1>0, WorkerTypes DEF Own, Conduct, Drafted
  <1>2. j.session \in Sessions /\ j.at \in Time BY <1>1, JobFacts
  <1>3. /\ UNCHANGED <<dbVars, lockVars, job, todo, seen, told, bounds>>
        /\ \/ Conflict(w)
           \/ /\ draft' = [draft EXCEPT ![w].events = es, ![w].sessions = ss]
              /\ Return(w, is, Nil)
    BY DEF Decide
  <1>4. CASE Conflict(w)
    <2>1. locks' = locks /\ shares' = shares /\ locks \in [Scopes -> Workers \union {Nil}]
      BY <1>0, <1>3 DEF lockVars, TypeOK
    <2>2. j.op \notin ByCommand BY <1>1 DEF ByCommand
    <2> QED BY <1>0, <1>3, <1>4, <2>1, <2>2, ConflictInv
  <1>5. CASE draft' = [draft EXCEPT ![w].events = es, ![w].sessions = ss] /\ Return(w, is, Nil)
    <2>1. /\ e0.key.of = "session" /\ e0.key.id = j.session /\ e0.seen = seen[w] BY DEF Event
    <2>2. e0 \in Events
      <3>1. [of |-> "session", id |-> j.session] \in EventKeys BY <1>2 DEF EventKeys
      <3> QED BY <1>1, <1>2, <3>1 DEF Event, Events
    <2>3. e0 \notin Foreign BY <2>1, ForeignAssumption
    <2>4. /\ es \in SUBSET Events /\ \A e \in es : e = e0
          /\ permit => e0 \in es
          /\ ss \in SUBSET Sessions /\ (permit => ss = {j.session}) /\ (~permit => ss = {})
      BY <1>2, <2>2
    <2> HIDE DEF es, ss, e0
    <2>5. /\ n \in Drafts /\ n.events = es /\ n.sessions = ss
          /\ n.relation = NoDraft.relation /\ n.receipts = NoDraft.receipts
      BY <1>1, <2>4, NoDraftFacts DEF Drafts
    <2>6. draft' = [draft EXCEPT ![w] = n] BY <1>0, <1>5 DEF TypeOK
    <2> HIDE DEF n
    <2>7. /\ draft' \in [Workers -> Drafts] /\ draft'[w] = n
          /\ \A v \in Workers : v # w => draft'[v] = draft[v]
      BY <1>0, <2>5, <2>6 DEF TypeOK
    <2>8. /\ phase' \in [Workers -> Phases] /\ phase'[w] = "returned"
          /\ outcome' \in [Workers -> Outcomes] /\ outcome'[w].is = is
          /\ \A v \in Workers : v # w => phase'[v] = phase[v] /\ outcome'[v] = outcome[v]
      <3>1. is \in {"admitted", "denied"} OBVIOUS
      <3> QED BY <1>0, <1>5, <3>1, ReturnFacts
    <2>9. TypeOK' BY <1>0, <1>3, <2>7, <2>8 DEF TypeOK, dbVars, lockVars, bounds
    <2>10. Aside(w) BY <1>3, <2>7, <2>8 DEF Aside, SameWorker, dbVars, lockVars
    <2>11. Own(w)'
      <3>0. /\ job'[w] = j /\ todo'[w] = todo[w] /\ seen'[w] = seen[w]
            /\ locks' = locks /\ shares' = shares
            /\ receipts' = receipts /\ relation' = relation /\ enabled' = enabled
        BY <1>3 DEF dbVars, lockVars
      <3>1. Conduct(w)' BY <1>1, <2>8, <3>0 DEF Conduct
      <3>2. Cleared(w)' BY <1>0, <1>1, <2>8, <3>0, Zenon DEF Own, Cleared
      <3>3. Holding(w)' BY <2>5, <2>7, <2>8, NoDraftFacts DEF Holding
      <3>4. Admission(w)' BY <1>0, <1>1, <2>8, <3>0 DEF Own, Admission
      <3>5. Drafted(w)'
        <4>1. \A e \in n.events : e.key.of = "session" BY <2>1, <2>4, <2>5
        <4>2. Whole(n.receipts, n.sessions, n.events)
          <5>1. n.receipts = {} BY <2>5, NoDraftFacts
          <5>2. \A x \in n.sessions :
                  \E e \in n.events : e.key.of = "session" /\ e.key.id = x /\ Permits(e.seen)
            BY <2>1, <2>4, <2>5
          <5>3. \A e \in n.events : Permits(e.seen) => e.key.id \in n.sessions
            BY <2>1, <2>4, <2>5
          <5> QED BY <4>1, <5>1, <5>2, <5>3 DEF Whole
        <4>3. \A e \in n.events : e \notin Foreign BY <2>3, <2>4, <2>5
        <4> QED BY <2>7, <2>8, <4>1, <4>2, <4>3 DEF Drafted
      <3>6. Receipted(w)' BY <2>5, <2>7, NoDraftFacts DEF Receipted
      <3>7. Rowed(w)'
        <4>1. \A e \in n.events : e.key.of # "expired" BY <2>1, <2>4, <2>5
        <4>2. DOMAIN n.relation = {} BY <2>5, NoDraftFacts
        <4> QED BY <2>7, <4>1, <4>2 DEF Rowed
      <3>8. Answered(w)' BY <2>8 DEF Answered
      <3> QED BY <3>1, <3>2, <3>3, <3>4, <3>5, <3>6, <3>7, <3>8 DEF Own
    <2>12. draft'[w].receipts = {} BY <2>5, <2>7, NoDraftFacts
    <2> QED BY <2>9, <2>10, <2>11, <2>12, AsideInv
  <1> QED BY <1>3, <1>4, <1>5

LEMMA RevokeInv ==
  ASSUME LifecycleInv, NEW w \in Workers, Revoke(w)
  PROVE  LifecycleInv'
  <1> DEFINE j == job[w]
             s == j.scope
             d == draft[w]
             n == WithRow(d, s, Nil)
  <1>0. TypeOK /\ Own(w) /\ phase[w] = "revoke" BY DEF LifecycleInv, Revoke
  <1>1. /\ j \in Jobs /\ j.op = "revoke" /\ outcome[w].is = "none" /\ d = NoDraft /\ locks[s] = w
    BY <1>0 DEF Own, Conduct, Drafted, Holding
  <1>2. s \in Scopes BY <1>1, JobFacts
  <1>3. /\ UNCHANGED <<dbVars, lockVars, job, todo, seen, told, bounds>>
        /\ \/ Return(w, "error", Nil) /\ UNCHANGED draft
           \/ /\ relation[s] # Nil
              /\ draft' = [draft EXCEPT ![w] = n]
              /\ Return(w, "revoked", relation[s].id)
    BY DEF Revoke
  <1>4. /\ n \in Drafts /\ n.receipts = {} /\ n.sessions = {} /\ n.events = {}
        /\ DOMAIN n.relation = {s} /\ n.relation[s] = Nil
    BY <1>1, <1>2, NoDraftFacts, WithRowFacts
  <1> HIDE DEF n
  <1>5. /\ phase' \in [Workers -> Phases] /\ outcome' \in [Workers -> Outcomes]
        /\ draft' \in [Workers -> Drafts]
        /\ \A v \in Workers : v # w =>
             phase'[v] = phase[v] /\ outcome'[v] = outcome[v] /\ draft'[v] = draft[v]
        /\ \/ phase'[w] = "failed" /\ outcome'[w].is = "error" /\ draft' = draft
           \/ phase'[w] = "returned" /\ outcome'[w].is = "revoked" /\ draft'[w] = n
    <2>1. CASE Return(w, "error", Nil) /\ UNCHANGED draft
      <3>1. draft' = draft /\ draft' \in [Workers -> Drafts] BY <1>0, <2>1 DEF TypeOK
      <3> QED BY <1>0, <2>1, <3>1, ReturnFacts
    <2>2. CASE /\ relation[s] # Nil /\ draft' = [draft EXCEPT ![w] = n]
               /\ Return(w, "revoked", relation[s].id)
      <3>1. relation[s].id \in Assignments BY <1>0, <1>2, <2>2 DEF TypeOK, Rows
      <3>2. /\ draft' \in [Workers -> Drafts] /\ draft'[w] = n
            /\ \A v \in Workers : v # w => draft'[v] = draft[v]
        BY <1>0, <1>4, <2>2 DEF TypeOK
      <3> QED BY <1>0, <2>2, <3>1, <3>2, ReturnFacts
    <2> QED BY <1>3, <2>1, <2>2
  <1>6. TypeOK' BY <1>0, <1>3, <1>5 DEF TypeOK, dbVars, lockVars, bounds
  <1>7. Aside(w) BY <1>3, <1>5 DEF Aside, SameWorker, dbVars, lockVars
  <1>8. Own(w)'
    <2>0. /\ job'[w] = j /\ todo'[w] = todo[w] /\ locks' = locks /\ shares' = shares
          /\ receipts' = receipts /\ relation' = relation /\ enabled' = enabled
      BY <1>3 DEF dbVars, lockVars
    <2>1. CASE phase'[w] = "failed" /\ outcome'[w].is = "error" /\ draft' = draft
      BY <1>0, <2>0, <2>1, FailOwn
    <2>2. CASE phase'[w] = "returned" /\ outcome'[w].is = "revoked" /\ draft'[w] = n
      <3>1. Conduct(w)' BY <1>1, <2>0, <2>2 DEF Conduct
      <3>2. Cleared(w)' BY <2>2 DEF Cleared
      <3>3. Holding(w)' BY <1>1, <1>4, <2>0, <2>2 DEF Holding
      <3>4. Admission(w)' BY <2>2 DEF Admission
      <3>5. Drafted(w)' BY <1>4, <2>2 DEF Drafted, Whole
      <3>6. Receipted(w)' BY <1>4, <2>2 DEF Receipted
      <3>7. Rowed(w)' BY <1>4, <2>2 DEF Rowed
      <3>8. Answered(w)' BY <2>2 DEF Answered
      <3> QED BY <3>1, <3>2, <3>3, <3>4, <3>5, <3>6, <3>7, <3>8 DEF Own
    <2> QED BY <1>5, <2>1, <2>2
  <1>9. draft'[w].receipts \subseteq draft[w].receipts BY <1>4, <1>5
  <1> QED BY <1>6, <1>7, <1>8, <1>9, AsideInv

LEMMA ExpiryFacts ==
  ASSUME NEW w \in Workers, job[w].at \in Time, NEW ids \in SUBSET Assignments
  PROVE  /\ ExpiryEvents(w, ids) \in SUBSET Events
         /\ \A e \in ExpiryEvents(w, ids) : e.key.of = "expired" /\ e.key.id \in ids
         /\ \A id \in ids, kind \in {"decision", "notification"} :
              \E f \in ExpiryEvents(w, ids) :
                f.kind = kind /\ f.key.of = "expired" /\ f.key.id = id
  <1> DEFINE Ev(kind, id) == Event(kind, "expired", id, Nil, job[w].at, {})
  <1>1. ExpiryEvents(w, ids) = {Ev(kind, id) : kind \in {"decision", "notification"}, id \in ids}
    BY DEF ExpiryEvents
  <1>2. ASSUME NEW kind \in {"decision", "notification"}, NEW id \in ids
        PROVE  /\ Ev(kind, id) \in Events /\ Ev(kind, id).kind = kind
               /\ Ev(kind, id).key.of = "expired" /\ Ev(kind, id).key.id = id
    <2>1. [of |-> "expired", id |-> id] \in EventKeys BY DEF EventKeys
    <2> QED BY <2>1 DEF Event, Events
  <1> HIDE DEF Ev
  <1> QED BY <1>1, <1>2

LEMMA StageInv ==
  ASSUME LifecycleInv, NEW w \in Workers, Stage(w)
  PROVE  LifecycleInv'
  <1> DEFINE j == job[w]
             d == draft[w]
             D == Due(w)
             ids == {relation[s].id : s \in D}
             es == ExpiryEvents(w, ids)
             rel == [s \in D |-> Nil]
             n == [d EXCEPT !.relation = rel, !.events = es]
  <1>0. TypeOK /\ Own(w) /\ phase[w] = "expire" /\ Retired BY DEF LifecycleInv, Stage, Committed
  <1>1. /\ j \in Jobs /\ j.op = "renew" /\ outcome[w].is = "none" /\ d = NoDraft
        /\ todo[w] = <<j.command.scope>>
    BY <1>0 DEF Own, Conduct, Drafted, ByCommand
  <1>2. D \subseteq Scopes /\ \A s \in D : relation[s] # Nil BY DEF Due
  <1>3. ids \in SUBSET Assignments BY <1>0, <1>2 DEF TypeOK, Rows
  <1>4. /\ UNCHANGED <<dbVars, shares, job, todo, seen, told, bounds>>
        /\ \A s \in D : locks[s] \in {Nil, w}
        /\ locks' = [s \in Scopes |-> IF s \in D THEN w ELSE locks[s]]
        /\ \/ ~Accepted(es) /\ Conflict(w)
           \/ /\ draft' = [draft EXCEPT ![w].relation = rel, ![w].events = es]
              /\ Goto(w, "observe")
              /\ UNCHANGED outcome
    BY DEF Stage
  <1> HIDE DEF D
  <1>5. /\ es \in SUBSET Events /\ \A e \in es : e.key.of = "expired" /\ e.key.id \in ids
        /\ \A id \in ids, kind \in {"decision", "notification"} :
             \E f \in es : f.kind = kind /\ f.key.of = "expired" /\ f.key.id = id
    <2>1. job[w].at \in Time BY <1>1, JobFacts
    <2> HIDE DEF ids
    <2> QED BY <1>3, <2>1, ExpiryFacts
  <1> HIDE DEF es
  <1>6. /\ locks' \in [Scopes -> Workers \union {Nil}]
        /\ \A s \in Scopes : locks[s] = w => locks'[s] = w
        /\ \A s \in D : locks'[s] = w
        /\ \A s \in Scopes : locks'[s] = locks[s] \/ locks[s] \in {Nil, w}
    BY <1>0, <1>2, <1>4 DEF TypeOK
  \* An expired assignment has no row, so its events are new.
  <1>7. Accepted(es)
    <2> SUFFICES ASSUME NEW e \in es, NEW f \in events, f.key = e.key PROVE FALSE
      BY DEF Accepted, Refused
    <2>1. PICK s \in D : relation[s].id = e.key.id BY <1>5
    <2> QED BY <1>0, <1>2, <1>5, <2>1 DEF Retired
  <1>8. draft' = [draft EXCEPT ![w].relation = rel, ![w].events = es]
        /\ Goto(w, "observe") /\ outcome' = outcome
    BY <1>4, <1>7
  <1>9. /\ n \in Drafts /\ n.relation = rel /\ n.events = es
        /\ n.receipts = {} /\ n.sessions = {}
    <2>1. rel \in RowChanges BY <1>2, RowChangesIntro
    <2> HIDE DEF rel
    <2> QED BY <1>1, <1>5, <2>1, NoDraftFacts DEF Drafts
  <1>10. draft' = [draft EXCEPT ![w] = n] BY <1>0, <1>8 DEF TypeOK
  <1>11. DOMAIN rel = D /\ \A s \in D : rel[s] = Nil OBVIOUS
  <1> HIDE DEF n, rel
  <1>12. /\ draft' \in [Workers -> Drafts] /\ draft'[w] = n
         /\ \A v \in Workers : v # w => draft'[v] = draft[v]
    BY <1>0, <1>9, <1>10 DEF TypeOK
  <1>13. /\ phase' \in [Workers -> Phases] /\ phase'[w] = "observe"
         /\ \A v \in Workers : v # w => phase'[v] = phase[v]
    <2>1. "observe" \in Phases BY DEF Phases
    <2> QED BY <1>0, <1>8, <2>1, GotoFacts
  <1>14. TypeOK' BY <1>0, <1>4, <1>6, <1>8, <1>12, <1>13 DEF TypeOK, dbVars, bounds
  <1>15. Aside(w) BY <1>4, <1>6, <1>8, <1>12, <1>13 DEF Aside, SameWorker, dbVars
  <1>16. Own(w)'
    <2>0. /\ job'[w] = j /\ todo'[w] = todo[w] /\ shares' = shares /\ outcome'[w] = outcome[w]
          /\ receipts' = receipts /\ relation' = relation /\ enabled' = enabled
      BY <1>4, <1>8 DEF dbVars
    <2>1. Conduct(w)'
      <3>1. \A x : <<x>> # <<>> OBVIOUS
      <3> QED BY <1>1, <1>13, <2>0, <3>1 DEF Conduct
    <2>2. Cleared(w)' BY <1>0, <1>1, <1>13, <2>0, Zenon DEF Own, Cleared
    <2>3. Holding(w)' BY <1>6, <1>9, <1>11, <1>12, <1>13 DEF Holding
    <2>4. Admission(w)' BY <1>1, <1>13, <2>0 DEF Admission
    <2>5. Drafted(w)'
      <3>1. \A e \in n.events : e.key.of = "expired" /\ e \notin Foreign
        BY <1>5, <1>9, ForeignAssumption
      <3>2. \A e \in n.events, kind \in {"decision", "notification"} :
              \E f \in n.events : f.kind = kind /\ f.key.of = "expired" /\ f.key.id = e.key.id
        <4> HIDE DEF ids
        <4> TAKE e \in n.events, kind \in {"decision", "notification"}
        <4>1. e.key.id \in ids BY <1>5, <1>9, Zenon
        <4>2. PICK f \in es : f.kind = kind /\ f.key.of = "expired" /\ f.key.id = e.key.id
          BY <1>5, <4>1, ZenonT(60)
        <4> QED BY <1>9, <4>2, Zenon
      <3>3. /\ phase'[w] = "observe" /\ job'[w].op = "renew"
            /\ draft'[w].receipts = {} /\ draft'[w].sessions = {}
        BY <1>1, <1>9, <1>12, <1>13, <2>0
      <3>4. draft'[w] = n BY <1>12
      <3> QED BY <3>1, <3>2, <3>3, <3>4 DEF Drafted
    <2>6. Receipted(w)' BY <1>9, <1>12 DEF Receipted
    <2>7. Rowed(w)'
      <3>1. \A e \in n.events : \E s \in DOMAIN n.relation :
              relation[s] # Nil /\ relation[s].id = e.key.id /\ n.relation[s] = Nil
        BY <1>2, <1>5, <1>9, <1>11
      <3> QED BY <1>9, <1>11, <1>12, <2>0, <3>1 DEF Rowed
    <2>8. Answered(w)' BY <1>1, <1>13, <2>0 DEF Answered
    <2> QED BY <2>1, <2>2, <2>3, <2>4, <2>5, <2>6, <2>7, <2>8 DEF Own
  <1>17. draft'[w].receipts = {} BY <1>9, <1>12
  <1> QED BY <1>14, <1>15, <1>16, <1>17, AsideInv

-----------------------------------------------------------------------------
(***************************************************************************)
(* The end of a transaction.                                               *)
(***************************************************************************)
LEMMA ReleaseFacts ==
  ASSUME TypeOK, NEW w \in Workers, Release(w)
  PROVE  /\ shares' \in [Principals -> SUBSET Workers]
         /\ locks' \in [Scopes -> Workers \union {Nil}]
         /\ phase' \in [Workers -> Phases] /\ job' \in [Workers -> Jobs \union {Nil}]
         /\ todo' \in [Workers -> Seq(Scopes)] /\ seen' \in [Workers -> SUBSET Scopes]
         /\ draft' \in [Workers -> Drafts] /\ outcome' \in [Workers -> Outcomes]
         /\ phase'[w] = "idle" /\ draft'[w] = NoDraft /\ outcome'[w].is = "none"
         /\ \A v \in Workers : v # w => SameWorker(v)
         /\ \A s \in Scopes : locks'[s] = locks[s] \/ locks[s] = w
         /\ \A p \in Principals, v \in Workers : v # w /\ v \in shares[p] => v \in shares'[p]
  <1>1. /\ phase' \in [Workers -> Phases] /\ phase'[w] = "idle"
        /\ \A v \in Workers : v # w => phase'[v] = phase[v]
    BY DEF Release, TypeOK, Phases
  <1>2. /\ job' \in [Workers -> Jobs \union {Nil}]
        /\ \A v \in Workers : v # w => job'[v] = job[v]
    BY DEF Release, TypeOK
  <1>3. /\ todo' \in [Workers -> Seq(Scopes)]
        /\ \A v \in Workers : v # w => todo'[v] = todo[v]
    <2>1. <<>> \in Seq(Scopes) OBVIOUS
    <2> QED BY <2>1 DEF Release, TypeOK
  <1>4. /\ seen' \in [Workers -> SUBSET Scopes]
        /\ \A v \in Workers : v # w => seen'[v] = seen[v]
    BY DEF Release, TypeOK
  <1>5. /\ draft' \in [Workers -> Drafts] /\ draft'[w] = NoDraft
        /\ \A v \in Workers : v # w => draft'[v] = draft[v]
    BY NoDraftFacts DEF Release, TypeOK
  <1>6. /\ outcome' \in [Workers -> Outcomes] /\ outcome'[w].is = "none"
        /\ \A v \in Workers : v # w => outcome'[v] = outcome[v]
    <2>1. NoOutcome \in Outcomes /\ NoOutcome.is = "none" BY DEF NoOutcome, Outcomes
    <2> QED BY <2>1 DEF Release, TypeOK
  <1>7. /\ shares' \in [Principals -> SUBSET Workers]
        /\ \A p \in Principals, v \in Workers : v # w /\ v \in shares[p] => v \in shares'[p]
    BY DEF Release, TypeOK
  <1>8. /\ locks' \in [Scopes -> Workers \union {Nil}]
        /\ \A s \in Scopes : locks'[s] = locks[s] \/ locks[s] = w
    BY DEF Release, TypeOK
  <1>9. \A v \in Workers : v # w => SameWorker(v)
    BY <1>1, <1>2, <1>3, <1>4, <1>5, <1>6 DEF SameWorker
  <1> QED BY <1>1, <1>2, <1>3, <1>4, <1>5, <1>6, <1>7, <1>8, <1>9

LEMMA IdleOwn ==
  ASSUME NEW w \in Workers, phase'[w] = "idle", draft'[w] = NoDraft, outcome'[w].is = "none"
  PROVE  Own(w)'
  <1>1. Conduct(w)' BY DEF Conduct
  <1>2. Cleared(w)' BY DEF Cleared
  <1>3. Holding(w)' BY NoDraftFacts DEF Holding
  <1>4. Admission(w)' BY DEF Admission
  <1>5. Drafted(w)' BY NoDraftFacts DEF Drafted
  <1>6. Receipted(w)' BY NoDraftFacts DEF Receipted
  <1>7. Rowed(w)' BY NoDraftFacts DEF Rowed
  <1>8. Answered(w)' BY DEF Answered
  <1> QED BY <1>1, <1>2, <1>3, <1>4, <1>5, <1>6, <1>7, <1>8 DEF Own

LEMMA RollbackInv ==
  ASSUME LifecycleInv, NEW w \in Workers, Release(w), UNCHANGED <<dbVars, told, begun, toggles>>,
         faults' \in 0 .. MaxFaults
  PROVE  LifecycleInv'
  <1>0. TypeOK BY DEF LifecycleInv
  <1>1. /\ shares' \in [Principals -> SUBSET Workers]
        /\ locks' \in [Scopes -> Workers \union {Nil}]
        /\ phase' \in [Workers -> Phases] /\ job' \in [Workers -> Jobs \union {Nil}]
        /\ todo' \in [Workers -> Seq(Scopes)] /\ seen' \in [Workers -> SUBSET Scopes]
        /\ draft' \in [Workers -> Drafts] /\ outcome' \in [Workers -> Outcomes]
    BY <1>0, ReleaseFacts
  <1>2. TypeOK' BY <1>0, <1>1 DEF TypeOK, dbVars
  <1>3. Aside(w) BY <1>0, ReleaseFacts DEF Aside
  <1>4. Own(w)' BY <1>0, ReleaseFacts, IdleOwn
  <1>5. draft'[w].receipts = {} BY <1>0, ReleaseFacts, NoDraftFacts
  <1> QED BY <1>2, <1>3, <1>4, <1>5, AsideInv

LEMMA WholeFacts ==
  ASSUME NEW R, NEW S, NEW E, Whole(R, S, E), NEW kind \in {"decision", "notification"}
  PROVE  /\ \A r \in R : \E e \in E : e.kind = kind /\ e.key.of = "command" /\ e.key.id = r.id
         /\ \A e \in E : e.key.of = "command" => \E r \in R : r.id = e.key.id
  <1>1. \A r \in R, k \in {"decision", "notification"} :
          \E e \in E : e.kind = k /\ e.key.of = "command" /\ e.key.id = r.id
    BY Zenon DEF Whole
  <1>2. \A r \in R : \E e \in E : e.kind = kind /\ e.key.of = "command" /\ e.key.id = r.id
    BY <1>1
  <1> QED BY <1>2, Zenon DEF Whole

LEMMA WholeUnion ==
  ASSUME NEW R, NEW S, NEW E, NEW R2, NEW S2, NEW E2, Whole(R, S, E), Whole(R2, S2, E2)
  PROVE  Whole(R \union R2, S \union S2, E \union E2)
  <1>1. \A r \in R \union R2, kind \in {"decision", "notification"} :
          \E e \in E \union E2 : e.kind = kind /\ e.key.of = "command" /\ e.key.id = r.id
    <2> TAKE r \in R \union R2, kind \in {"decision", "notification"}
    <2>1. CASE r \in R
      <3>1. PICK e \in E : e.kind = kind /\ e.key.of = "command" /\ e.key.id = r.id BY <2>1, WholeFacts
      <3> QED BY <3>1, Zenon
    <2>2. CASE r \in R2
      <3>1. PICK e \in E2 : e.kind = kind /\ e.key.of = "command" /\ e.key.id = r.id BY <2>2, WholeFacts
      <3> QED BY <3>1, Zenon
    <2> QED BY <2>1, <2>2
  <1>2. \A e \in E \union E2 : e.key.of = "command" => \E r \in R \union R2 : r.id = e.key.id
    BY DEF Whole
  <1>3. \A x \in S \union S2 :
          \E e \in E \union E2 : e.key.of = "session" /\ e.key.id = x /\ Permits(e.seen)
    BY Zenon DEF Whole
  <1>4. \A e \in E \union E2 : (e.key.of = "session" /\ Permits(e.seen)) => e.key.id \in S \union S2
    BY Zenon DEF Whole
  <1>5. ASSUME NEW e \in E \union E2, NEW kind \in {"decision", "notification"},
               e.key.of = "expired"
        PROVE  \E f \in E \union E2 : f.kind = kind /\ f.key.of = "expired" /\ f.key.id = e.key.id
    <2>1. CASE e \in E
      <3>1. \A g \in E, k \in {"decision", "notification"} :
              g.key.of = "expired" =>
                \E f \in E : f.kind = k /\ f.key.of = "expired" /\ f.key.id = g.key.id
        BY Zenon DEF Whole
      <3>2. \E f \in E : f.kind = kind /\ f.key.of = "expired" /\ f.key.id = e.key.id
        BY <1>5, <2>1, <3>1
      <3> QED BY <3>2
    <2>2. CASE e \in E2
      <3>1. \A g \in E2, k \in {"decision", "notification"} :
              g.key.of = "expired" =>
                \E f \in E2 : f.kind = k /\ f.key.of = "expired" /\ f.key.id = g.key.id
        BY Zenon DEF Whole
      <3>2. \E f \in E2 : f.kind = kind /\ f.key.of = "expired" /\ f.key.id = e.key.id
        BY <1>5, <2>2, <3>1
      <3> QED BY <3>2
    <2> QED BY <2>1, <2>2
  <1> QED BY <1>1, <1>2, <1>3, <1>4, <1>5, Zenon DEF Whole

\* No receipt of an open transaction creates an assignment that a committed
\* one has created.
LEMMA NewAssignment ==
  ASSUME LifecycleInv, NEW w \in Workers, NEW r \in draft[w].receipts, NEW q \in receipts
  PROVE  r.command.assignment # q.command.assignment
  <1>1. TypeOK /\ Own(w) /\ ReceiptsKeyed BY DEF LifecycleInv, Committed
  <1>2. r.command \in Commands /\ q.command \in Commands
    BY <1>1, WorkerTypes, DraftFacts DEF TypeOK, Receipts
  <1>3. r.id = r.command.id /\ q.id = q.command.id /\ r.id # q.id
    BY <1>1 DEF Own, Receipted, ReceiptsKeyed
  <1> QED BY <1>2, <1>3, FreshAssignments

LEMMA CommitInv ==
  ASSUME LifecycleInv, NEW w \in Workers, phase[w] = "returned",
         ApplyDraft(w), Release(w), UNCHANGED <<enabled, begun, toggles>>,
         told' = told \/ told' = told \union {[job |-> job[w], outcome |-> outcome[w]]},
         faults' \in 0 .. MaxFaults
  PROVE  LifecycleInv'
  <1> DEFINE d == draft[w]
  <1>0. TypeOK /\ Own(w) /\ Committed /\ Apart BY DEF LifecycleInv
  <1>1. /\ d \in Drafts /\ job[w] \in Jobs /\ outcome[w] \in Outcomes
        /\ DOMAIN d.relation \subseteq Scopes
        /\ \A s \in DOMAIN d.relation : d.relation[s] \in Rows \union {Nil} /\ locks[s] = w
        /\ d.receipts \subseteq Receipts /\ d.sessions \subseteq Sessions /\ d.events \subseteq Events
    BY <1>0, WorkerTypes, DraftFacts DEF Own, Conduct, Holding
  <1>2. /\ relation' = [s \in Scopes |-> Visible(w, s)]
        /\ receipts' = receipts \union d.receipts
        /\ sessions' = sessions \union d.sessions
        /\ events' = events \union d.events
    BY DEF ApplyDraft
  <1>3. /\ \A s \in DOMAIN d.relation : relation'[s] = d.relation[s]
        /\ \A s \in Scopes : s \notin DOMAIN d.relation => relation'[s] = relation[s]
    BY <1>1, <1>2 DEF Visible
  <1>4. relation' \in [Scopes -> Rows \union {Nil}] BY <1>0, <1>1, <1>2 DEF Visible, TypeOK
  <1>5. /\ shares' \in [Principals -> SUBSET Workers]
        /\ locks' \in [Scopes -> Workers \union {Nil}]
        /\ phase' \in [Workers -> Phases] /\ job' \in [Workers -> Jobs \union {Nil}]
        /\ todo' \in [Workers -> Seq(Scopes)] /\ seen' \in [Workers -> SUBSET Scopes]
        /\ draft' \in [Workers -> Drafts] /\ outcome' \in [Workers -> Outcomes]
        /\ phase'[w] = "idle" /\ draft'[w] = NoDraft /\ outcome'[w].is = "none"
        /\ \A v \in Workers : v # w => SameWorker(v)
        /\ \A s \in Scopes : locks'[s] = locks[s] \/ locks[s] = w
        /\ \A p \in Principals, v \in Workers : v # w /\ v \in shares[p] => v \in shares'[p]
    BY <1>0, ReleaseFacts
  <1>6. TypeOK'
    <2>1. told' \subseteq [job : Jobs, outcome : Outcomes] BY <1>0, <1>1 DEF TypeOK
    <2>2. receipts' \subseteq Receipts /\ sessions' \subseteq Sessions /\ events' \subseteq Events
      BY <1>0, <1>1, <1>2 DEF TypeOK
    <2> QED BY <1>0, <1>4, <1>5, <2>1, <2>2 DEF TypeOK
  <1>7. \A v \in Workers : Own(v)'
    <2> TAKE v \in Workers
    <2>1. CASE v = w BY <1>5, <2>1, IdleOwn
    <2>2. CASE v # w
      <3>1. SameWorker(v) BY <1>5, <2>2
      <3>2. \A s \in Scopes : locks[s] = v => locks'[s] = v /\ relation'[s] = relation[s]
        BY <1>1, <1>3, <1>5, <2>2
      <3>3. \A p \in Principals : v \in shares[p] => v \in shares'[p] /\ enabled'[p] = enabled[p]
        BY <1>5, <2>2
      <3>4. ASSUME NEW r \in receipts' \ receipts
            PROVE  locks[r.command.scope] # v /\ \A q \in draft[v].receipts : q.id # r.id
        <4>1. r \in d.receipts BY <1>2, <3>4
        <4>2. locks[r.command.scope] = w BY <1>0, <4>1 DEF Own, Holding
        <4> QED BY <1>0, <2>2, <4>1, <4>2 DEF Apart
      <3>5. Undisturbed(v) BY <1>2, <3>1, <3>2, <3>3, <3>4 DEF Undisturbed
      <3> QED BY <1>0, <3>5, FrameOwn DEF LifecycleInv
    <2> QED BY <2>1, <2>2
  <1>8. Apart'
    <2>1. \A v \in Workers : v # w => draft'[v] = draft[v] BY <1>5 DEF SameWorker
    <2>2. draft'[w].receipts = {} BY <1>5, NoDraftFacts
    <2> QED BY <1>0, <2>1, <2>2 DEF Apart
  <1>9. Whole(receipts, sessions, events \ Foreign)'
    <2>1. Whole(receipts, sessions, events \ Foreign) /\ Whole(d.receipts, d.sessions, d.events)
      BY <1>0 DEF Own, Committed, Drafted
    <2>2. events' \ Foreign = (events \ Foreign) \union d.events BY <1>0, <1>2 DEF Own, Drafted
    <2> QED BY <1>2, <2>1, <2>2, WholeUnion
  <1>10. ReceiptsKeyed'
    <2>1. \A r \in receipts' : r.id = r.command.id
      BY <1>0, <1>2 DEF Own, Receipted, Committed, ReceiptsKeyed
    <2>2. ASSUME NEW r \in receipts', NEW q \in receipts', r.id = q.id PROVE r = q
      <3>1. CASE r \in receipts /\ q \in receipts
        BY <1>0, <2>2, <3>1 DEF Committed, ReceiptsKeyed
      <3>2. CASE r \in d.receipts /\ q \in d.receipts BY <1>0, <3>2 DEF Own, Receipted
      <3>3. CASE r \in d.receipts /\ q \in receipts BY <1>0, <2>2, <3>3 DEF Own, Receipted
      <3>4. CASE r \in receipts /\ q \in d.receipts BY <1>0, <2>2, <3>4 DEF Own, Receipted
      <3> QED BY <1>2, <3>1, <3>2, <3>3, <3>4
    <2> QED BY <2>1, <2>2 DEF ReceiptsKeyed
  \* Each row after the commit was there, or is the work of an own receipt.
  <1>11. ASSUME NEW s \in Scopes, relation'[s] # Nil
         PROVE  relation'[s] = relation[s] \/ Created(d.receipts, s, relation'[s].id)
    <2>1. CASE s \in DOMAIN d.relation BY <1>0, <1>3, <1>11, <2>1 DEF Own, Rowed
    <2>2. CASE s \notin DOMAIN d.relation BY <1>3, <2>2
    <2> QED BY <2>1, <2>2
  <1>12. Origin'
    <2> SUFFICES ASSUME NEW s \in Scopes, relation'[s] # Nil
                 PROVE  Created(receipts', s, relation'[s].id)
      BY DEF Origin
    <2>1. CASE relation'[s] = relation[s]
      <3>1. Created(receipts, s, relation'[s].id) BY <1>0, <2>1 DEF Committed, Origin
      <3> QED BY <1>2, <3>1 DEF Created
    <2>2. CASE Created(d.receipts, s, relation'[s].id) BY <1>2, <2>2 DEF Created
    <2> QED BY <1>11, <2>1, <2>2
  <1>13. Retired'
    <2> SUFFICES ASSUME NEW e \in events', e.key.of = "expired"
                 PROVE  /\ \E r \in receipts' : r.command.assignment = e.key.id
                        /\ \A s \in Scopes : relation'[s] # Nil => relation'[s].id # e.key.id
      BY DEF Retired
    <2>1. \E r \in receipts : r.command.assignment = e.key.id
      <3>1. CASE e \in events BY <1>0, <3>1 DEF Committed, Retired
      <3>2. CASE e \in d.events
        <4>1. PICK s \in DOMAIN d.relation : relation[s] # Nil /\ relation[s].id = e.key.id
          BY <1>0, <3>2 DEF Own, Rowed
        <4> QED BY <1>0, <1>1, <4>1 DEF Committed, Origin, Created
      <3> QED BY <1>2, <3>1, <3>2
    <2>2. PICK r0 \in receipts : r0.command.assignment = e.key.id BY <2>1
    <2>3. ASSUME NEW s \in Scopes, relation'[s] # Nil, relation'[s].id = e.key.id PROVE FALSE
      <3>1. ~Created(d.receipts, s, relation'[s].id)
        BY <2>2, <2>3, NewAssignment DEF Created
      <3>2. relation'[s] = relation[s] BY <1>11, <2>3, <3>1
      <3>3. CASE e \in events BY <1>0, <2>3, <3>2, <3>3 DEF Committed, Retired
      <3>4. CASE e \in d.events
        <4>1. PICK x \in DOMAIN d.relation :
                /\ relation[x] # Nil /\ relation[x].id = e.key.id
                /\ d.relation[x] # Nil => d.relation[x].id # e.key.id
          BY <1>0, <3>4 DEF Own, Rowed
        <4>2. x \in Scopes /\ relation'[x] = d.relation[x] BY <1>1, <1>3
        <4>3. x # s BY <2>3, <4>1, <4>2
        <4>4. PICK r \in receipts : r.command.scope = x /\ r.command.assignment = e.key.id
          BY <1>0, <4>1, <4>2 DEF Committed, Origin, Created
        <4>5. PICK q \in receipts : q.command.scope = s /\ q.command.assignment = e.key.id
          BY <1>0, <2>3, <3>2 DEF Committed, Origin, Created
        <4>6. r.command \in Commands /\ q.command \in Commands BY <1>0 DEF TypeOK, Receipts
        <4>7. r.command.id = q.command.id BY <4>4, <4>5, <4>6, FreshAssignments
        <4>8. r = q BY <1>0, <4>7 DEF Committed, ReceiptsKeyed
        <4> QED BY <4>3, <4>4, <4>5, <4>8
      <3> QED BY <1>2, <3>3, <3>4
    <2> QED BY <1>2, <2>2, <2>3
  <1>14. Told'
    <2> SUFFICES ASSUME NEW x \in told', x.outcome.is \in {"applied", "replayed"}
                 PROVE  \E r \in receipts' : r.command = x.job.command /\ r.assignment = x.outcome.id
      BY DEF Told
    <2>1. CASE x \in told BY <1>0, <1>2, <2>1 DEF Committed, Told
    <2>2. CASE x = [job |-> job[w], outcome |-> outcome[w]]
      <3>1. x.job = job[w] /\ x.outcome = outcome[w] BY <2>2
      <3> QED BY <1>0, <1>2, <3>1 DEF Own, Answered
    <2> QED BY <2>1, <2>2
  <1>15. Foreign \subseteq events' BY <1>0, <1>2 DEF Committed
  <1>16. Committed' BY <1>9, <1>10, <1>12, <1>13, <1>14, <1>15 DEF Committed
  <1> QED BY <1>6, <1>7, <1>8, <1>16 DEF LifecycleInv

-----------------------------------------------------------------------------
(***************************************************************************)
(* Every step.                                                             *)
(***************************************************************************)
LEMMA SetAuthorityInv ==
  ASSUME LifecycleInv, NEW p \in Principals, NEW value \in BOOLEAN, SetAuthority(p, value)
  PROVE  LifecycleInv'
  <1>0. TypeOK BY DEF LifecycleInv
  <1>1. /\ UNCHANGED <<relation, receipts, sessions, events, told>>
        /\ UNCHANGED <<lockVars, txVars, begun, faults>>
    BY DEF SetAuthority
  <1>2. /\ enabled' \in [Principals -> BOOLEAN]
        /\ \A q \in Principals : q # p => enabled'[q] = enabled[q]
    BY <1>0 DEF SetAuthority, TypeOK
  <1>3. toggles' \in 0 .. MaxToggles BY <1>0, BoundsAssumption DEF SetAuthority, TypeOK
  <1>4. TypeOK' BY <1>0, <1>1, <1>2, <1>3 DEF TypeOK, lockVars, txVars
  <1>5. \A v \in Workers : Own(v)'
    <2> TAKE v \in Workers
    <2>1. SameWorker(v) BY <1>1 DEF SameWorker, txVars
    <2>2. \A q \in Principals : v \in shares[q] => v \in shares'[q] /\ enabled'[q] = enabled[q]
      BY <1>1, <1>2 DEF SetAuthority, lockVars
    <2>3. Undisturbed(v) BY <1>1, <2>1, <2>2 DEF Undisturbed, lockVars
    <2> QED BY <1>0, <2>3, FrameOwn DEF LifecycleInv
  <1>6. Apart' BY <1>1 DEF LifecycleInv, Apart, txVars
  <1>7. Committed' BY <1>1 DEF LifecycleInv, Committed, ReceiptsKeyed, Origin, Retired, Told
  <1> QED BY <1>4, <1>5, <1>6, <1>7 DEF LifecycleInv

LEMMA StepInv ==
  ASSUME LifecycleInv, NEW w \in Workers, Step(w)
  PROVE  LifecycleInv'
  <1>1. CASE Commit(w)
    <2>1. /\ phase[w] = "returned" /\ ApplyDraft(w) /\ Release(w)
          /\ told' = told \union {[job |-> job[w], outcome |-> outcome[w]]}
          /\ UNCHANGED <<enabled, begun, toggles>> /\ faults' = faults
      BY <1>1 DEF Commit, bounds
    <2>2. faults' \in 0 .. MaxFaults BY <2>1 DEF LifecycleInv, TypeOK
    <2> QED BY <2>1, <2>2, CommitInv
  <1>2. CASE Rollback(w)
    <2>1. Release(w) /\ UNCHANGED <<dbVars, told, begun, toggles>> /\ faults' = faults
      BY <1>2 DEF Rollback, bounds
    <2>2. faults' \in 0 .. MaxFaults BY <2>1 DEF LifecycleInv, TypeOK
    <2> QED BY <2>1, <2>2, RollbackInv
  <1> QED BY <1>1, <1>2, AuthenticateInv, ObserveInv, ReceiptInv, WriteInv, AuditInv, NotifyInv,
             DecideInv, StageInv, RevokeInv, Zenon DEF Step

LEMMA LoseInv ==
  ASSUME LifecycleInv, NEW w \in Workers, Lose(w)
  PROVE  LifecycleInv'
  <1>1. faults' \in 0 .. MaxFaults BY BoundsAssumption DEF Lose, LifecycleInv, TypeOK
  <1>2. Release(w) /\ UNCHANGED <<told, begun, toggles>> BY DEF Lose
  <1>3. CASE UNCHANGED dbVars BY <1>1, <1>2, <1>3, RollbackInv
  <1>4. CASE phase[w] = "returned" /\ ApplyDraft(w) /\ UNCHANGED enabled
    BY <1>1, <1>2, <1>4, CommitInv
  <1> QED BY <1>3, <1>4 DEF Lose

LEMMA InitInv ==
  ASSUME Init
  PROVE  LifecycleInv
  <1>1. TypeOK
    <2>1. Foreign \subseteq Events BY ForeignAssumption
    <2>2. NoOutcome \in Outcomes BY DEF NoOutcome, Outcomes
    <2>3. <<>> \in Seq(Scopes) OBVIOUS
    <2>4. "idle" \in Phases BY DEF Phases
    <2>5. 0 \in 0 .. MaxJobs /\ 0 \in 0 .. MaxToggles /\ 0 \in 0 .. MaxFaults BY BoundsAssumption
    <2> QED BY <2>1, <2>2, <2>3, <2>4, <2>5, NoDraftFacts DEF Init, TypeOK
  <1>2. \A w \in Workers : Own(w)
    <2> TAKE w \in Workers
    <2>0. phase[w] = "idle" /\ draft[w] = NoDraft /\ outcome[w].is = "none"
      BY DEF Init, NoOutcome
    <2>1. Conduct(w) BY <2>0 DEF Conduct
    <2>2. Cleared(w) BY <2>0 DEF Cleared
    <2>3. Holding(w) BY <2>0, NoDraftFacts DEF Holding
    <2>4. Admission(w) BY <2>0 DEF Admission
    <2>5. Drafted(w) BY <2>0, NoDraftFacts DEF Drafted
    <2>6. Receipted(w) BY <2>0, NoDraftFacts DEF Receipted
    <2>7. Rowed(w) BY <2>0, NoDraftFacts DEF Rowed
    <2>8. Answered(w) BY <2>0 DEF Answered
    <2> QED BY <2>1, <2>2, <2>3, <2>4, <2>5, <2>6, <2>7, <2>8 DEF Own
  <1>3. Apart BY NoDraftFacts DEF Init, Apart
  <1>4. Committed
    <2>1. receipts = {} /\ sessions = {} /\ events = Foreign /\ told = {}
          /\ \A s \in Scopes : relation[s] = Nil
      BY DEF Init
    <2>2. Whole(receipts, sessions, events \ Foreign) BY <2>1 DEF Whole
    <2>3. Retired BY <2>1, ForeignAssumption DEF Retired
    <2> QED BY <2>1, <2>2, <2>3 DEF Committed, ReceiptsKeyed, Origin, Told
  <1> QED BY <1>1, <1>2, <1>3, <1>4 DEF LifecycleInv

LEMMA StutterInv ==
  ASSUME LifecycleInv, UNCHANGED vars
  PROVE  LifecycleInv'
  <1>1. /\ UNCHANGED <<enabled, relation, receipts, sessions, events, shares, locks>>
        /\ UNCHANGED <<phase, job, todo, seen, draft, outcome, told, begun, toggles, faults>>
    BY DEF vars, dbVars, lockVars, txVars, bounds
  <1>2. TypeOK' BY <1>1 DEF LifecycleInv, TypeOK
  <1>3. \A v \in Workers : Own(v)'
    <2> TAKE v \in Workers
    <2>1. Undisturbed(v) BY <1>1 DEF Undisturbed, SameWorker
    <2> QED BY <2>1, FrameOwn DEF LifecycleInv
  <1>4. Apart' BY <1>1 DEF LifecycleInv, Apart
  <1>5. Committed' BY <1>1 DEF LifecycleInv, Committed, ReceiptsKeyed, Origin, Retired, Told
  <1> QED BY <1>2, <1>3, <1>4, <1>5 DEF LifecycleInv

\* The inductive invariant: what is committed belongs together, and every
\* open transaction still finds what it has read under its locks.
THEOREM LifecycleInvariant == Spec => []LifecycleInv
  <1>1. Init => LifecycleInv BY InitInv
  <1>2. LifecycleInv /\ [Next]_vars => LifecycleInv'
    <2> SUFFICES ASSUME LifecycleInv, [Next]_vars PROVE LifecycleInv' OBVIOUS
    <2>1. CASE UNCHANGED vars BY <2>1, StutterInv
    <2>2. CASE \E w \in Workers : (\E j \in Jobs : Begin(w, j)) \/ Step(w) \/ Lose(w)
      BY <2>2, BeginInv, StepInv, LoseInv, Zenon
    <2>3. CASE \E p \in Principals, value \in BOOLEAN : SetAuthority(p, value)
      BY <2>3, SetAuthorityInv, Zenon
    <2> QED BY <2>1, <2>2, <2>3 DEF Next
  <1> QED BY <1>1, <1>2, PTL DEF Spec

\* Every variable of the lifecycle model keeps its type: in particular every
\* staged row, receipt and event is one that the commands and jobs can name.
THEOREM LifecycleTypeCorrect == Spec => []TypeOK
  <1>1. LifecycleInv => TypeOK BY DEF LifecycleInv
  <1> QED BY <1>1, LifecycleInvariant, PTL

-----------------------------------------------------------------------------
(***************************************************************************)
(* What the invariant says to the callers of the consumer.                 *)
(***************************************************************************)
LEMMA WholeNoted ==
  ASSUME LifecycleInv, NEW kind \in {"decision", "notification"}
  PROVE  {r.id : r \in receipts} = Noted(kind, "command")
  <1>1. Whole(receipts, sessions, events \ Foreign) BY DEF LifecycleInv, Committed
  <1>2. ASSUME NEW r \in receipts PROVE r.id \in Noted(kind, "command")
    <2>1. PICK e \in events \ Foreign : e.kind = kind /\ e.key.of = "command" /\ e.key.id = r.id
      BY <1>1, <1>2, WholeFacts
    <2> QED BY <2>1 DEF Noted
  <1>3. ASSUME NEW e \in events \ Foreign, e.kind = kind, e.key.of = "command"
        PROVE  e.key.id \in {r.id : r \in receipts}
    <2>1. PICK r \in receipts : r.id = e.key.id BY <1>1, <1>3, WholeFacts
    <2> QED BY <2>1
  <1> QED BY <1>2, <1>3 DEF Noted

LEMMA WholeExpiries ==
  ASSUME LifecycleInv
  PROVE  Noted("decision", "expired") = Noted("notification", "expired")
  <1>1. Whole(receipts, sessions, events \ Foreign) BY DEF LifecycleInv, Committed
  <1>2. ASSUME NEW kind \in {"decision", "notification"}, NEW e \in events \ Foreign,
               e.key.of = "expired"
        PROVE  e.key.id \in Noted(kind, "expired")
    <2> DEFINE E == events \ Foreign
    <2>1. \A g \in E, k \in {"decision", "notification"} :
            g.key.of = "expired" =>
              \E f \in E : f.kind = k /\ f.key.of = "expired" /\ f.key.id = g.key.id
      BY <1>1, Zenon DEF Whole
    <2>2. PICK f \in E : f.kind = kind /\ f.key.of = "expired" /\ f.key.id = e.key.id
      BY <1>2, <2>1
    <2> QED BY <2>2 DEF Noted
  <1>3. Noted("decision", "expired") \subseteq Noted("notification", "expired")
    BY <1>2 DEF Noted
  <1>4. Noted("notification", "expired") \subseteq Noted("decision", "expired")
    BY <1>2 DEF Noted
  <1> QED BY <1>3, <1>4

\* Whatever fails, is cancelled or loses its reply, what Consumer::apply, admit
\* and stage commit belongs together: a receipt with its audit and its
\* notification, a session with its permit, an expiry with both its events,
\* and an active assignment with the receipt for its scope; for any number of
\* transactions at once.
THEOREM CommitsAreWhole == Spec => []CommitIsWhole
  <1>1. LifecycleInv => CommitIsWhole
    <2> SUFFICES ASSUME LifecycleInv PROVE CommitIsWhole OBVIOUS
    <2>0. Whole(receipts, sessions, events \ Foreign) /\ Retired /\ Origin /\ Foreign \subseteq events
      BY DEF LifecycleInv, Committed
    <2>1. /\ {r.id : r \in receipts} = Noted("decision", "command")
          /\ {r.id : r \in receipts} = Noted("notification", "command")
      BY WholeNoted
    <2>2. sessions = {e.key.id : e \in {f \in events : f.key.of = "session" /\ Permits(f.seen)}}
      <3>1. ASSUME NEW x \in sessions
            PROVE  \E e \in events : e.key.of = "session" /\ Permits(e.seen) /\ e.key.id = x
        <4>1. PICK e \in events \ Foreign : e.key.of = "session" /\ e.key.id = x /\ Permits(e.seen)
          BY <2>0, <3>1, Zenon DEF Whole
        <4> QED BY <4>1
      <3>2. ASSUME NEW e \in events, e.key.of = "session", Permits(e.seen)
            PROVE  e.key.id \in sessions
        <4>1. e \notin Foreign BY <3>2, ForeignAssumption
        <4> QED BY <2>0, <3>2, <4>1 DEF Whole
      <3> QED BY <3>1, <3>2
    <2>3. Noted("decision", "expired") = Noted("notification", "expired") BY WholeExpiries
    <2>4. ASSUME NEW s \in Scopes, relation[s] # Nil
          PROVE  /\ relation[s].id \notin Noted("decision", "expired")
                 /\ \E r \in receipts : r.command.scope = s /\ r.assignment = relation[s].id
      <3>1. relation[s].id \notin Noted("decision", "expired")
        BY <2>0, <2>4 DEF Noted, Retired
      <3>2. \E r \in receipts : r.command.scope = s /\ r.assignment = relation[s].id
        BY <2>0, <2>4 DEF Origin, Created
      <3> QED BY <3>1, <3>2
    <2> QED BY <2>1, <2>2, <2>3, <2>4 DEF CommitIsWhole
  <1> QED BY <1>1, LifecycleInvariant, PTL

\* A command that Consumer::apply is given again never fails on its own first
\* attempt, and all answers to it name one assignment.
THEOREM RetriesAreReplayed == Spec => []RetryIsReplayed
  <1>1. LifecycleInv => RetryIsReplayed
    <2> SUFFICES ASSUME LifecycleInv PROVE RetryIsReplayed OBVIOUS
    <2>1. ASSUME NEW w \in Workers, outcome[w].is = "conflict", job[w].op \in {"apply", "renew"}
          PROVE  \/ \E r \in receipts : r.id = job[w].command.id /\ r.command # job[w].command
                 \/ \E e \in Foreign : e.key = [of |-> "command", id |-> job[w].command.id]
      BY <2>1 DEF LifecycleInv, Own, Answered, ByCommand
    <2>2. ASSUME NEW x \in told, NEW y \in told,
                 {x.outcome.is, y.outcome.is} \subseteq {"applied", "replayed"},
                 x.job.command = y.job.command
          PROVE  x.outcome.id = y.outcome.id
      <3>0. Told /\ ReceiptsKeyed BY DEF LifecycleInv, Committed
      <3>1. PICK r \in receipts : r.command = x.job.command /\ r.assignment = x.outcome.id
        BY <2>2, <3>0 DEF Told
      <3>2. PICK q \in receipts : q.command = y.job.command /\ q.assignment = y.outcome.id
        BY <2>2, <3>0 DEF Told
      <3>3. r.id = q.id BY <2>2, <3>0, <3>1, <3>2 DEF ReceiptsKeyed
      <3>4. r = q BY <3>0, <3>3 DEF ReceiptsKeyed
      <3> QED BY <3>1, <3>2, <3>4
    <2> QED BY <2>1, <2>2 DEF RetryIsReplayed
  <1> QED BY <1>1, LifecycleInvariant, PTL

\* A transaction that has gone past authenticate keeps its authority enabled
\* to its end: the FOR SHARE lock holds off every change of it.
THEOREM AuthorityIsHeld == Spec => []AuthorityHolds
  <1>1. LifecycleInv => AuthorityHolds
    <2> SUFFICES ASSUME LifecycleInv, NEW w \in Workers,
                        outcome[w].is \in {"applied", "replayed", "admitted"}
                 PROVE  enabled[Principal(job[w])]
      BY DEF AuthorityHolds
    <2>1. Conduct(w) /\ Cleared(w) BY DEF LifecycleInv, Own
    <2>2. job[w].op # "revoke" BY <2>1 DEF Conduct, ByCommand
    <2> QED BY <2>1, <2>2, Zenon DEF Cleared
  <1> QED BY <1>1, LifecycleInvariant, PTL

\* No scope of the admission policy is effectively present when an admitted
\* session is committed: what admission_facts found absent is still absent,
\* because the scope lock covers an absent row too.
THEOREM AdmissionsAreUnblocked == Spec => []AdmittedUnblocked
  <1>1. LifecycleInv => AdmittedUnblocked
    <2> SUFFICES ASSUME LifecycleInv, NEW w \in Workers, outcome[w].is = "admitted",
                        NEW i \in DOMAIN AdmissionScopes
                 PROVE  ~Effective(relation[AdmissionScopes[i]], job[w].at)
      BY DEF AdmittedUnblocked
    <2>1. todo[w] = <<>> /\ Permits(seen[w]) BY DEF LifecycleInv, Own, Conduct
    <2>2. \/ \E k \in DOMAIN todo[w] : todo[w][k] = AdmissionScopes[i]
          \/ Effective(relation[AdmissionScopes[i]], job[w].at) => AdmissionScopes[i] \in seen[w]
      BY DEF LifecycleInv, Own, Admission
    <2>3. DOMAIN todo[w] = {} BY <2>1
    <2> QED BY <2>1, <2>2, <2>3 DEF Permits
  <1> QED BY <1>1, LifecycleInvariant, PTL

=============================================================================
