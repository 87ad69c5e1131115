------------------------ MODULE RecordServiceProofs ------------------------
(***************************************************************************)
(* The record service, for any number of handlers, people, records and     *)
(* permission changes.  ServiceInv says what a handler holds at each await *)
(* while it has the write transaction.  That the list agrees with the      *)
(* reads rests on the lemmas of PolicyProofs about lowering, applied to    *)
(* the service's policy; the state of that module plays no part.           *)
(***************************************************************************)
EXTENDS RecordService, PolicyProofs, FiniteSetTheorems

-----------------------------------------------------------------------------
(***************************************************************************)
(* resolver.rs: a resolution that is fresh says what the permission row    *)
(* says now, emergency access included.                                    *)
(***************************************************************************)
LEMMA FreshIsCurrent ==
  ASSUME NEW x \in AccessRows \union {Nil}, NEW t \in Time, NEW u \in Time, Fresh(Resolution(x, t), u)
  PROVE  Resolution(x, t).facts = FactsAt(x, u)
  <1> DEFINE r == Resolution(x, t)
  <1>1. r.facts = FactsAt(x, t) /\ t <= u BY DEF Resolution, Fresh
  <1>2. CASE x = Nil BY <1>1, <1>2 DEF FactsAt
  <1>3. CASE x # Nil
    <2>1. x.emergency_until \in Time \union {Nil} BY <1>3 DEF AccessRows
    <2>2. r.fresh_until = IF Live(x, t) THEN x.emergency_until ELSE Nil BY <1>3 DEF Resolution
    <2>3. t \in Nat /\ u \in Nat /\ Time \subseteq Nat BY RequestsAssumption DEF Time
    <2>4. Live(x, t) <=> Live(x, u)
      <3>1. CASE Live(x, t) BY <1>1, <2>1, <2>2, <2>3, <3>1 DEF Live, Fresh
      <3>2. CASE ~Live(x, t)
        <4> DEFINE until == x.emergency_until
        <4>1. until = Nil \/ ~(t < until) BY <3>2 DEF Live
        <4>2. until = Nil \/ until \in Nat BY <2>1, <2>3
        <4> HIDE DEF until
        <4>3. until = Nil \/ ~(u < until) BY <1>1, <2>3, <4>1, <4>2
        <4> QED BY <3>2, <4>3 DEF Live, until
      <3> QED BY <3>1, <3>2
    <2> QED BY <1>1, <1>3, <2>4 DEF FactsAt
  <1> QED BY <1>2, <1>3

-----------------------------------------------------------------------------
(***************************************************************************)
(* The handlers.  `Holding` are the points between BEGIN IMMEDIATE and the *)
(* end of the transaction.                                                 *)
(***************************************************************************)
Holding ==
  {"resolving", "preparing", "projecting", "planning", "counting", "fetching", "enqueuing", "committing"}

Decided(w) ==
  /\ staged[w].kind = "decision" /\ staged[w].owner = w /\ staged[w].key = Asked(w)
  /\ staged[w].at \in Time
  /\ staged[w].outcome = Evaluate(ReadPolicy, FactsAt(access[Asked(w)], staged[w].at)).effect

Counted(w) ==
  /\ seen[w].observed_at \in Time
  /\ result[w] = [kind |-> "list", total |-> Cardinality(Matching(request[w], seen[w].observed_at)),
                  rows |-> result[w].rows]

Listed(w) == Counted(w) /\ result[w].rows = Page(request[w], seen[w].observed_at)

AskedStored(w) == [tenant |-> Tenant, id |-> request[w].record] \in Stored

\* What the transaction holds when it is about to commit
NotFoundReady(w) == Decided(w) /\ staged[w].outcome = Denied /\ result[w].kind = "not_found"
ViewReady(w) ==
  /\ Decided(w) /\ staged[w].outcome # Denied /\ AskedStored(w)
  /\ result[w].kind = "view" /\ result[w].fields = Fields(staged[w].outcome)
ListReady(w) ==
  /\ Listed(w)
  /\ staged[w].kind = "list" /\ staged[w].owner = w /\ staged[w].at \in Time
  /\ staged[w].person = request[w].person /\ staged[w].rows = result[w].rows

\* The event tells what the answer shows
Tells(e, w) ==
  /\ e.owner = w
  /\ answer[w].body.kind = "view" =>
       /\ e.kind = "decision" /\ e.key = Asked(w) /\ e.outcome \in Access
       /\ answer[w].body.fields = Fields(e.outcome)
  /\ answer[w].body.kind = "not_found" =>
       e.kind = "decision" /\ e.key = Asked(w) /\ e.outcome = Denied
  /\ answer[w].body.kind = "list" =>
       e.kind = "list" /\ e.person = request[w].person /\ e.rows = answer[w].body.rows

InTransaction(w) ==
  /\ pc[w] \in Holding => fence = w
  /\ pc[w] # "idle" => request[w] \in Requests
  /\ pc[w] \in {"resolving", "preparing", "projecting"} => request[w].op = "read"
  /\ pc[w] = "preparing" => \E t \in Time : seen[w] = Resolution(access[Asked(w)], t)
  /\ pc[w] = "projecting" => Decided(w) /\ staged[w].outcome # Denied
  /\ pc[w] = "counting" => seen[w].observed_at \in Time
  /\ pc[w] = "fetching" => Counted(w)
  /\ pc[w] = "enqueuing" => Listed(w)
  /\ pc[w] = "committing" => NotFoundReady(w) \/ ViewReady(w) \/ ListReady(w)

Answered(w) ==
  /\ pc[w] # "done" => answer[w] = NoAnswer
  /\ answer[w].status \in {200, 404} => \E e \in durable : Tells(e, w)

Lasting(e) ==
  /\ e.owner \in Workers /\ pc[e.owner] = "done" /\ e.at \in Time
  /\ e.kind = "decision" /\ e.outcome # Denied => [tenant |-> Tenant, id |-> e.key.record] \in Stored

Points ==
  {"idle", "beginning", "resolving", "preparing", "projecting", "planning",
   "counting", "fetching", "enqueuing", "committing", "done"}

Tables ==
  /\ now \in Time
  /\ access \in [Keys -> AccessRows \union {Nil}]
  /\ fence \in Workers \union {Nil}
  /\ pc \in [Workers -> Points]
  /\ DOMAIN request = Workers /\ DOMAIN seen = Workers /\ DOMAIN staged = Workers
  /\ DOMAIN result = Workers /\ DOMAIN answer = Workers

ServiceInv ==
  /\ Tables
  /\ \A w \in Workers : InTransaction(w) /\ Answered(w)
  /\ \A e \in durable : Lasting(e)

-----------------------------------------------------------------------------
(***************************************************************************)
(* What a step leaves alone.                                               *)
(***************************************************************************)
LEMMA SameRows ==
  ASSUME access' = access, NEW q, NEW t
  PROVE  Matching(q, t)' = Matching(q, t) /\ Page(q, t)' = Page(q, t)
  <1>1. \A s : JoinedRow(s, q, t)' = JoinedRow(s, q, t) BY DEF JoinedRow, Joined
  <1>2. \A s : PlanOn(s, q, t)' = PlanOn(s, q, t) BY <1>1 DEF PlanOn
  <1>3. Matching(q, t)' = Matching(q, t) BY <1>2 DEF Matching
  <1>4. Page(q, t)' = Page(q, t) BY <1>2, <1>3 DEF Page
  <1> QED BY <1>3, <1>4

Unmoved(v) ==
  /\ pc'[v] = pc[v] /\ request'[v] = request[v] /\ seen'[v] = seen[v]
  /\ staged'[v] = staged[v] /\ result'[v] = result[v] /\ answer'[v] = answer[v]

LEMMA SameTold ==
  ASSUME NEW v, request'[v] = request[v], answer'[v] = answer[v], NEW e
  PROVE  Tells(e, v)' <=> Tells(e, v)
  BY DEF Tells, Asked, KeyOf

LEMMA SameAnswers ==
  ASSUME NEW v, Answered(v), pc'[v] = pc[v], request'[v] = request[v], answer'[v] = answer[v],
         durable \subseteq durable'
  PROVE  Answered(v)'
  BY SameTold DEF Answered

LEMMA SameTransaction ==
  ASSUME NEW v, InTransaction(v), Unmoved(v), access' = access,
         pc[v] \in Holding => fence' = v
  PROVE  InTransaction(v)'
  <1>1. Asked(v)' = Asked(v) BY DEF Asked, KeyOf, Unmoved
  <1>2. Decided(v)' <=> Decided(v) BY <1>1 DEF Decided, Unmoved
  <1>3. \A t : /\ Matching(request[v], t)' = Matching(request[v], t)
               /\ Page(request[v], t)' = Page(request[v], t)
    <2> SUFFICES ASSUME NEW t
                 PROVE  /\ Matching(request[v], t)' = Matching(request[v], t)
                        /\ Page(request[v], t)' = Page(request[v], t)
      OBVIOUS
    <2> QED BY SameRows DEF Unmoved
  <1>4. Counted(v)' <=> Counted(v) BY <1>3 DEF Counted, Unmoved
  <1>5. Listed(v)' <=> Listed(v) BY <1>3, <1>4 DEF Listed, Counted, Unmoved
  <1>6. NotFoundReady(v)' <=> NotFoundReady(v) BY <1>2 DEF NotFoundReady, Unmoved
  <1>7. ViewReady(v)' <=> ViewReady(v) BY <1>2 DEF ViewReady, AskedStored, Unmoved
  <1>8. ListReady(v)' <=> ListReady(v) BY <1>5 DEF ListReady, Unmoved
  <1> QED BY <1>1, <1>2, <1>4, <1>5, <1>6, <1>7, <1>8 DEF InTransaction, Unmoved

\* A step of one handler: the others hold nothing that it could disturb.
LEMMA HandlerStep ==
  ASSUME ServiceInv, NEW w \in Workers, pc[w] # "done", Tables', access' = access, durable \subseteq durable',
         \A v \in Workers \ {w} : Unmoved(v),
         fence' = fence \/ fence = w \/ fence = Nil,
         InTransaction(w)', Answered(w)',
         \A e \in durable' : e \in durable \/ Lasting(e)'
  PROVE  ServiceInv'
  <1>1. ASSUME NEW v \in Workers PROVE InTransaction(v)' /\ Answered(v)'
    <2>1. CASE v = w BY <2>1
    <2>2. CASE v # w
      <3>1. InTransaction(v) /\ Answered(v) /\ Unmoved(v) BY <2>2 DEF ServiceInv
      <3>2. pc[v] \in Holding => fence' = v
        BY <2>2, <3>1, RequestsAssumption DEF InTransaction
      <3>3. InTransaction(v)' BY <3>1, <3>2, SameTransaction
      <3>4. Answered(v)' BY <3>1, SameAnswers DEF Unmoved
      <3> QED BY <3>3, <3>4
    <2> QED BY <2>1, <2>2
  <1>2. ASSUME NEW e \in durable' PROVE Lasting(e)'
    <2>1. CASE e \in durable
      <3>1. Lasting(e) BY <2>1 DEF ServiceInv
      <3>2. e.owner \in Workers /\ e.owner # w BY <3>1 DEF Lasting
      <3>3. Unmoved(e.owner) BY <3>2
      <3> QED BY <3>1, <3>3 DEF Lasting, Unmoved
    <2> QED BY <1>2, <2>1
  <1> QED BY <1>1, <1>2 DEF ServiceInv

\* The point a handler is at tells it apart from the others.
LEMMA AtPoint ==
  ASSUME ServiceInv, NEW w \in Workers
  PROVE  Tables /\ InTransaction(w) /\ Answered(w)
  BY DEF ServiceInv

LEMMA ArriveInv ==
  ASSUME ServiceInv, NEW w \in Workers, NEW q \in Requests, Arrive(w, q)
  PROVE  ServiceInv'
  <1>1. Tables /\ Answered(w) BY AtPoint
  <1>2. Tables' BY <1>1 DEF Tables, Arrive, Goto, Points
  <1>3. \A v \in Workers \ {w} : Unmoved(v) BY <1>1 DEF Tables, Arrive, Goto, Unmoved
  <1>4. pc[w] = "idle" /\ pc'[w] = "beginning" /\ request'[w] = q /\ answer'[w] = answer[w]
    BY <1>1 DEF Tables, Arrive, Goto
  <1>5. InTransaction(w)' BY <1>4 DEF InTransaction, Holding
  <1>6. answer[w] = NoAnswer BY <1>1, <1>4 DEF Answered
  <1>7. Answered(w)' BY <1>4, <1>6 DEF Answered, NoAnswer, Answer
  <1> QED BY <1>2, <1>3, <1>4, <1>5, <1>7, HandlerStep DEF Arrive

\* A step inside the handler that answers nothing and writes nothing durable
Inside(w) ==
  /\ pc[w] \notin {"idle", "done"} /\ pc'[w] # "done"
  /\ Tables' /\ access' = access /\ durable' = durable
  /\ request' = request /\ answer' = answer
  /\ \A v \in Workers \ {w} : Unmoved(v)

LEMMA InsideInv ==
  ASSUME ServiceInv, NEW w \in Workers, Inside(w), fence' = fence \/ fence = w \/ fence = Nil, InTransaction(w)'
  PROVE  ServiceInv'
  <1>1. Answered(w) /\ pc[w] # "done" BY AtPoint DEF Inside
  <1>2. answer'[w] = NoAnswer BY <1>1 DEF Answered, Inside
  <1>3. Answered(w)' BY <1>2 DEF Answered, NoAnswer, Answer
  <1> QED BY <1>1, <1>3, HandlerStep DEF Inside

LEMMA BeginInv ==
  ASSUME ServiceInv, NEW w \in Workers, Begin(w)
  PROVE  ServiceInv'
  <1>1. Tables /\ InTransaction(w) BY AtPoint
  <1>2. Tables' BY <1>1 DEF Tables, Begin, Goto, Points
  <1>3. Inside(w) BY <1>1, <1>2 DEF Tables, Begin, Goto, Unmoved, Inside
  <1>4. /\ fence = Nil /\ fence' = w /\ request'[w] = request[w] /\ request[w] \in Requests
        /\ \/ pc'[w] = "resolving" /\ request[w].op = "read"
           \/ pc'[w] = "planning"
    BY <1>1 DEF Tables, Begin, Goto, InTransaction
  <1>5. InTransaction(w)' BY <1>4 DEF InTransaction
  <1> QED BY <1>3, <1>4, <1>5, InsideInv

LEMMA ResolveInv ==
  ASSUME ServiceInv, NEW w \in Workers, Resolve(w)
  PROVE  ServiceInv'
  <1>1. Tables /\ InTransaction(w) BY AtPoint
  <1>2. Tables' BY <1>1 DEF Tables, Resolve, Goto, Points
  <1>3. Inside(w) BY <1>1, <1>2 DEF Tables, Resolve, Goto, Unmoved, Inside
  <1>4. /\ fence' = w /\ request'[w] = request[w] /\ request[w] \in Requests /\ request[w].op = "read"
        /\ fence' = fence
        /\ pc'[w] = "preparing" /\ seen'[w] = Resolution(access[Asked(w)], now)
    BY <1>1 DEF Tables, Resolve, Goto, InTransaction, Holding
  <1>5. Asked(w)' = Asked(w) /\ access' = access BY <1>3 DEF Asked, KeyOf, Inside
  <1>6. now \in Time BY <1>1 DEF Tables
  <1>7. \E t \in Time : seen'[w] = Resolution(access'[Asked(w)'], t) BY <1>4, <1>5, <1>6
  <1>8. InTransaction(w)' BY <1>4, <1>7 DEF InTransaction
  <1> QED BY <1>3, <1>4, <1>8, InsideInv

LEMMA AskedKey ==
  ASSUME ServiceInv, NEW w \in Workers, request[w] \in Requests, request[w].op = "read"
  PROVE  Asked(w) \in Keys /\ access[Asked(w)] \in AccessRows \union {Nil}
  <1>1. Asked(w) \in Keys BY RequestsAssumption, TenantAssumption DEF Asked, KeyOf, Keys
  <1>2. access \in [Keys -> AccessRows \union {Nil}] BY DEF ServiceInv, Tables
  <1> QED BY <1>1, <1>2

LEMMA PrepareAndAuditInv ==
  ASSUME ServiceInv, NEW w \in Workers, PrepareAndAudit(w)
  PROVE  ServiceInv'
  <1> DEFINE d == Evaluate(ReadPolicy, seen[w].facts)
             e == [kind |-> "decision", owner |-> w, key |-> Asked(w), outcome |-> d.effect, at |-> now]
  <1>1. Tables /\ InTransaction(w) BY AtPoint
  <1>2. /\ pc[w] = "preparing" /\ Fresh(seen[w], now)
        /\ staged' = [staged EXCEPT ![w] = e]
        /\ Goto(w, IF IsPermit(d) THEN "projecting" ELSE "committing")
        /\ result' = [result EXCEPT ![w] = [kind |-> "not_found"]]
        /\ UNCHANGED <<now, access, fence, request, seen, answer, durable, changes, faults>>
    BY DEF PrepareAndAudit
  <1> HIDE DEF d
  <1>3. Tables' BY <1>1, <1>2 DEF Tables, Goto, Points
  <1>4. Inside(w) BY <1>1, <1>2, <1>3 DEF Tables, Goto, Unmoved, Inside
  <1>5. /\ fence' = w /\ fence' = fence /\ request'[w] = request[w] /\ request[w] \in Requests
        /\ request[w].op = "read" /\ staged'[w] = e /\ result'[w].kind = "not_found"
    BY <1>1, <1>2 DEF Tables, InTransaction, Holding
  <1>6. PICK t \in Time : seen[w] = Resolution(access[Asked(w)], t) BY <1>1, <1>2 DEF InTransaction
  <1>7. seen[w].facts = FactsAt(access[Asked(w)], now)
    <2>1. access[Asked(w)] \in AccessRows \union {Nil} BY <1>5, AskedKey
    <2>2. now \in Time BY <1>1 DEF Tables
    <2> QED BY <1>2, <1>6, <2>1, <2>2, FreshIsCurrent
  <1>8. Asked(w)' = Asked(w) /\ access' = access /\ now \in Time BY <1>1, <1>4 DEF Asked, KeyOf, Inside, Tables
  <1>9. Decided(w)' BY <1>5, <1>7, <1>8 DEF Decided, d
  <1>10. staged'[w].outcome = d.effect BY <1>5
  <1>11. CASE IsPermit(d)
    <2>1. pc'[w] = "projecting" BY <1>1, <1>2, <1>11 DEF Goto, Tables
    <2>2. InTransaction(w)' BY <1>5, <1>9, <1>10, <1>11, <2>1 DEF InTransaction, IsPermit
    <2> QED BY <1>4, <1>5, <2>2, InsideInv
  <1>12. CASE ~IsPermit(d)
    <2>1. pc'[w] = "committing" BY <1>1, <1>2, <1>12 DEF Goto, Tables
    <2>2. NotFoundReady(w)' BY <1>5, <1>9, <1>10, <1>12 DEF NotFoundReady, IsPermit
    <2>3. InTransaction(w)' BY <1>5, <2>1, <2>2 DEF InTransaction
    <2> QED BY <1>4, <1>5, <2>3, InsideInv
  <1> QED BY <1>11, <1>12

LEMMA ProjectInv ==
  ASSUME ServiceInv, NEW w \in Workers, Project(w)
  PROVE  ServiceInv'
  <1>1. Tables /\ InTransaction(w) BY AtPoint
  <1>2. Tables' BY <1>1 DEF Tables, Project, Goto, Points
  <1>3. Inside(w) BY <1>1, <1>2 DEF Tables, Project, Goto, Unmoved, Inside
  <1>4. /\ fence' = w /\ fence' = fence /\ request'[w] = request[w] /\ request[w] \in Requests
        /\ staged'[w] = staged[w] /\ pc'[w] = "committing" /\ AskedStored(w)
        /\ result'[w].kind = "view" /\ result'[w].fields = Fields(staged[w].outcome)
        /\ Decided(w) /\ staged[w].outcome # Denied
    BY <1>1 DEF Tables, Project, Goto, InTransaction, Holding, AskedStored
  <1>5. Asked(w)' = Asked(w) /\ access' = access BY <1>3 DEF Asked, KeyOf, Inside
  <1>6. Decided(w)' BY <1>4, <1>5 DEF Decided
  <1>7. ViewReady(w)' BY <1>4, <1>6 DEF ViewReady, AskedStored
  <1>8. InTransaction(w)' BY <1>4, <1>7 DEF InTransaction
  <1> QED BY <1>3, <1>4, <1>8, InsideInv

LEMMA PlanListInv ==
  ASSUME ServiceInv, NEW w \in Workers, PlanList(w)
  PROVE  ServiceInv'
  <1>1. Tables /\ InTransaction(w) BY AtPoint
  <1>2. Tables' BY <1>1 DEF Tables, PlanList, Goto, Points
  <1>3. Inside(w) BY <1>1, <1>2 DEF Tables, PlanList, Goto, Unmoved, Inside
  <1>4. /\ fence' = w /\ fence' = fence /\ request'[w] = request[w] /\ request[w] \in Requests
        /\ pc'[w] = "counting" /\ seen'[w].observed_at \in Time
    BY <1>1 DEF Tables, PlanList, Goto, InTransaction, Holding
  <1>5. InTransaction(w)' BY <1>4 DEF InTransaction
  <1> QED BY <1>3, <1>4, <1>5, InsideInv

LEMMA CountInv ==
  ASSUME ServiceInv, NEW w \in Workers, Count(w)
  PROVE  ServiceInv'
  <1>1. Tables /\ InTransaction(w) BY AtPoint
  <1>2. Tables' BY <1>1 DEF Tables, Count, Goto, Points
  <1>3. Inside(w) BY <1>1, <1>2 DEF Tables, Count, Goto, Unmoved, Inside
  <1>4. /\ fence' = w /\ fence' = fence /\ request'[w] = request[w] /\ request[w] \in Requests
        /\ pc'[w] = "fetching" /\ seen'[w] = seen[w] /\ seen[w].observed_at \in Time
        /\ result'[w] = [kind |-> "list", total |-> Cardinality(Matching(request[w], seen[w].observed_at)),
                         rows |-> <<>>]
    BY <1>1 DEF Tables, Count, Goto, InTransaction, Holding
  <1>5. access' = access BY <1>3 DEF Inside
  <1>6. \A q, t : Matching(q, t)' = Matching(q, t) BY <1>5, SameRows
  <1>7. Counted(w)' BY <1>4, <1>6 DEF Counted
  <1>8. InTransaction(w)' BY <1>4, <1>7 DEF InTransaction
  <1> QED BY <1>3, <1>4, <1>8, InsideInv

LEMMA FetchInv ==
  ASSUME ServiceInv, NEW w \in Workers, Fetch(w)
  PROVE  ServiceInv'
  <1>1. Tables /\ InTransaction(w) BY AtPoint
  <1>2. Tables' BY <1>1 DEF Tables, Fetch, Goto, Points
  <1>3. Inside(w) BY <1>1, <1>2 DEF Tables, Fetch, Goto, Unmoved, Inside
  <1>4. /\ fence' = w /\ fence' = fence /\ request'[w] = request[w] /\ request[w] \in Requests
        /\ pc'[w] = "enqueuing" /\ seen'[w] = seen[w] /\ Counted(w)
        /\ result'[w] = [result[w] EXCEPT !.rows = Page(request[w], seen[w].observed_at)]
    BY <1>1 DEF Tables, Fetch, Goto, InTransaction, Holding
  <1>5. access' = access BY <1>3 DEF Inside
  <1>6. \A q, t : Matching(q, t)' = Matching(q, t) /\ Page(q, t)' = Page(q, t) BY <1>5, SameRows
  <1>7. Listed(w)' BY <1>4, <1>6 DEF Counted, Listed
  <1>8. InTransaction(w)' BY <1>4, <1>7 DEF InTransaction
  <1> QED BY <1>3, <1>4, <1>8, InsideInv

LEMMA EnqueueListInv ==
  ASSUME ServiceInv, NEW w \in Workers, EnqueueList(w)
  PROVE  ServiceInv'
  <1>1. Tables /\ InTransaction(w) BY AtPoint
  <1>2. Tables' BY <1>1 DEF Tables, EnqueueList, Goto, Points
  <1>3. Inside(w) BY <1>1, <1>2 DEF Tables, EnqueueList, Goto, Unmoved, Inside
  <1>4. /\ fence' = w /\ fence' = fence /\ request'[w] = request[w] /\ request[w] \in Requests
        /\ pc'[w] = "committing" /\ seen'[w] = seen[w] /\ result'[w] = result[w] /\ Listed(w)
        /\ staged'[w] = [kind |-> "list", owner |-> w, person |-> request[w].person,
                         rows |-> result[w].rows, at |-> seen[w].observed_at]
    BY <1>1 DEF Tables, EnqueueList, Goto, InTransaction, Holding
  <1>5. access' = access BY <1>3 DEF Inside
  <1>6. \A q, t : Matching(q, t)' = Matching(q, t) /\ Page(q, t)' = Page(q, t) BY <1>5, SameRows
  <1>7. Listed(w)' BY <1>4, <1>6 DEF Counted, Listed
  <1>8. ListReady(w)' BY <1>4, <1>7 DEF ListReady, Listed, Counted
  <1>9. InTransaction(w)' BY <1>4, <1>8 DEF InTransaction
  <1> QED BY <1>3, <1>4, <1>9, InsideInv

-----------------------------------------------------------------------------
(***************************************************************************)
(* policy.rs: the read policy is one, and grants an Access.                *)
(***************************************************************************)
LEMMA ClauseIsNode ==
  ASSUME NEW o \in Access, NEW f \in RecordFacts, NEW n
  PROVE  IsPolicyNode(Clause(o, f), n)
  <1> DEFINE c == <<Has(f)>>
  <1>1. Len(c) = 1 /\ DOMAIN c = 1 .. 1 /\ c[1] = Has(f) OBVIOUS
  <1>2. IsConditionNode(Has(f), 1) BY RecordPolicyAssumption DEF IsConditionNode, Has
  <1> HIDE DEF c
  <1>3. IsCondition(c) BY <1>1, <1>2 DEF IsCondition
  <1>4. Clause(o, f) = Grant(o, c, {}, NoLabel) BY DEF Clause, c
  <1> QED BY <1>3, <1>4, RecordPolicyAssumption, LabelAssumption DEF Grant, IsPolicyNode

LEMMA ReadPolicyNodes ==
  /\ Len(ReadPolicy) = 8 /\ DOMAIN ReadPolicy = 1 .. 8
  /\ ReadPolicy[1] = Clause("full", "owner") /\ ReadPolicy[2] = Clause("shared", "shared")
  /\ ReadPolicy[3] = Clause("released", "released") /\ ReadPolicy[4] = AnyOf(<<1, 2, 3>>)
  /\ ReadPolicy[5] = Clause("full", "emergency") /\ ReadPolicy[6] = OrElse(4, 5)
  /\ ReadPolicy[7] = Clause("full", "enabled") /\ ReadPolicy[8] = AllOf(<<7, 6>>)
  BY DEF ReadPolicy

LEMMA ReadPolicyIsPolicy == IsPolicy(ReadPolicy)
  <1>1. \A n \in {1, 2, 3, 5, 7} : IsPolicyNode(ReadPolicy[n], n)
    BY ReadPolicyNodes, ClauseIsNode DEF Access, RecordFacts
  <1>2. IsPolicyNode(ReadPolicy[4], 4)
    <2>1. ArmsBefore(<<1, 2, 3>>, 4) BY DEF ArmsBefore, Before
    <2> QED BY <2>1, ReadPolicyNodes DEF IsPolicyNode, AnyOf
  <1>3. IsPolicyNode(ReadPolicy[6], 6) BY ReadPolicyNodes DEF IsPolicyNode, OrElse, Before
  <1>4. IsPolicyNode(ReadPolicy[8], 8)
    <2>1. ArmsBefore(<<7, 6>>, 8) BY DEF ArmsBefore, Before
    <2> QED BY <2>1, ReadPolicyNodes DEF IsPolicyNode, AllOf
  <1>5. \A n \in 1 .. 8 : n \in {1, 2, 3, 5, 7} \/ n = 4 \/ n = 6 \/ n = 8 OBVIOUS
  <1>6. \A n \in 1 .. 8 : IsPolicyNode(ReadPolicy[n], n) BY <1>1, <1>2, <1>3, <1>4, <1>5
  <1> QED BY <1>6, ReadPolicyNodes DEF IsPolicy

LEMMA ReadOutcome ==
  ASSUME NEW S
  PROVE  Evaluate(ReadPolicy, S).effect \in Access \union {Denied}
  <1> DEFINE N == Len(ReadPolicy)
             v == EvalTable(ReadPolicy, S)
  <1>1. IsTree(ReadPolicy) /\ N \in 1 .. N BY ReadPolicyIsPolicy, PolicyIsTree, TreePositions
  <1>2. v \in [1 .. N -> Auditable] BY <1>1, EvalTableRec
  <1>3. Evaluate(ReadPolicy, S) = v[N] BY DEF Evaluate, Root
  <1> HIDE DEF v, N
  <1>4. v[N] \in Auditable BY <1>1, <1>2
  <1> QED BY <1>3, <1>4, Auditing, RecordPolicyAssumption

-----------------------------------------------------------------------------
(***************************************************************************)
(* The ends of a handler.                                                  *)
(***************************************************************************)
LEMMA StagedLasts ==
  ASSUME ServiceInv, NEW w \in Workers, pc[w] = "committing", pc'[w] = "done", NEW e, e = staged[w]
  PROVE  Lasting(e)'
  <1>1. NotFoundReady(w) \/ ViewReady(w) \/ ListReady(w) BY AtPoint DEF InTransaction
  <1>2. CASE NotFoundReady(w) BY <1>2 DEF NotFoundReady, Decided, Lasting
  <1>3. CASE ViewReady(w)
    <2>1. staged[w].key.record = request[w].record BY <1>3 DEF ViewReady, Decided, Asked, KeyOf
    <2> QED BY <1>3, <2>1 DEF ViewReady, Decided, AskedStored, Lasting
  <1>4. CASE ListReady(w) BY <1>4 DEF ListReady, Lasting
  <1> QED BY <1>1, <1>2, <1>3, <1>4

LEMMA ReturnInv ==
  ASSUME ServiceInv, NEW w \in Workers, pc[w] \notin {"idle", "done"}, NEW a, Return(w, a), Undecided(w),
         a.status \in {200, 404} => \E e \in durable' : Tells(e, w)'
  PROVE  ServiceInv'
  <1>1. Tables /\ InTransaction(w) BY AtPoint
  <1>2. Tables' BY <1>1 DEF Tables, Return, Goto, Points
  <1>3. \A v \in Workers \ {w} : Unmoved(v) BY <1>1 DEF Tables, Return, Goto, Unmoved
  <1>4. /\ pc'[w] = "done" /\ answer'[w] = a /\ access' = access /\ request'[w] = request[w]
        /\ fence' = fence \/ fence = w
    BY <1>1 DEF Tables, Return, Goto
  <1>5. request[w] \in Requests BY <1>1 DEF InTransaction
  <1>6. InTransaction(w)' BY <1>4, <1>5 DEF InTransaction, Holding
  <1>7. Answered(w)' BY <1>4 DEF Answered
  <1>8. durable \subseteq durable' BY DEF Undecided
  <1>9. ASSUME NEW e \in durable' PROVE e \in durable \/ Lasting(e)'
    <2>1. e \in durable \/ (e = staged[w] /\ pc[w] = "committing") BY DEF Undecided
    <2> QED BY <1>4, <2>1, StagedLasts
  <1> QED BY <1>2, <1>3, <1>4, <1>6, <1>7, <1>8, <1>9, HandlerStep

LEMMA AbortInv ==
  ASSUME ServiceInv, NEW w \in Workers, pc[w] \notin {"idle", "done"}, Abort(w)
  PROVE  ServiceInv'
  <1> DEFINE a == Answer(500, Nil)
  <1>1. Return(w, a) /\ Undecided(w) BY DEF Abort, Undecided
  <1>2. a.status \notin {200, 404} BY DEF Answer
  <1> HIDE DEF a
  <1> QED BY <1>1, <1>2, ReturnInv

LEMMA FailsInv ==
  ASSUME ServiceInv, NEW w \in Workers, Fails(w) \/ Drop(w)
  PROVE  ServiceInv'
  <1>1. PICK a \in {Answer(500, Nil), NoAnswer} : Return(w, a) BY DEF Fails, Drop
  <1>2. pc[w] \notin {"idle", "done"} /\ Undecided(w) BY DEF Fails, Drop
  <1>3. a.status \notin {200, 404} BY <1>1 DEF Answer, NoAnswer
  <1> QED BY <1>1, <1>2, <1>3, ReturnInv

LEMMA CommitTells ==
  ASSUME ServiceInv, NEW w \in Workers, Commit(w)
  PROVE  Tells(staged[w], w)'
  <1>1. Tables /\ InTransaction(w) BY AtPoint
  <1>2. /\ answer'[w].body = result[w] /\ request'[w] = request[w] /\ staged'[w] = staged[w]
        /\ pc[w] = "committing"
    BY <1>1 DEF Tables, Commit, Return, Answer
  <1>3. Asked(w)' = Asked(w) BY <1>2 DEF Asked, KeyOf
  <1>4. NotFoundReady(w) \/ ViewReady(w) \/ ListReady(w) BY <1>1, <1>2 DEF InTransaction
  <1>5. CASE NotFoundReady(w) BY <1>2, <1>3, <1>5 DEF NotFoundReady, Decided, Tells
  <1>6. CASE ViewReady(w)
    <2>1. staged[w].outcome \in Access BY <1>6, ReadOutcome DEF ViewReady, Decided
    <2> QED BY <1>2, <1>3, <1>6, <2>1 DEF ViewReady, Decided, Tells
  <1>7. CASE ListReady(w) BY <1>2, <1>3, <1>7 DEF ListReady, Listed, Counted, Tells
  <1> QED BY <1>4, <1>5, <1>6, <1>7

LEMMA CommitInv ==
  ASSUME ServiceInv, NEW w \in Workers, Commit(w)
  PROVE  ServiceInv'
  <1> DEFINE a == Answer(IF result[w].kind = "not_found" THEN 404 ELSE 200, result[w])
  <1>1. /\ pc[w] = "committing" /\ Return(w, a) /\ Undecided(w) /\ staged' = staged
        /\ staged[w] \in durable'
    BY DEF Commit, Undecided, Return
  <1>2. Tells(staged[w], w)' BY CommitTells
  <1>3. \E e \in durable' : Tells(e, w)' BY <1>1, <1>2
  <1> HIDE DEF a
  <1> QED BY <1>1, <1>3, ReturnInv

LEMMA ChangeInv ==
  ASSUME ServiceInv, NEW k \in Keys, NEW x \in Changes, Change(k, x)
  PROVE  ServiceInv'
  <1>1. Tables' BY TablesAssumption DEF ServiceInv, Tables, Change, workVars
  <1>2. \A w \in Workers : pc[w] \notin Holding
    BY RequestsAssumption DEF ServiceInv, InTransaction, Change
  <1>3. ASSUME NEW w \in Workers PROVE InTransaction(w)' /\ Answered(w)'
    <2>1. InTransaction(w) /\ Answered(w) BY DEF ServiceInv
    <2>2. Unmoved(w) /\ durable' = durable BY DEF Change, workVars, Unmoved
    <2>3. InTransaction(w)' BY <1>2, <2>1, <2>2 DEF InTransaction, Unmoved, Holding
    <2>4. Answered(w)' BY <2>1, <2>2, SameAnswers DEF Unmoved
    <2> QED BY <2>3, <2>4
  <1>4. \A e \in durable' : Lasting(e)' BY DEF ServiceInv, Lasting, Change, workVars
  <1> QED BY <1>1, <1>3, <1>4 DEF ServiceInv

\* Nothing but the clock moves.
LEMMA ClockInv ==
  ASSUME ServiceInv, now' \in Time, UNCHANGED <<access, fence, workVars, durable>>
  PROVE  ServiceInv'
  <1>1. Tables' BY DEF ServiceInv, Tables, workVars
  <1>2. ASSUME NEW w \in Workers PROVE InTransaction(w)' /\ Answered(w)'
    <2>1. InTransaction(w) /\ Answered(w) BY DEF ServiceInv
    <2>2. Unmoved(w) BY DEF workVars, Unmoved
    <2>3. pc[w] \in Holding => fence' = w BY <2>1 DEF InTransaction
    <2> QED BY <2>1, <2>2, <2>3, SameTransaction, SameAnswers DEF Unmoved
  <1>3. \A e \in durable' : Lasting(e)' BY DEF ServiceInv, Lasting, workVars
  <1> QED BY <1>1, <1>2, <1>3 DEF ServiceInv

LEMMA ServiceInvInitially == Init => ServiceInv
  <1> SUFFICES ASSUME Init PROVE ServiceInv OBVIOUS
  <1>1. Tables BY RequestsAssumption, TablesAssumption DEF Init, Tables, Points, Time
  <1>2. ASSUME NEW w \in Workers PROVE InTransaction(w) /\ Answered(w)
    <2>1. pc[w] = "idle" /\ answer[w] = NoAnswer BY DEF Init
    <2> QED BY <2>1 DEF InTransaction, Answered, Holding, NoAnswer, Answer
  <1> QED BY <1>1, <1>2 DEF ServiceInv, Init

LEMMA ServiceInvInductive == ServiceInv /\ [Next]_vars => ServiceInv'
  <1>1. ASSUME ServiceInv, NEW w \in Workers, Step(w) PROVE ServiceInv'
    <2>1. ASSUME PrepareStale(w) PROVE ServiceInv' BY <1>1, <2>1, AbortInv DEF PrepareStale
    <2>2. ASSUME ProjectMissing(w) PROVE ServiceInv' BY <1>1, <2>2, AbortInv DEF ProjectMissing
    <2> QED
      BY <1>1, <2>1, <2>2, BeginInv, ResolveInv, PrepareAndAuditInv, ProjectInv, PlanListInv, CountInv,
         FetchInv, EnqueueListInv, CommitInv
      DEF Step
  <1>2. ASSUME ServiceInv, NEW t \in Time, ClockStep(t) PROVE ServiceInv'
    BY <1>2, ClockInv DEF ClockStep
  <1>3. ASSUME ServiceInv, UNCHANGED vars PROVE ServiceInv'
    <2>1. now' \in Time BY <1>3 DEF ServiceInv, Tables, vars
    <2> QED BY <1>3, <2>1, ClockInv DEF vars
  <1> QED BY <1>1, <1>2, <1>3, ArriveInv, FailsInv, ChangeInv DEF Next

\* From BEGIN IMMEDIATE to its end a handler's transaction holds the write
\* lock, what it has resolved, decided or fetched is what the tables still
\* say, and every durable event is of a handler that ended.
THEOREM ServiceInvHolds == Spec => []ServiceInv
  BY ServiceInvInitially, ServiceInvInductive, PTL DEF Spec

\* While a read is between its decision and its commit, the permission row
\* still gives that decision at the time it was judged: for any tables,
\* requests, changes and any number of handlers.
THEOREM PermissionIsFencedHolds == Spec => []PermissionIsFenced
  <1>1. ServiceInv => PermissionIsFenced
    <2> SUFFICES ASSUME ServiceInv, NEW w \in Workers, pc[w] \in {"projecting", "committing"},
                        staged[w].kind = "decision"
                 PROVE  staged[w].outcome =
                          Evaluate(ReadPolicy, FactsAt(access[staged[w].key], staged[w].at)).effect
      BY DEF PermissionIsFenced
    <2>1. InTransaction(w) BY AtPoint
    <2>2. Decided(w) BY <2>1 DEF InTransaction, NotFoundReady, ViewReady, ListReady
    <2> QED BY <2>2 DEF Decided
  <1> QED BY <1>1, ServiceInvHolds, PTL

\* Nothing is shown that is not durable, and nothing is durable that was
\* abandoned, whatever fails, is dropped or changes meanwhile.
THEOREM AnswersMatchAuditHolds == Spec => []AnswersMatchAudit
  <1>1. \A o \in Access : /\ "shared_notes" \in Fields(o) => o \in {"shared", "full"}
                          /\ "private_notes" \in Fields(o) => o = "full"
    <2>1. Rank("released") = 0 /\ Rank("shared") = 1 /\ Rank("full") = 2 BY Zenon DEF Rank
    <2> QED BY <2>1 DEF Access, Fields
  <1>2. ServiceInv => AnswersMatchAudit
    <2> SUFFICES ASSUME ServiceInv PROVE AnswersMatchAudit OBVIOUS
    <2>1. ShownIsDurable
      <3> SUFFICES ASSUME NEW w \in Workers, answer[w].status \in {200, 404}
                   PROVE  \E e \in durable :
                            /\ e.owner = w
                            /\ answer[w].body.kind = "view" =>
                                 /\ e.kind = "decision" /\ e.key = Asked(w)
                                 /\ "shared_notes" \in answer[w].body.fields => e.outcome \in {"shared", "full"}
                                 /\ "private_notes" \in answer[w].body.fields => e.outcome = "full"
                            /\ answer[w].body.kind = "not_found" =>
                                 e.kind = "decision" /\ e.key = Asked(w) /\ e.outcome = Denied
                            /\ answer[w].body.kind = "list" =>
                                 e.kind = "list" /\ e.person = request[w].person /\ e.rows = answer[w].body.rows
        BY DEF ShownIsDurable
      <3>1. PICK e \in durable : Tells(e, w) BY DEF ServiceInv, Answered
      <3> QED BY <1>1, <3>1 DEF Tells
    <2>2. AbandonedLeavesNothing BY DEF ServiceInv, Lasting, AbandonedLeavesNothing
    <2> QED BY <2>1, <2>2 DEF AnswersMatchAudit
  <1> QED BY <1>2, ServiceInvHolds, PTL

-----------------------------------------------------------------------------
(***************************************************************************)
(* list.rs: no clause of the policy obliges to anything, so the lowering   *)
(* omits no fallback; its conjunction is the root, so no maximum takes a   *)
(* grade of a row that is not selected.                                    *)
(***************************************************************************)
LEMMA ObligedKinds ==
  ASSUME NEW p, NEW at
  PROVE  /\ p.kind = "grant" => ObligedNode(p, at) = (p.obligations # {})
         /\ p.kind = "permit_trace" => ObligedNode(p, at) = (p.decision.obligations # {})
         /\ p.kind \in {"all", "any"} => ObligedNode(p, at) = (\E i \in DOMAIN p.arms : at[p.arms[i]])
         /\ p.kind = "or_else" => ObligedNode(p, at) = (at[p.primary] \/ at[p.fallback])
         /\ p.kind \in {"permit", "deny", "deny_trace"} => ObligedNode(p, at) = FALSE
  BY Zenon DEF ObligedNode

LEMMA ObligedLocal ==
  ASSUME NEW p, IsTree(p), NEW n \in 1 .. Len(p), NEW u, NEW v, Same(u, v, n)
  PROVE  ObligedNode(p[n], u) = ObligedNode(p[n], v)
  <1> DEFINE x == p[n]
  <1>1. \/ x.kind \in {"permit", "deny", "permit_trace", "deny_trace", "grant"}
        \/ x.kind \in {"all", "any"} /\ ArmsBefore(x.arms, n)
        \/ x.kind = "or_else" /\ Before(x.primary, n) /\ Before(x.fallback, n)
    BY TreeKinds
  <1> SUFFICES ObligedNode(x, u) = ObligedNode(x, v) OBVIOUS
  <1> HIDE DEF x
  <1>2. CASE x.kind \in {"permit", "deny", "permit_trace", "deny_trace", "grant"}
    BY <1>2, ObligedKinds, ZenonT(60)
  <1>3. CASE x.kind \in {"all", "any"} /\ ArmsBefore(x.arms, n)
    <2>1. \A i \in DOMAIN x.arms : u[x.arms[i]] = v[x.arms[i]] BY <1>3 DEF Same, ArmsBefore
    <2>2. (\E i \in DOMAIN x.arms : u[x.arms[i]]) = (\E i \in DOMAIN x.arms : v[x.arms[i]]) BY <2>1, Zenon
    <2>3. ObligedNode(x, u) = (\E i \in DOMAIN x.arms : u[x.arms[i]]) BY <1>3, ObligedKinds, Zenon
    <2>4. ObligedNode(x, v) = (\E i \in DOMAIN x.arms : v[x.arms[i]]) BY <1>3, ObligedKinds, Zenon
    <2> QED BY <2>2, <2>3, <2>4, Zenon
  <1>4. CASE x.kind = "or_else" /\ Before(x.primary, n) /\ Before(x.fallback, n)
    <2>1. u[x.primary] = v[x.primary] /\ u[x.fallback] = v[x.fallback] BY <1>4 DEF Same
    <2>2. ObligedNode(x, u) = (v[x.primary] \/ v[x.fallback]) BY <1>4, <2>1, ObligedKinds, Zenon
    <2>3. ObligedNode(x, v) = (v[x.primary] \/ v[x.fallback]) BY <1>4, ObligedKinds, Zenon
    <2> QED BY <2>2, <2>3
  <1> QED BY <1>1, <1>2, <1>3, <1>4

ObligedStep(env, at, n) == ObligedNode(env[1][n], at)
ObligedRec == INSTANCE Recursion WITH Step <- ObligedStep

LEMMA ObligedTableRec ==
  ASSUME NEW p, IsTree(p)
  PROVE  \A n \in 1 .. Len(p) : CarriesObligation(p)[n] = ObligedNode(p[n], CarriesObligation(p))
  <1> DEFINE env == <<p>>
             t == ObligedRec!Table(env, Len(p))
  <1>1. CarriesObligation(p) = t BY Zenon DEF CarriesObligation, ObligedRec!Table, ObligedStep
  <1>2. \A n, u : ObligedStep(env, u, n) = ObligedNode(p[n], u) BY Zenon DEF ObligedStep
  <1> HIDE DEF env
  <1>3. ObligedRec!Local(env, Len(p))
    <2>1. \A n, u, v : ObligedRec!Below(u, v, n) => Same(u, v, n) BY DEF ObligedRec!Below, Same, Before
    <2>2. \A n \in 1 .. Len(p) : \A u, v : Same(u, v, n) => ObligedNode(p[n], u) = ObligedNode(p[n], v)
      BY ObligedLocal
    <2> QED BY <1>2, <2>1, <2>2 DEF ObligedRec!Local
  <1>4. t = [n \in 1 .. Len(p) |-> ObligedStep(env, t, n)]
    BY <1>3, TreePositions, ObligedRec!TableEquation
  <1> HIDE DEF t
  <1> QED BY <1>1, <1>2, <1>4

\* A clause whose fact is unknown is left as it is, and obliges to nothing.
LEMMA ClauseStays ==
  ASSUME NEW o \in Access, NEW f \in RecordFacts
  PROVE  /\ ReduceGrant(Clause(o, f), Unasked).resolved = FALSE
         /\ ReduceGrant(Clause(o, f), Unasked).residual.obligations = {}
         /\ ReduceGrant(Clause(o, f), Unasked).residual.kind = "grant"
  <1> DEFINE c == <<Has(f)>>
             t == ReduceConditionTable(c, Unasked)
             x == Clause(o, f)
  <1>1. Len(c) = 1 /\ DOMAIN c = 1 .. 1 /\ c[1] = Has(f) OBVIOUS
  <1>2. IsConditionNode(Has(f), 1) BY RecordPolicyAssumption DEF IsConditionNode, Has
  <1>3. x.condition = c /\ x.obligations = {} BY DEF Clause, Grant
  <1> HIDE DEF c
  <1>4. IsCondition(c) BY <1>1, <1>2 DEF IsCondition
  <1>5. t[1] = ReduceConditionNode(Has(f), t, Unasked) BY <1>1, <1>4, ReduceConditionTableRec
  <1>6. f \in Unknown(Unasked) BY RecordPolicyAssumption DEF Unknown, Known, Unasked
  <1>7. Has(f).kind = "has" /\ Has(f).fact = f BY DEF Has
  <1>8. t[1] = PendingCondition(Has(f), {}) BY <1>5, <1>6, <1>7, ReduceConditionKinds
  <1>9. t[1].known = FALSE BY <1>8 DEF PendingCondition
  <1> HIDE DEF t, x
  <1>10. ~Reduced(x, Unasked).known BY <1>1, <1>3, <1>9 DEF Reduced, t
  <1> DEFINE y == Grant(x.outcome, ResidualCondition(x.condition, Unasked), x.obligations, x.label)
  <1>11. ReduceGrant(x, Unasked) = Pending(y, Reduced(x, Unasked).consulted) BY <1>10, ReduceGrantCases
  <1>12. y.obligations = {} /\ y.kind = "grant" BY <1>3 DEF Grant
  <1> HIDE DEF y
  <1>13. ReduceGrant(x, Unasked).resolved = FALSE /\ ReduceGrant(x, Unasked).residual = y
    BY <1>11 DEF Pending
  <1> QED BY <1>12, <1>13 DEF x

LEMMA ListIsFaithful ==
  ~OmitsFallback(ListResidual) /\ ~MisgradesRows(ListResidual)
  <1> DEFINE p == ReadPolicy
             R == ReduceTable(p, Unasked)
             q == Residue(p, Unasked)
             t == TraitsTable(q)
             ob == CarriesObligation(q)
             Plain(n) == t[n].omits = FALSE /\ t[n].conjoins = FALSE /\ t[n].misgrades = FALSE
             Trace(n) == q[n].kind \in {"permit_trace", "deny_trace"}
  <1>1. IsPolicy(p) /\ Len(p) = 8 BY ReadPolicyIsPolicy, ReadPolicyNodes
  <1>2. \A n \in 1 .. 8 : ReducedPolicy(R[n], n) /\ NodeReduced(p[n], R, R[n], n, Unasked)
    BY <1>1, ReducedShapes
  <1>3. /\ IsTree(q) /\ Len(q) = 8
        /\ \A n \in 1 .. 8 : (R[n].resolved => Trace(n)) /\ (~R[n].resolved => q[n] = R[n].residual)
    BY <1>1, ResidueIs
  <1>4. \A n \in 1 .. 8 : TraitsOfNode(q[n], t, n, ob) BY <1>3, TraitsFacts
  <1>5. ob[5] = ObligedNode(q[5], ob)
    <2>1. \A n \in 1 .. Len(q) : ob[n] = ObligedNode(q[n], ob) BY <1>3, ObligedTableRec
    <2>2. 5 \in 1 .. Len(q) BY <1>3
    <2> QED BY <2>1, <2>2
  <1>6. R[5] = ReduceGrant(p[5], Unasked)
    <2>1. R[5] = ReduceNode(p[5], R, Unasked) BY <1>1, ReduceTableRec
    <2>2. p[5].kind = "grant" BY ReadPolicyNodes DEF Clause, Grant
    <2> QED BY <2>1, <2>2, ReduceKinds
  <1> HIDE DEF R, q, t, ob
  <1>7. ob[5] = FALSE
    <2>1. p[5] = Clause("full", "emergency") BY ReadPolicyNodes
    <2>2. R[5].resolved = FALSE /\ R[5].residual.obligations = {} /\ R[5].residual.kind = "grant"
      BY <1>6, <2>1, ClauseStays DEF Access, RecordFacts
    <2>3. q[5].kind = "grant" /\ q[5].obligations = {} BY <1>3, <2>2
    <2>4. ob[5] = (q[5].obligations # {}) BY <1>5, <2>3, ObligedKinds
    <2> QED BY <2>3, <2>4
  <1>8. \A n \in 1 .. 8 : Trace(n) \/ q[n].kind = "grant" => Plain(n) BY <1>4 DEF TraitsOfNode
  <1> HIDE DEF Plain, Trace
  <1>9. ASSUME NEW n \in {1, 2, 3, 5, 7} PROVE Trace(n) \/ q[n].kind = "grant"
    <2>1. p[n].kind = "grant" BY ReadPolicyNodes DEF Clause, Grant
    <2>2. GrantReduced(p[n], R[n], Unasked) BY <1>2, <2>1 DEF NodeReduced
    <2> QED BY <1>3, <2>2 DEF GrantReduced
  <1>10. Plain(4)
    <2>1. p[4].kind = "any" /\ p[4].arms = <<1, 2, 3>> BY ReadPolicyNodes DEF AnyOf
    <2>2. AnyReduced(p[4], R, R[4], 4) BY <1>2, <2>1 DEF NodeReduced
    <2>3. CASE R[4].resolved BY <1>3, <1>8, <2>3
    <2>4. CASE ~R[4].resolved
      <3> DEFINE z == q[4]
      <3>1. /\ z.kind = "any"
            /\ \A j \in DOMAIN z.arms : \E i \in DOMAIN p[4].arms : z.arms[j] = p[4].arms[i]
        BY <1>3, <2>2, <2>4 DEF AnyReduced
      <3>2. \A j \in DOMAIN z.arms : z.arms[j] \in {1, 2, 3} BY <2>1, <3>1
      <3>3. Plain(1) /\ Plain(2) /\ Plain(3) BY <1>8, <1>9
      <3>5. \A j \in DOMAIN z.arms : Plain(z.arms[j]) BY <3>2, <3>3
      <3>4. TraitsOfNode(z, t, 4, ob) BY <1>4
      <3> HIDE DEF z
      <3> QED BY <3>1, <3>4, <3>5, SMTT(30) DEF TraitsOfNode, SomeArm, TraitRecords, Plain
    <2> QED BY <2>3, <2>4
  <1>11. Plain(6)
    <2>1. p[6].kind = "or_else" /\ p[6].primary = 4 /\ p[6].fallback = 5 BY ReadPolicyNodes DEF OrElse
    <2>2. OrElseReduced(p[6], R, R[6]) BY <1>2, <2>1 DEF NodeReduced
    <2>3. CASE R[6].resolved BY <1>3, <1>8, <2>3
    <2>4. CASE ~R[6].resolved /\ R[6].residual = p[6]
      <3>1. q[6] = p[6] BY <1>3, <2>4
      <3>2. ~Pruned(q[6], ob) BY <1>7, <2>1, <3>1 DEF Pruned
      <3>3. Plain(4) /\ Plain(5) BY <1>8, <1>9, <1>10
      <3>4. TraitsOfNode(q[6], t, 6, ob) BY <1>4
      <3> QED BY <2>1, <3>1, <3>2, <3>3, <3>4 DEF TraitsOfNode, TraitRecords, Plain
    <2>5. CASE ~R[6].resolved /\ ~R[5].resolved /\ R[6].residual = R[5].residual
      <3>1. q[6] = q[5] BY <1>3, <2>5
      <3>2. Trace(6) \/ q[6].kind = "grant" BY <1>9, <3>1 DEF Trace
      <3> QED BY <1>8, <3>2
    <2> QED BY <2>1, <2>2, <2>3, <2>4, <2>5 DEF OrElseReduced, ResolvedPermit
  <1>12. ~R[8].resolved => t[8].omits = FALSE /\ t[8].misgrades = FALSE
    <2>1. p[8].kind = "all" /\ p[8].arms = <<7, 6>> BY ReadPolicyNodes DEF AllOf
    <2>2. AllReduced(p[8], R, R[8], 8) BY <1>2, <2>1 DEF NodeReduced
    <2> SUFFICES ASSUME ~R[8].resolved PROVE t[8].omits = FALSE /\ t[8].misgrades = FALSE OBVIOUS
    <2> DEFINE z == q[8]
    <2>3. /\ z.kind = "all"
          /\ \A j \in DOMAIN z.arms : \E i \in DOMAIN p[8].arms : z.arms[j] = p[8].arms[i]
      <3>1. q[8] = R[8].residual BY <1>3
      <3>2. /\ R[8].residual.kind = "all"
            /\ \A j \in DOMAIN R[8].residual.arms :
                 \E i \in DOMAIN p[8].arms : R[8].residual.arms[j] = p[8].arms[i]
        <4> HIDE DEF p
        <4> QED BY <2>2, Zenon DEF AllReduced
      <3> QED BY <3>1, <3>2
    <2>4. \A j \in DOMAIN z.arms : z.arms[j] \in {7, 6} BY <2>1, <2>3
    <2>7. Plain(7) BY <1>8, <1>9
    <2>5. \A j \in DOMAIN z.arms : Plain(z.arms[j]) BY <1>11, <2>4, <2>7
    <2>6. TraitsOfNode(z, t, 8, ob) BY <1>4
    <2> HIDE DEF z
    <2> QED BY <2>3, <2>5, <2>6 DEF TraitsOfNode, SomeArm, TraitRecords, Plain
  <1>13. /\ R[8].resolved => ListResidual = R[8]
         /\ ~R[8].resolved => ListResidual = Pending(q, R[8].consulted)
    BY <1>1, PartialEvaluateIs DEF ListResidual, R, q
  <1>14. CASE R[8].resolved BY <1>13, <1>14 DEF OmitsFallback, MisgradesRows
  <1>15. CASE ~R[8].resolved
    <2>1. ListResidual.residual = q BY <1>13, <1>15 DEF Pending
    <2>2. Root(TraitsTable(ListResidual.residual), ListResidual.residual) = t[8]
      BY <1>3, <2>1 DEF Root, t
    <2> QED BY <1>12, <1>15, <2>2 DEF OmitsFallback, MisgradesRows
  <1> QED BY <1>14, <1>15

-----------------------------------------------------------------------------
(***************************************************************************)
(* The joined row of a record, with its NULL columns, has the facts that   *)
(* resolving its permission gives.                                         *)
(***************************************************************************)
LEMMA JoinedFacts ==
  ASSUME Tables, NEW q \in Requests, NEW t \in Time, NEW s \in Stored
  PROVE  /\ JoinedRow(s, q, t) \in Rows /\ JoinedRow(s, q, t).tenant = s.tenant
         /\ FactsOfRow(Unasked, JoinedRow(s, q, t)) = FactsAt(access[KeyOf(s.tenant, q, s.id)], t)
  <1> DEFINE x == Joined(s, q)
             r == JoinedRow(s, q, t)
  <1>1. s.tenant \in Tenants /\ s.id \in Records BY TablesAssumption
  <1>2. KeyOf(s.tenant, q, s.id) \in Keys BY <1>1, RequestsAssumption DEF KeyOf, Keys
  <1>3. x \in AccessRows \union {Nil} /\ x = access[KeyOf(s.tenant, q, s.id)]
    BY <1>2 DEF Tables, Joined
  <1>4. Facts = RecordFacts BY RecordPolicyAssumption
  <1>5. r = [tenant |-> s.tenant, column |-> [f \in Facts |-> Column(x, f, t)]] BY DEF JoinedRow
  <1> HIDE DEF x, r
  <1>6. x # Nil => x \in AccessRows BY <1>3
  <1>7. x # Nil => /\ x.emergency_until \in Time \union {Nil}
                   /\ \A f \in RecordFacts \ {"emergency"} : x[f] \in BOOLEAN
    BY <1>6 DEF AccessRows, RecordFacts
  <1>8. Null # TRUE /\ Null # FALSE BY NullAssumption
  <1>9. ASSUME NEW f \in RecordFacts
        PROVE  Column(x, f, t) \in Truth /\ (Column(x, f, t) = TRUE <=> f \in FactsAt(x, t))
    <2>1. CASE x = Nil BY <1>8, <2>1 DEF Column, Truth, FactsAt
    <2>2. CASE x # Nil /\ f = "emergency"
      <3> DEFINE until == x.emergency_until
      <3>1. Live(x, t) <=> until # Nil /\ t < until BY DEF Live
      <3>2. Column(x, f, t) = IF until = Nil THEN Null ELSE until > t BY <2>2 DEF Column
      <3>3. f \in FactsAt(x, t) <=> Live(x, t) BY <2>2 DEF FactsAt
      <3>4. until = Nil \/ (until \in Nat /\ t \in Nat) BY <1>7, <2>2, RequestsAssumption DEF Time
      <3> HIDE DEF until
      <3>5. CASE until = Nil BY <1>8, <3>1, <3>2, <3>3, <3>5 DEF Truth
      <3>6. CASE until # Nil
        <4>1. Column(x, f, t) = (until > t) BY <3>2, <3>6
        <4>2. (until > t) <=> f \in FactsAt(x, t) BY <3>1, <3>3, <3>4, <3>6
        <4>3. CASE until > t BY <4>1, <4>2, <4>3 DEF Truth
        <4>4. CASE ~(until > t)
          <5>1. (until > t) = FALSE BY <4>4
          <5>2. Column(x, f, t) = FALSE BY <4>1, <5>1
          <5> QED BY <4>2, <4>4, <5>2 DEF Truth
        <4> QED BY <4>3, <4>4
      <3> QED BY <3>5, <3>6
    <2>3. CASE x # Nil /\ f # "emergency"
      <3>1. Column(x, f, t) = x[f] BY <2>3 DEF Column
      <3>2. f \in FactsAt(x, t) <=> x[f] BY <2>3 DEF FactsAt
      <3>3. x[f] \in BOOLEAN BY <1>7, <2>3
      <3> QED BY <3>1, <3>2, <3>3 DEF Truth
    <2> QED BY <2>1, <2>2, <2>3
  <1>10. r \in Rows /\ r.tenant = s.tenant BY <1>1, <1>4, <1>5, <1>9 DEF Rows
  <1>11. FactsOfRow(Unasked, r) = {f \in Facts : r.column[f] = TRUE}
    BY DEF FactsOfRow, Present, Unknown, Known, Unasked
  <1>12. FactsAt(x, t) \subseteq Facts BY <1>4 DEF FactsAt, RecordFacts
  <1>13. FactsOfRow(Unasked, r) = FactsAt(x, t) BY <1>4, <1>5, <1>9, <1>11, <1>12
  <1> QED BY <1>3, <1>10, <1>13 DEF r

\* What reading the record at that time would be granted
ReadEffect(q, id, t) == Evaluate(ReadPolicy, FactsAt(access[KeyOf(Tenant, q, id)], t)).effect

LEMMA PlanIsRead ==
  ASSUME Tables, NEW q \in Requests, NEW t \in Time, NEW s \in Stored
  PROVE  /\ PlanOn(s, q, t).filter = TRUE <=> s.tenant = Tenant /\ ReadEffect(q, s.id, t) # Denied
         /\ PlanOn(s, q, t).filter = TRUE => PlanOn(s, q, t).grade = Rank(ReadEffect(q, s.id, t))
  <1> DEFINE r == JoinedRow(s, q, t)
             h == ListResidual
             y == RowPlan(h, r, TRUE)
             e == Evaluate(ReadPolicy, FactsOfRow(Unasked, r)).effect
             z == PlanOn(s, q, t)
  <1>1. r \in Rows /\ r.tenant = s.tenant BY JoinedFacts
  <1>2. s.tenant = Tenant => e = ReadEffect(q, s.id, t) BY JoinedFacts DEF ReadEffect
  <1>3. RowIsFaithful(h, r, y, e) BY <1>1, ReadPolicyIsPolicy, PlanFacts DEF ListResidual
  <1>4. ~OmitsFallback(h) /\ ~MisgradesRows(h) BY ListIsFaithful
  <1>5. z.filter = EnforceTenantFilter(y.filter, r) /\ z.grade = EnforceTenantProjection(y.grade, r)
    BY LowerResultIs, PlanIs DEF PlanOn
  <1>6. e \in Access \union {Denied} BY ReadOutcome
  <1> HIDE DEF r, h, y, e, z
  <1>7. /\ y.filter \in BOOLEAN /\ (y.filter = TRUE <=> e # Denied)
        /\ y.filter = TRUE => y.grade = Ordinal(e)
    BY <1>3, <1>4 DEF RowIsFaithful
  <1>8. z.filter = TRUE <=> r.tenant = Tenant /\ y.filter = TRUE BY <1>1, <1>5, <1>7, TenantOnly
  <1>9. z.filter = TRUE => z.grade = y.grade BY <1>1, <1>5, <1>8, TenantOnly
  <1>10. e # Denied => Ordinal(e) = Rank(e) BY <1>6, RecordPolicyAssumption
  <1> QED BY <1>1, <1>2, <1>7, <1>8, <1>9, <1>10 DEF z

-----------------------------------------------------------------------------
(***************************************************************************)
(* ORDER BY id: ids tell the rows of one tenant apart.                     *)
(***************************************************************************)
Distinct(X) == IsFiniteSet(X) /\ (\A s \in X : s.id \in Nat) /\ \A r, s \in X : r.id = s.id => r = s

LEMMA CountIds ==
  ASSUME NEW X, Distinct(X)
  PROVE  IsFiniteSet({s.id : s \in X}) /\ Cardinality({s.id : s \in X}) = Cardinality(X)
  <1> DEFINE Y == {s.id : s \in X}
             f == [s \in X |-> s.id]
  <1>1. f \in Bijection(X, Y)
    BY DEF Distinct, Bijection, Injection, Surjection, IsInjective
  <1>2. ExistsBijection(X, Y) BY <1>1 DEF ExistsBijection
  <1> HIDE DEF Y
  <1>3. IsFiniteSet(Y) /\ Cardinality(Y) = Cardinality(X) BY <1>2, FS_Bijection DEF Distinct
  <1> QED BY <1>3 DEF Y

LEMMA NthExists ==
  ASSUME NEW X, Distinct(X), NEW i \in 1 .. Cardinality(X)
  PROVE  Nth(X, i) \in X /\ Cardinality({r \in X : r.id < Nth(X, i).id}) = i - 1
  <1> DEFINE c == Cardinality(X)
             Ahead(s) == {r \in X : r.id < s.id}
             T == 0 .. c - 1
             f == [s \in X |-> Cardinality(Ahead(s))]
  <1>1. IsFiniteSet(X) /\ c \in Nat BY FS_CardinalityType DEF Distinct
  <1>2. ASSUME NEW s \in X
        PROVE  IsFiniteSet(Ahead(s)) /\ Cardinality(Ahead(s)) \in Nat /\ Cardinality(Ahead(s)) < c
    <2>1. Ahead(s) \in SUBSET X /\ s \notin Ahead(s) BY DEF Distinct
    <2> HIDE DEF Ahead
    <2>2. /\ IsFiniteSet(Ahead(s)) /\ Cardinality(Ahead(s)) <= c
          /\ c = Cardinality(Ahead(s)) => X = Ahead(s)
      BY <1>1, <2>1, FS_Subset
    <2>3. Cardinality(Ahead(s)) \in Nat BY <2>2, FS_CardinalityType
    <2> HIDE DEF c
    <2> QED BY <1>1, <2>1, <2>2, <2>3
  <1>3. ASSUME NEW s \in X, NEW u \in X, s.id < u.id PROVE Cardinality(Ahead(s)) < Cardinality(Ahead(u))
    <2>1. Ahead(s) \in SUBSET Ahead(u) /\ s \in Ahead(u) /\ s \notin Ahead(s) BY <1>3 DEF Distinct
    <2>2. IsFiniteSet(Ahead(u)) /\ Cardinality(Ahead(u)) \in Nat /\ Cardinality(Ahead(s)) \in Nat BY <1>2
    <2> HIDE DEF Ahead
    <2>3. /\ Cardinality(Ahead(s)) <= Cardinality(Ahead(u))
          /\ Cardinality(Ahead(u)) = Cardinality(Ahead(s)) => Ahead(u) = Ahead(s)
      BY <2>1, <2>2, FS_Subset
    <2> QED BY <2>1, <2>2, <2>3
  <1>4. f \in Injection(X, T)
    <2>1. f \in [X -> T]
      <3> HIDE DEF c, Ahead
      <3> QED BY <1>1, <1>2
    <2>2. ASSUME NEW s \in X, NEW u \in X, f[s] = f[u] PROVE s = u
      <3>1. s.id \in Nat /\ u.id \in Nat BY DEF Distinct
      <3>2. Cardinality(Ahead(s)) = Cardinality(Ahead(u)) BY <2>2
      <3>3. Cardinality(Ahead(s)) \in Nat BY <1>2
      <3> HIDE DEF Ahead
      <3>4. ~(s.id < u.id) /\ ~(u.id < s.id) BY <1>3, <3>2, <3>3
      <3>5. s.id = u.id BY <3>1, <3>4
      <3> QED BY <3>5 DEF Distinct
    <2> HIDE DEF f
    <2> QED BY <2>1, <2>2 DEF Injection, IsInjective
  <1>5. IsFiniteSet(T) /\ Cardinality(T) = c
    <2> HIDE DEF c
    <2> QED BY <1>1, FS_Interval
  <1>6. f \in Surjection(X, T)
    <2> HIDE DEF f, T
    <2> QED BY <1>4, <1>5, FS_Injection
  <1>7. i - 1 \in T
    <2> HIDE DEF c
    <2>1. i \in 1 .. c BY DEF c
    <2> QED BY <1>1, <2>1
  <1>8. PICK s \in X : f[s] = i - 1
    <2> HIDE DEF f, T
    <2> QED BY <1>6, <1>7 DEF Surjection
  <1>9. Cardinality({r \in X : r.id < s.id}) = i - 1 BY <1>8
  <1>10. \E u \in X : Cardinality({r \in X : r.id < u.id}) = i - 1 BY <1>9
  <1> QED BY <1>10 DEF Nth

-----------------------------------------------------------------------------
(***************************************************************************)
(* list_records: the rows of the list.                                     *)
(***************************************************************************)
Readable(q, t) == {s \in Stored : s.tenant = Tenant /\ ReadEffect(q, s.id, t) # Denied}
ReadableIds(q, t) == {s.id : s \in Readable(q, t)}

LEMMA MatchingIsReadable ==
  ASSUME Tables, NEW q \in Requests, NEW t \in Time
  PROVE  Matching(q, t) = Readable(q, t) /\ Distinct(Matching(q, t))
  <1>1. Matching(q, t) = Readable(q, t) BY PlanIsRead DEF Matching, Readable
  <1>2. IsFiniteSet(Readable(q, t))
    <2>1. Readable(q, t) \in SUBSET Stored /\ IsFiniteSet(Stored) BY TablesAssumption DEF Readable
    <2> QED BY <2>1, FS_Subset
  <1>3. \A s \in Readable(q, t) :
          s \in [tenant : Tenants, id : Records] /\ s.tenant = Tenant /\ s.id \in Nat
    BY TablesAssumption DEF Readable
  <1>4. \A r, s \in Readable(q, t) : r.id = s.id => r = s BY <1>3
  <1> QED BY <1>1, <1>2, <1>3, <1>4 DEF Distinct

\* The rows of a list at time t, and its total
Lists(rows, total, q, t) ==
  /\ total = Cardinality(ReadableIds(q, t))
  /\ Len(rows) = Min({Cardinality(ReadableIds(q, t)), PageLimit})
  /\ \A i \in DOMAIN rows :
       /\ rows[i].id \in ReadableIds(q, t) /\ rows[i].grade = Rank(ReadEffect(q, rows[i].id, t))
       /\ Cardinality({id \in ReadableIds(q, t) : id < rows[i].id}) = i - 1

LEMMA PageIsReads ==
  ASSUME Tables, NEW q \in Requests, NEW t \in Time
  PROVE  Lists(Page(q, t), Cardinality(Matching(q, t)), q, t)
  <1> DEFINE X == Matching(q, t)
             c == Cardinality(X)
             m == Min({c, PageLimit})
             rows == Page(q, t)
             ids == ReadableIds(q, t)
  <1>1. X = Readable(q, t) /\ Distinct(X) BY MatchingIsReadable
  <1>2. Cardinality(ids) = c BY <1>1, CountIds DEF ReadableIds
  <1>3. c \in Nat BY <1>1, FS_CardinalityType DEF Distinct
  <1>4. rows = [i \in 1 .. m |-> [id |-> Nth(X, i).id, grade |-> PlanOn(Nth(X, i), q, t).grade]]
    BY Zenon DEF Page
  <1>5. m \in Nat /\ m <= c
    <2> HIDE DEF c
    <2>1. {c, PageLimit} \subseteq Nat /\ {c, PageLimit} # {} BY <1>3, RequestsAssumption
    <2>2. m \in {c, PageLimit} /\ m <= c BY <2>1, MinOf
    <2> QED BY <2>1, <2>2
  <1>10. ids = {s.id : s \in X} BY <1>1 DEF ReadableIds
  <1> HIDE DEF X, c, m, rows, ids
  <1>6. DOMAIN rows = 1 .. m /\ Len(rows) = m
    <2>1. DOMAIN rows = 1 .. m BY <1>4
    <2>2. rows \in Seq({rows[i] : i \in 1 .. m}) BY <1>4, <1>5
    <2> QED BY <1>5, <2>1, <2>2
  <1>7. ASSUME NEW i \in 1 .. m
        PROVE  /\ rows[i].id \in ids /\ rows[i].grade = Rank(ReadEffect(q, rows[i].id, t))
               /\ Cardinality({id \in ids : id < rows[i].id}) = i - 1
    <2> DEFINE s == Nth(X, i)
               n == s.id
               L == {r \in X : r.id < n}
    <2>1. i \in 1 .. Cardinality(X) BY <1>3, <1>5 DEF c
    <2>2. s \in X /\ Cardinality(L) = i - 1 BY <1>1, <2>1, NthExists
    <2>3. rows[i].id = n /\ rows[i].grade = PlanOn(s, q, t).grade BY <1>4
    <2> HIDE DEF s
    <2>4. s \in Stored /\ PlanOn(s, q, t).filter = TRUE BY <2>2 DEF X, Matching
    <2>5. PlanOn(s, q, t).grade = Rank(ReadEffect(q, n, t)) BY <2>4, PlanIsRead
    <2>6. n \in ids BY <1>10, <2>2
    <2>7. Distinct(L)
      <3>1. L \in SUBSET X /\ IsFiniteSet(X) BY <1>1 DEF Distinct
      <3>2. IsFiniteSet(L)
        <4> HIDE DEF L
        <4> QED BY <3>1, FS_Subset
      <3> QED BY <1>1, <3>1, <3>2 DEF Distinct
    <2>8. {id \in ids : id < n} = {r.id : r \in L} BY <1>10
    <2>9. Cardinality({r.id : r \in L}) = Cardinality(L)
      <3> HIDE DEF L
      <3> QED BY <2>7, CountIds
    <2> HIDE DEF n, L
    <2> QED BY <2>2, <2>3, <2>5, <2>6, <2>8, <2>9
  <1>8. Cardinality(X) = Cardinality(ids) BY <1>2 DEF c
  <1>9. Len(rows) = Min({Cardinality(ids), PageLimit}) BY <1>2, <1>6 DEF m
  <1> QED BY <1>6, <1>7, <1>8, <1>9 DEF X, rows, ids, Lists

\* The list and the point read tell one story: for any tables, clock and
\* request, whatever the policy's NULL columns, a record is counted exactly
\* if reading it would be permitted, and its row carries the grade that
\* reading it would give.
THEOREM ListAgreesWithReadsHolds == Spec => []ListAgreesWithReads
  <1>1. ServiceInv => ListAgreesWithReads
    <2> SUFFICES ASSUME ServiceInv PROVE ListAgreesWithReads OBVIOUS
    <2>1. ASSUME NEW w \in Workers, pc[w] \in {"enqueuing", "committing"}, result[w].kind = "list"
          PROVE  /\ Tables /\ Listed(w) /\ request[w] \in Requests
      <3>1. Tables /\ InTransaction(w) BY AtPoint
      <3>2. ~NotFoundReady(w) /\ ~ViewReady(w) BY <2>1 DEF NotFoundReady, ViewReady
      <3>3. Listed(w) BY <2>1, <3>1, <3>2 DEF InTransaction, ListReady
      <3> QED BY <2>1, <3>1, <3>3 DEF InTransaction
    <2>2. ASSUME NEW w \in Workers, pc[w] \in {"enqueuing", "committing"}, result[w].kind = "list"
          PROVE  Lists(result[w].rows, result[w].total, request[w], seen[w].observed_at)
      <3> DEFINE q == request[w]
                 t == seen[w].observed_at
                 rows == result[w].rows
                 c == Cardinality(Matching(q, t))
      <3>1. Tables /\ q \in Requests /\ t \in Time /\ rows = Page(q, t)
        BY <2>1, <2>2 DEF Listed, Counted
      <3>2. result[w] = [kind |-> "list", total |-> c, rows |-> rows]
        BY <2>1, <2>2 DEF Listed, Counted
      <3> HIDE DEF q, t, rows, c
      <3>3. result[w].total = c BY <3>2
      <3>4. Lists(Page(q, t), Cardinality(Matching(q, t)), q, t) BY <3>1, PageIsReads
      <3>5. Lists(rows, result[w].total, q, t) BY <3>1, <3>3, <3>4 DEF c
      <3> QED BY <3>5 DEF q, t, rows
    <2> QED BY <2>2, Zenon DEF ListAgreesWithReads, Lists, ReadableIds, Readable, ReadEffect
  <1> QED BY <1>1, ServiceInvHolds, PTL
=============================================================================
