------------------------- MODULE MCKeepsakeResolver -------------------------
(***************************************************************************)
(* The principal's plan and the resource's members and owner.  The same    *)
(* relation also exists for another subject and in another tenant, with    *)
(* and without a deadline, and once bound to fulfilment evidence.          *)
(***************************************************************************)
EXTENDS KeepsakeResolver, TLC

FactBinding(slot, relation, query) == [slot |-> slot, relation |-> relation, query |-> query]

MCBound ==
  "paid"   :> FactBinding("principal", "plan", "resolve") @@
  "shared" :> FactBinding("resource", "plan", "resolve") @@
  "member" :> FactBinding("resource", "member", "resolve") @@
  "guest"  :> FactBinding("source", "member", "defer")

\* The request fills no slot "source".
MCSubjectOf == "principal" :> "user" @@ "resource" :> "case"
MCOrder == <<"principal", "resource", "source">>

MCRequests ==
  {{"paid", "member"}, {"paid", "shared"}, {"member", "guest"}, {"guest"}, {"paid", "unbound"}}

Assignment(id, tenant, subject, relation, expires, lifecycle) ==
  [id |-> id, tenant |-> tenant, subject |-> subject, relation |-> relation,
   expires |-> expires, lifecycle |-> lifecycle]

MCAssignments ==
  {Assignment(1, "mine", "user", "plan", 1, "plain"),
   Assignment(2, "mine", "user", "plan", Nil, "plain"),
   Assignment(3, "mine", "case", "member", 2, "plain"),
   Assignment(4, "mine", "case", "member", Nil, "fulfilment"),
   Assignment(5, "mine", "case", "member", 1, "disabled"),
   Assignment(1, "other", "case", "member", Nil, "plain")}

=============================================================================
