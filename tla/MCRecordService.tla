-------------------------- MODULE MCRecordService --------------------------
(***************************************************************************)
(* Two stored records of the handlers' tenant, one of another tenant, and  *)
(* a permission for a record that is gone.  Emergency access runs out at   *)
(* time 1; permissions are granted, narrowed and withdrawn meanwhile.      *)
(***************************************************************************)
EXTENDS RecordService, TLC

CONSTANTS demo, other, ann, w1, w2

Row(enabled, owner, shared, until) ==
  [enabled |-> enabled, owner |-> owner, shared |-> shared, released |-> FALSE,
   emergency_until |-> until]

Owner == Row(TRUE, TRUE, FALSE, Nil)
Participant == Row(TRUE, FALSE, TRUE, 1)
EmergencyOnly == Row(TRUE, FALSE, FALSE, 1)
Disabled == Row(FALSE, TRUE, TRUE, 1)

MCStored == {[tenant |-> demo, id |-> 1], [tenant |-> demo, id |-> 2], [tenant |-> other, id |-> 1]}

Rows3(x, y, z, o) ==
  [k \in Keys |-> CASE k.tenant = other -> (IF k.record = 1 THEN o ELSE Nil)
                    [] k.record = 1 -> x [] k.record = 2 -> y [] OTHER -> z]

MCInitialAccess ==
  {Rows3(EmergencyOnly, Participant, Nil, Owner), Rows3(Nil, Disabled, Owner, Owner),
   Rows3(Owner, EmergencyOnly, Nil, Disabled)}

MCChanges == {Nil, Participant}

MCRequests ==
  {[op |-> "read", person |-> ann, record |-> 1], [op |-> "read", person |-> ann, record |-> 3],
   [op |-> "list", person |-> ann, record |-> 0]}

=============================================================================
