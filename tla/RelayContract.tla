---------------------------- MODULE RelayContract ----------------------------
(***************************************************************************)
(* What the relay manager promises the policy and the operator.  A relay   *)
(* conducts exactly while an operator forces it on, or nobody forces it    *)
(* and it holds a lease.  A lease is the time for which the contact may    *)
(* still be closed: it only runs down as time passes, can be extended,     *)
(* can be revoked, may end by itself no earlier than Grace before it runs  *)
(* out, and time does not pass beyond the end of a lease in force.         *)
(***************************************************************************)
EXTENDS Integers

CONSTANTS Relay, Grace

VARIABLES on_duty, contact, force, lease

cvars == <<on_duty, contact, force, lease>>

Conducts(f, l) == f = "On" \/ (f = "None" /\ l > 0)

(* The contact of r follows its force and lease; the others stay put.      *)
Settle(r) == contact' = [contact EXCEPT ![r] = Conducts(force'[r], lease'[r])]

Extend(r) ==
  /\ on_duty
  /\ lease' = [lease EXCEPT ![r] = lease'[r]]
  /\ lease'[r] > 0 /\ lease'[r] >= lease[r]
  /\ Settle(r)
  /\ UNCHANGED <<on_duty, force>>

Revoke(r) ==
  /\ on_duty
  /\ lease' = [lease EXCEPT ![r] = 0]
  /\ Settle(r)
  /\ UNCHANGED <<on_duty, force>>

Lapse(r) ==
  /\ lease[r] <= Grace
  /\ Revoke(r)

SetForce(r, f) ==
  /\ on_duty
  /\ force' = [force EXCEPT ![r] = f]
  /\ Settle(r)
  /\ UNCHANGED <<on_duty, lease>>

Elapse ==
  /\ on_duty
  /\ lease' = [r \in Relay |-> IF lease[r] > 0 THEN lease[r] - 1 ELSE lease[r]]
  /\ \A r \in Relay : lease[r] > 0 => lease'[r] > 0
  /\ UNCHANGED <<on_duty, contact, force>>

(* A restart drops every force and lease, and the system comes back with   *)
(* every contact open.                                                     *)
Outage ==
  /\ ~on_duty'
  /\ lease' = [r \in Relay |-> 0]
  /\ force' = [r \in Relay |-> "None"]
  /\ \A r \in Relay : contact'[r] => contact[r]

TakeDuty ==
  /\ ~on_duty /\ on_duty'
  /\ contact' = [r \in Relay |-> FALSE]
  /\ UNCHANGED <<force, lease>>

CInit ==
  /\ ~on_duty
  /\ contact \in [Relay -> BOOLEAN]
  /\ force = [r \in Relay |-> "None"]
  /\ lease = [r \in Relay |-> 0]

(* `revoking` says which leases the clients asked to revoke: only those    *)
(* may end early.                                                          *)
CNext(revoking) ==
  \/ \E r \in Relay : Extend(r) \/ Lapse(r)
  \/ \E r \in revoking : Revoke(r)
  \/ \E r \in Relay, f \in {"None", "On", "Off"} : SetForce(r, f)
  \/ Elapse
  \/ Outage
  \/ TakeDuty
=============================================================================
