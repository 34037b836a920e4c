--------------------------- MODULE DeviceLifecycle ---------------------------
(***************************************************************************)
(* What the credential store promises about a device, without credentials: *)
(* it is registered once, stays registered until it is revoked by another  *)
(* device that is still part of the household or is locked out because one *)
(* of its refresh credentials was presented twice, and never comes back    *)
(* from either.  Credentials implements this specification.                *)
(***************************************************************************)
CONSTANT Device

VARIABLE phase   \* phase[d]: how far device d is in its life

Phase == {"absent", "registered", "locked_out", "revoked"}

Init == phase = [d \in Device |-> "absent"]

Register(d) ==
  /\ phase[d] = "absent"
  /\ phase' = [phase EXCEPT ![d] = "registered"]

LockOut(d) ==
  /\ phase[d] = "registered"
  /\ phase' = [phase EXCEPT ![d] = "locked_out"]

Revoke(d, by) ==
  /\ d # by
  /\ phase[d] \in {"registered", "locked_out"}
  /\ phase[by] \in {"registered", "locked_out"}
  /\ phase' = [phase EXCEPT ![d] = "revoked"]

Next ==
  \/ \E d \in Device : Register(d) \/ LockOut(d)
  \/ \E d, by \in Device : Revoke(d, by)

Spec == Init /\ [][Next]_phase

=============================================================================
