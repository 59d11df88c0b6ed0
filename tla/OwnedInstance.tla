--------------------------- MODULE OwnedInstance ---------------------------
(***************************************************************************)
(* What the OCIMachine controller promises about an object and the compute *)
(* instance behind it, with no mention of reconciles, caches or calls: an  *)
(* instance is created only for an object that exists and has recorded     *)
(* none, never beside another one, and the object stays until the instance *)
(* is dead.                                                                *)
(***************************************************************************)
VARIABLES
  owner,     \* the object: "live", "deleting" or "gone"
  recorded,  \* the object holds the OCID of its instance
  res        \* the instance: "none", "live" or "dead"

Init == owner = "live" /\ recorded = FALSE /\ res = "none"

Create ==
  /\ owner # "gone" /\ ~recorded /\ res # "live"
  /\ res' = "live" /\ UNCHANGED <<owner, recorded>>

Record ==
  /\ owner # "gone" /\ ~recorded /\ res # "none"
  /\ recorded' = TRUE /\ UNCHANGED <<owner, res>>

Die ==
  /\ res = "live" /\ res' = "dead" /\ UNCHANGED <<owner, recorded>>

MarkDeleted ==
  /\ owner = "live" /\ owner' = "deleting" /\ UNCHANGED <<recorded, res>>

Release ==
  /\ owner # "gone" /\ res # "live"
  /\ owner' = "gone" /\ UNCHANGED <<recorded, res>>

Next == Create \/ Record \/ Die \/ MarkDeleted \/ Release

Spec == Init /\ [][Next]_<<owner, recorded, res>>
=============================================================================
