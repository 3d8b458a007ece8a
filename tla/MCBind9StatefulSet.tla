------------------------- MODULE MCBind9StatefulSet -------------------------
(***************************************************************************)
(* TLC instances of Bind9StatefulSet: storage requests of which two are    *)
(* the same quantity written differently and one does not parse, a node    *)
(* selector, a Topology with an affinity, up to two replicas.              *)
(***************************************************************************)
EXTENDS Bind9StatefulSet

CONSTANTS sel, zoneAffinity

\* instance.Spec.StorageRequest values; "2 Gi" is refused by ParseQuantity.
MCStorageRequests == {"1Gi", "1024Mi", "2Gi", "2 Gi"}

\* resource.ParseQuantity, as the quantity in GiB.
MCQuantity == [s \in {"1Gi", "1024Mi", "2Gi"} |-> IF s = "2Gi" THEN 2 ELSE 1]

MCSelectors == {NoSelector, sel}
=============================================================================
