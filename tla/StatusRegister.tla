--------------------------- MODULE StatusRegister ---------------------------
(***************************************************************************)
(* The status of a MinIO instance as its readers may think of it: three    *)
(* controllers that take turns, each of which changes only the fields that *)
(* are its own, and a health verdict that is given only for an instance    *)
(* whose deployment is complete at that moment.                            *)
(***************************************************************************)
CONSTANTS
    PoolsStatus,    \* what the reconciler of the status finds
    Unreported      \* that it has found nothing yet

DeployStatus == {"", "None", "Completed", "Running", "Failed"}
HealthStatus == {"", "Unknown", "Health", "UnHealth"}

MinIOStatus == [status : DeployStatus, pools : PoolsStatus, health : HealthStatus]

VARIABLE object

Blank == [status |-> "", pools |-> Unreported, health |-> ""]

Init == object = Blank

\* The reconciler of the deployment.
MinIOWrites ==
    \E s \in {"None", "Running", "Failed"} :
        /\ s = "None" => object.status = ""
        /\ object' = [object EXCEPT !.status = s]

\* The reconciler of the status: what it found of the pools, and its verdict.
StatusWrites ==
    \E s \in {"Completed", "Running", "Failed"} :
        /\ object'.pools \in PoolsStatus
        /\ object' = [object EXCEPT !.status = s, !.pools = object'.pools]

\* The health checker.
HealthWrites ==
    \E h \in {"Unknown", "Health", "UnHealth"} :
        /\ h # "Unknown" => object.status = "Completed"
        /\ object' = [object EXCEPT !.health = h]

\* The instance is deleted, or is a new one.
Replace == object' = Blank

Next == MinIOWrites \/ StatusWrites \/ HealthWrites \/ Replace

Spec == Init /\ [][Next]_object
=============================================================================
