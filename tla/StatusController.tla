--------------------------- MODULE StatusController ---------------------------
(***************************************************************************)
(* MinIOStatusReconciler.Reconcile of                                      *)
(* src/controllers/minio_status_controller.go, call by call: it lists the  *)
(* claims, the services and the pods of one pool after the other, while    *)
(* all of them change, and stores what it found as one report.             *)
(*                                                                         *)
(* The other two controllers appear as what StatusWriters proves of them:  *)
(* writers of their own fields.  The MinIO reconciler answers each change  *)
(* of the object with a round; of a round at most one status write changes *)
(* the object, as the round's copy is stale after that.                    *)
(***************************************************************************)
EXTENDS MinIOResources, FiniteSets

CONSTANTS
    Specs,          \* the specifications the instance takes in the model
    PodLists,       \* the lists of its pods a pool may have: phases, by name of the pod
    ClaimLists,     \* what a list of the claims may return, "" if there are none
    Leftovers,      \* the claims and pods an earlier instance of the name may have left
    Budget          \* how often each kind of disturbance may happen, and all together

Disturbance == {"mishaps", "changes", "all"}
PodPhase == {"Pending", "Running", "Succeeded", "Failed", "Unknown"}

ASSUME SpecsAssumption == Specs \subseteq MinIOSpec
ASSUME ListsAssumption ==
    /\ PodLists \subseteq Seq(PodPhase) /\ << >> \in PodLists
    /\ "" \in ClaimLists
    /\ Leftovers \subseteq [claims : ClaimLists, pods : [PoolName -> PodLists]]
ASSUME BudgetAssumption == Budget \in [Disturbance -> Nat]

VARIABLES
    minio,          \* API server: the MinIO object
    claims,         \* API server: the list of its claims
    svcs,           \* API server: its services, NoService for one that is not there
    pods,           \* API server: the list of each pool's pods
    seen,           \* the shared cache's copy of the object
    seenCurrent,    \* the cache's copy has the object's resourceVersion
    queued,         \* the controllers with a waiting request
    pc,             \* the status reconciler: its next call
    copy,           \* the status reconciler: its copy of the object
    working,        \* the MinIO reconciler is in a round
    current,        \* the controllers whose copy has the object's resourceVersion
    budget          \* the disturbances that are left

cluster == <<claims, svcs, pods>>
cache == <<seen, seenCurrent>>
vars == <<minio, cluster, cache, queued, pc, copy, working, current, budget>>

-----------------------------------------------------------------------------
(***************************************************************************)
(* Values.                                                                 *)
(***************************************************************************)
Controller == {"minio", "status"}
Reported == {"ci", "console"}        \* the services whose address is reported
Address == {"", "cluster", "node", "hostless"}
DeployStatus == {"", "None", "Completed", "Running", "Failed"}
HealthStatus == {"", "Unknown", "Health", "UnHealth"}

PoolStatus == [name : PoolName, status : {"", "Completed", "Running", "Failed"},
               availableReplicas : Nat, replicas : Nat, servers : Seq(PodPhase)]

\* All that the status reconciler alone writes.
Report == [claims : ClaimLists, addresses : [Reported -> Address],
           pools : Seq(PoolStatus)]
NoReport == [claims |-> "", addresses |-> [k \in Reported |-> ""], pools |-> << >>]

MinIO == [phase : {"live", "gone"}, spec : Specs \cup {EmptySpec},
          status : DeployStatus, health : HealthStatus, report : Report,
          lists : BOOLEAN]              \* the status has the arrays the CRD requires

NewMinIO(phase, spec) ==
    [phase |-> phase, spec |-> spec, status |-> "", health |-> "", report |-> NoReport,
     lists |-> FALSE]
NoMinIO == NewMinIO("gone", EmptySpec)

Stage == {"idle", "claims", "services", "pods", "write"}

\* The register of StatusWriters, with the whole report for the pools' field.
Register == INSTANCE StatusRegister WITH
    object <- [status |-> minio.status, pools |-> minio.report, health |-> minio.health],
    PoolsStatus <- Report,
    Unreported <- NoReport

\* Claims are never collected; pods may not have been yet.
Init ==
    /\ \E spec \in Specs : minio = NewMinIO("live", spec)
    /\ \E left \in Leftovers : claims = left.claims /\ pods = left.pods
    /\ svcs = [k \in Reported |-> NoService]
    /\ seen = NoMinIO /\ seenCurrent = FALSE
    /\ queued = {}
    /\ pc = "idle" /\ copy = NoMinIO
    /\ working = FALSE
    /\ current = {}
    /\ budget = Budget

-----------------------------------------------------------------------------
(***************************************************************************)
(* What is reported of a pool, of a service and of the deployment.         *)
(***************************************************************************)
\* Mutant: the phase of the last pod as it is.
LastPhase(list) == IF list = << >> THEN "" ELSE list[Len(list)]

\* The pod that is listed last decides; no pod at all leaves the status empty.
PoolDeployStatus(list) ==
    CASE list = << >> -> ""
      [] list # << >> /\ list[Len(list)] = "Running" -> "Completed"
      [] list # << >> /\ list[Len(list)] = "Pending" -> "Running"
      [] OTHER -> "Failed"

PoolStatusOf(pool, list) ==
    [name              |-> pool.name,
     status            |-> PoolDeployStatus(list),
     availableReplicas |-> Cardinality({i \in DOMAIN list : list[i] = "Running"}),
     replicas          |-> pool.servers,
     servers           |-> list]

\* The address of a node; none if the nodes cannot be listed.
NodeIP == {"node", "hostless"}

\* Only services with the instance's label are listed.
AddressOf(svc, node) ==
    CASE ~svc.labelled -> ""
      [] svc.labelled /\ svc.nodePort -> node
      [] svc.labelled /\ ~svc.nodePort -> "cluster"

\* The pools that count against Completed.
Incomplete(pools) == {k \in DOMAIN pools : pools[k].status \in {"Failed", "Running"}}

\* Mutant: the first pool decides.
DeployStatusOfFirst(pools) == IF 1 \in Incomplete(pools) THEN pools[1].status ELSE "Completed"

\* The last of them decides.
DeployStatusOf(pools) ==
    IF Incomplete(pools) = {}
    THEN "Completed"
    ELSE pools[CHOOSE k \in Incomplete(pools) : \A j \in Incomplete(pools) : j <= k].status

-----------------------------------------------------------------------------
(***************************************************************************)
(* Control flow.                                                           *)
(***************************************************************************)
Spend(kind) == /\ budget[kind] > 0 /\ budget["all"] > 0
               /\ budget' = [budget EXCEPT ![kind] = @ - 1, !["all"] = @ - 1]

\* The object changes: every copy of it is stale.
ChangeMinIO(new) == minio' = new /\ seenCurrent' = FALSE /\ current' = {}

\* A status that is stored as it was is no change.
StoreStatus(new) ==
    IF new = minio THEN UNCHANGED <<minio, seenCurrent, current>> ELSE ChangeMinIO(new)

\* A controller's copy is the one from the cache.
TakeCopy(c) == current' = IF seenCurrent THEN current \cup {c} ELSE current \ {c}

\* The status reconciler returns; again: with an error or Requeue.
Return(again) ==
    /\ pc' = "idle" /\ copy' = NoMinIO
    /\ queued' = IF again THEN queued \cup {"status"} ELSE queued

Call(stage, m) == pc' = stage /\ copy' = m /\ UNCHANGED queued

-----------------------------------------------------------------------------
(***************************************************************************)
(* The status reconciler.                                                  *)
(***************************************************************************)
\* The request is for an object the cache does not have: an error, and so once more.
BeginMissing ==
    /\ pc = "idle" /\ "status" \in queued
    /\ seen.phase = "gone"
    /\ UNCHANGED vars

Begin ==
    /\ pc = "idle" /\ "status" \in queued
    /\ seen.phase = "live"
    /\ queued' = queued \ {"status"}
    /\ pc' = "claims" /\ copy' = [seen EXCEPT !.report = NoReport]
    /\ TakeCopy("status")
    /\ UNCHANGED <<minio, cluster, cache, working, budget>>

ListClaims ==
    /\ pc = "claims"
    /\ Call("services", [copy EXCEPT !.report.claims = claims])
    /\ UNCHANGED <<minio, cluster, cache, working, current, budget>>

\* The services, and a node's address for each of them: without one the address of a node
\* port is reported without a host.
ListServices ==
    /\ pc = "services"
    /\ \E node \in [Reported -> NodeIP] :
          /\ Call("pods", [copy EXCEPT !.report.addresses =
                              [k \in Reported |-> AddressOf(svcs[k], node[k])]])
          /\ IF \E k \in Reported : node[k] = "hostless"
             THEN Spend("mishaps")
             ELSE UNCHANGED budget
    /\ UNCHANGED <<minio, cluster, cache, working, current>>

\* The pods of the next pool.
ListPods ==
    /\ pc = "pods"
    /\ LET k == Len(copy.report.pools) + 1
           pool == copy.spec.pools[k]
       IN  /\ k \in DOMAIN copy.spec.pools
           /\ Call("pods", [copy EXCEPT !.report.pools =
                               Append(@, PoolStatusOf(pool, pods[pool.name]))])
    /\ UNCHANGED <<minio, cluster, cache, working, current, budget>>

Conclude ==
    /\ pc = "pods"
    /\ Len(copy.report.pools) = Len(copy.spec.pools)
    /\ Call("write", [copy EXCEPT !.status = DeployStatusOf(copy.report.pools)])
    /\ UNCHANGED <<minio, cluster, cache, working, current, budget>>

ListFails ==
    /\ pc \in {"claims", "services", "pods"}
    /\ Spend("mishaps")
    /\ Return(TRUE)
    /\ UNCHANGED <<minio, cluster, cache, working, current>>

\* Mutant: a report is final.
ReturnAfterWriteAtRest(m) == Return(FALSE)

ReturnAfterWrite(m) == Return(m.status # "Completed")

\* A list without elements goes out as null, where the CRD requires an array.
Storable(report) ==
    /\ report.claims # ""
    /\ report.pools # << >>
    /\ \A k \in DOMAIN report.pools : report.pools[k].servers # << >>

\* The API server keeps the specification and takes the status.
Stored(m) == [minio EXCEPT !.status = m.status, !.health = m.health, !.report = m.report,
                           !.lists = TRUE]

\* Mutant: the update carries no resourceVersion.
AcceptedUnchecked == pc = "write" /\ minio.phase = "live" /\ Storable(copy.report)

\* The object exists and has not changed since it was read.
Accepted ==
    /\ pc = "write" /\ minio.phase = "live" /\ "status" \in current
    /\ Storable(copy.report)

WriteAccepted ==
    /\ Accepted
    /\ StoreStatus(Stored(copy))
    /\ ReturnAfterWrite(copy)
    /\ UNCHANGED <<cluster, seen, working, budget>>

\* Mutant: the retry writes what the caller wanted to write over what it has read.
WriteConflictOver ==
    /\ pc = "write" /\ minio.phase = "live" /\ "status" \notin current
    /\ seenCurrent /\ Storable(copy.report)
    /\ StoreStatus(Stored(copy))
    /\ ReturnAfterWrite(copy)
    /\ UNCHANGED <<cluster, seen, working, budget>>

\* After a conflict what is read again is written back, until the cache has caught up:
\* the write that is accepted changes nothing.
WriteConflict ==
    /\ pc = "write" /\ minio.phase = "live" /\ "status" \notin current
    /\ seenCurrent /\ minio.lists
    /\ ReturnAfterWrite(copy)
    /\ UNCHANGED <<minio, cluster, cache, working, current, budget>>

\* What is sent, the report or after a conflict the object as it was read, lacks an array.
WriteInvalid ==
    /\ pc = "write" /\ minio.phase = "live"
    /\ IF "status" \in current THEN ~Storable(copy.report) ELSE seenCurrent /\ ~minio.lists
    /\ Return(TRUE)
    /\ UNCHANGED <<minio, cluster, cache, working, current, budget>>

\* The object is gone; or the call fails, or is stored and the answer is lost.
WriteFails ==
    /\ pc = "write"
    /\ \/ /\ minio.phase = "gone" \/ ("status" \notin current /\ seen.phase = "gone")
          /\ UNCHANGED <<minio, seenCurrent, current, budget>>
       \/ Spend("mishaps") /\ UNCHANGED <<minio, seenCurrent, current>>
       \/ Spend("mishaps") /\ Accepted /\ StoreStatus(Stored(copy))
    /\ Return(TRUE)
    /\ UNCHANGED <<cluster, seen, working>>

Reconcile ==
    \/ BeginMissing \/ Begin
    \/ ListClaims \/ ListServices \/ ListPods \/ Conclude \/ ListFails
    \/ WriteAccepted \/ WriteConflict \/ WriteInvalid \/ WriteFails

-----------------------------------------------------------------------------
(***************************************************************************)
(* The other writers of the status.                                        *)
(***************************************************************************)
BeginMinIO ==
    /\ ~working /\ "minio" \in queued
    /\ queued' = queued \ {"minio"}
    /\ working' = (seen.phase = "live")
    /\ TakeCopy("minio")
    /\ UNCHANGED <<minio, cluster, cache, pc, copy, budget>>

\* None for a new object, else Running; a round that fails reports Failed, with a message
\* that may be new, and is begun again.
EndMinIO ==
    /\ working /\ working' = FALSE
    /\ minio.phase = "live" /\ "minio" \in current /\ minio.lists
    /\ \/ /\ StoreStatus([minio EXCEPT !.status = IF @ = "" THEN "None" ELSE "Running"])
          /\ UNCHANGED <<queued, budget>>
       \/ /\ Spend("mishaps")
          /\ minio.status # ""
          /\ LET new == [minio EXCEPT !.status = "Failed"]
             IN  StoreStatus(new) \/ ChangeMinIO(new)
          /\ queued' = queued \cup {"minio"}
    /\ UNCHANGED <<cluster, seen, pc, copy>>

\* Its write is dropped, or is refused as it lacks an array, or finds no object.
EndMinIOUnstored ==
    /\ working /\ working' = FALSE
    /\ \/ /\ minio.phase = "live" /\ minio.lists /\ "minio" \notin current /\ seenCurrent
          /\ UNCHANGED queued
       \/ /\ \/ minio.phase = "live" /\ ~minio.lists /\ ("minio" \in current \/ seenCurrent)
             \/ minio.phase = "gone" \/ ("minio" \notin current /\ seen.phase = "gone")
          /\ queued' = queued \cup {"minio"}
    /\ UNCHANGED <<minio, cluster, cache, pc, copy, current, budget>>

\* A write of the health checker that is accepted: it never comes to an end with them.
HealthWrite ==
    /\ minio.phase = "live" /\ minio.lists
    /\ \E h \in {"Unknown", "Health", "UnHealth"} :
          /\ h # "Unknown" => minio.status = "Completed"
          /\ h # minio.health
          /\ ChangeMinIO([minio EXCEPT !.health = h])
    /\ UNCHANGED <<cluster, seen, queued, pc, copy, working, budget>>

-----------------------------------------------------------------------------
(***************************************************************************)
(* What they run against.                                                  *)
(***************************************************************************)
\* The watch: the cache has the latest object, and both controllers are told.
Sync ==
    /\ ~seenCurrent
    /\ seen' = minio /\ seenCurrent' = TRUE
    /\ queued' = Controller
    /\ UNCHANGED <<minio, cluster, pc, copy, working, current, budget>>

\* Claims, services and pods change.  An event of a pod queues a request for the pod's
\* own name, and is no news of the instance.
ClusterChanges ==
    /\ Spend("changes")
    /\ \/ claims' \in ClaimLists \ {claims} /\ UNCHANGED <<svcs, pods>>
       \/ /\ \E k \in Reported : svcs' = [svcs EXCEPT ![k] = CreatedService(k, minio.spec)]
          /\ minio.phase = "live" /\ svcs' # svcs
          /\ UNCHANGED <<claims, pods>>
       \/ /\ \E p \in PoolName, list \in PodLists : pods' = [pods EXCEPT ![p] = list]
          /\ pods' # pods
          /\ UNCHANGED <<claims, svcs>>
    /\ UNCHANGED <<minio, cache, queued, pc, copy, working, current>>

\* The service that has the instance's name is news of it, and so is a resync.
Resync ==
    /\ queued' \in {queued \cup {c} : c \in Controller}
    /\ queued' # queued
    /\ UNCHANGED <<minio, cluster, cache, pc, copy, working, current, budget>>

\* The user edits the specification, deletes the instance or creates it again.
UserChanges ==
    /\ Spend("changes")
    /\ \/ /\ minio.phase = "live"
          /\ \E spec \in Specs \ {minio.spec} : ChangeMinIO([minio EXCEPT !.spec = spec])
       \/ minio.phase = "live" /\ ChangeMinIO(NoMinIO)
       \/ minio.phase = "gone" /\ \E spec \in Specs : ChangeMinIO(NewMinIO("live", spec))
    /\ UNCHANGED <<cluster, seen, queued, pc, copy, working>>

\* Somebody gives the status of a new instance the arrays.
CompleteStatus ==
    /\ minio.phase = "live" /\ ~minio.lists
    /\ ChangeMinIO([minio EXCEPT !.lists = TRUE])
    /\ UNCHANGED <<cluster, seen, queued, pc, copy, working, budget>>

\* The process dies; the next one lists the object.
Restart ==
    /\ Spend("mishaps")
    /\ pc' = "idle" /\ copy' = NoMinIO /\ working' = FALSE /\ current' = {}
    /\ seen' = minio /\ seenCurrent' = TRUE
    /\ queued' = IF minio.phase = "live" THEN Controller ELSE {}
    /\ UNCHANGED <<minio, cluster>>

MinIOReconcile == BeginMinIO \/ EndMinIO \/ EndMinIOUnstored
Environment ==
    \/ HealthWrite \/ Sync \/ ClusterChanges \/ Resync \/ UserChanges \/ CompleteStatus
    \/ Restart

Next == Reconcile \/ MinIOReconcile \/ Environment

Spec == Init /\ [][Next]_vars

\* Each controller has a worker, and the watch delivers.  Nothing obliges a resync, a
\* user, a health check or a mishap to happen.
FairSpec == Spec /\ WF_vars(Reconcile) /\ WF_vars(MinIOReconcile) /\ WF_vars(Sync)

-----------------------------------------------------------------------------
(***************************************************************************)
(* Properties.                                                             *)
(***************************************************************************)
\* The types of the state.  Not by construction is that a report lists no more pools than
\* the copy it is made from (the loop of minio_status_controller.go:106).
TypeOK ==
    /\ minio \in MinIO /\ seen \in MinIO /\ copy \in MinIO
    /\ Len(copy.report.pools) <= Len(copy.spec.pools)
    /\ claims \in ClaimLists /\ pods \in [PoolName -> PodLists]
    /\ svcs \in [Reported -> ServiceContent]
    /\ seenCurrent \in BOOLEAN /\ working \in BOOLEAN
    /\ queued \subseteq Controller /\ current \subseteq Controller
    /\ pc \in Stage
    /\ budget \in [Disturbance -> Nat]

\* The status reconciler, whose round takes several calls, is to the readers of the object
\* a writer of its own fields in one step, as are the others, also when the instance is
\* replaced by a new one of its name during the round
\* (minio_status_controller.go:33-191).
ImplementsRegister == Register!Spec

\* The report has the pools and the numbers of servers of this specification.
Describes(report, spec) ==
    /\ DOMAIN report.pools = DOMAIN spec.pools
    /\ \A k \in DOMAIN spec.pools : /\ report.pools[k].name = spec.pools[k].name
                                    /\ report.pools[k].replicas = spec.pools[k].servers

\* A report that is stored is one of the pools the instance asks for at that moment, even
\* if the round read the object from an old cache and it was edited, deleted and created
\* again since (minio_status_controller.go:35, 106-146, 170-191).
ReportFitsSpec ==
    [][minio'.report \notin {minio.report, NoReport} => Describes(minio'.report, minio.spec)]_vars

\* What Completed says, however the writes of the controllers interleave: the instance has
\* pools, each of them has pods, the one that was listed last was running.  It does not say
\* that the earlier ones were (minio_status_controller.go:95-157; that a pool has pods is
\* the CRD's doing, which refuses the report otherwise).
CompletedBacked ==
    minio.status = "Completed" =>
        /\ minio.report.pools # << >>
        /\ \A k \in DOMAIN minio.report.pools :
              LET p == minio.report.pools[k]
              IN  /\ p.servers # << >> /\ p.servers[Len(p.servers)] = "Running"
                  /\ p.availableReplicas > 0

\* What a round would report if nothing changed during it.
ActualReport ==
    [claims    |-> claims,
     addresses |-> [k \in Reported |-> AddressOf(svcs[k], "node")],
     pools     |-> [k \in DOMAIN minio.spec.pools |->
                       PoolStatusOf(minio.spec.pools[k], pods[minio.spec.pools[k].name])]]

\* The other writers do not get ahead of the reconciler every time: of its writes, if there
\* are infinitely many, infinitely many meet no conflict, and none meets conflicts for ever.
\* Nothing in the code sees to this.
WritesCurrent == pc = "write" /\ pc' # "write" /\ "status" \in current
WinsRaces == <>[](pc # "write") \/ []<><<WritesCurrent>>_vars

\* When the cluster has come to rest in a state that can be reported, the report is of the
\* cluster as it is, through stale caches, dropped and refused writes, failed lists, lost
\* answers and restarts, and although the health checker writes for ever.  No event tells
\* the reconciler of a pod; what keeps it going is the requeue of every round that is not
\* Completed, and the MinIO reconciler's Running after every Completed
\* (minio_status_controller.go:163-165, 209-218).
ReportCatchesUp ==
    WinsRaces =>
        <>[](minio.phase = "live" /\ Storable(ActualReport) => minio.report = ActualReport)
=============================================================================
