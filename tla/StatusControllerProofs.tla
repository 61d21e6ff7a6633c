------------------------ MODULE StatusControllerProofs ------------------------
(***************************************************************************)
(* The status reconciler, for every set of specifications, of lists of     *)
(* pods and of claims and every number of disturbances: what it stores is  *)
(* well formed and fits the instance, and to the readers of the object its *)
(* round is one step.                                                      *)
(***************************************************************************)
EXTENDS StatusController, FiniteSetTheorems, WellFoundedInduction, TLAPS

-----------------------------------------------------------------------------
(***************************************************************************)
(* The operators.                                                          *)
(***************************************************************************)
\* A non-empty set of indices has a last one.
LEMMA LastIndex ==
    ASSUME NEW n \in Nat, NEW S \in SUBSET (1..n), S # {}
    PROVE  \E k \in S : \A j \in S : j <= k
  <1> DEFINE After(k) == {j \in S : j > k}
             F == {After(k) : k \in S}
  <1>1. \A k \in S : k \in Int
    OBVIOUS
  <1>2. F \subseteq FiniteSubsetsOf(1..n) /\ F # {}
    <2>1. IsFiniteSet(1..n)
      BY FS_Interval
    <2>2. ASSUME NEW k \in S PROVE After(k) \in FiniteSubsetsOf(1..n)
      <3>1. After(k) \in SUBSET (1..n)
        OBVIOUS
      <3>2. IsFiniteSet(After(k))
        BY <2>1, <3>1, FS_Subset
      <3> QED  BY <3>1, <3>2 DEF FiniteSubsetsOf
    <2> QED  BY <2>2
  <1>3. PICK x \in F : \A y \in F : ~ (<<y, x>> \in StrictSubsetOrdering(1..n))
    BY <1>2, WFMin, FS_StrictSubsetOrderingWellFounded
  <1>4. PICK k \in S : x = After(k)
    OBVIOUS
  <1>5. ASSUME NEW j \in S, j > k PROVE FALSE
    <2>1. j \in After(k) /\ j \notin After(j)
      BY <1>1, <1>5
    <2>2. \A i \in After(j) : i \in After(k)
      <3>1. SUFFICES ASSUME NEW i \in S, i > j PROVE i > k
        OBVIOUS
      <3> QED  BY <1>1, <1>5, <3>1
    <2>3. After(j) \subseteq x /\ After(j) # x
      BY <1>4, <2>1, <2>2
    <2>4. After(j) \in F /\ After(j) \in SUBSET (1..n) /\ x \in SUBSET (1..n)
      BY <1>4
    <2>5. <<After(j), x>> \in StrictSubsetOrdering(1..n)
      <3> HIDE DEF F, After
      <3> QED  BY <2>3, <2>4 DEF StrictSubsetOrdering
    <2> QED  BY <1>3, <2>4, <2>5
  <1> QED  BY <1>1, <1>5

\* A specification has a list of pools.
LEMMA SpecType ==
    ASSUME NEW spec \in Specs \cup {EmptySpec}
    PROVE  /\ spec.pools \in Seq(Pool)
           /\ \A k \in DOMAIN spec.pools : spec.pools[k] \in Pool
  <1>1. CASE spec = EmptySpec
    <2>1. spec.pools = << >>
      BY <1>1 DEF EmptySpec
    <2> QED  BY <2>1
  <1>2. CASE spec \in Specs
    <2>1. spec.pools \in Seq(Pool)
      BY <1>2, SpecsAssumption DEF MinIOSpec
    <2> QED  BY <2>1
  <1> QED  BY <1>1, <1>2

\* The running pods of a list are finitely many, and some if the last one runs.
LEMMA RunningPods ==
    ASSUME NEW list \in Seq(PodPhase)
    PROVE  LET n == Cardinality({i \in DOMAIN list : list[i] = "Running"})
           IN  n \in Nat /\ (list # << >> /\ list[Len(list)] = "Running" => n > 0)
  <1> DEFINE R == {i \in DOMAIN list : list[i] = "Running"}
  <1>1. DOMAIN list = 1..Len(list) /\ Len(list) \in Nat
    OBVIOUS
  <1>2. IsFiniteSet(R)
    <2>1. IsFiniteSet(1..Len(list)) /\ R \in SUBSET (1..Len(list))
      BY <1>1, FS_Interval
    <2> QED  BY <2>1, FS_Subset
  <1>3. Cardinality(R) \in Nat
    BY <1>2, FS_CardinalityType
  <1>4. ASSUME list # << >>, list[Len(list)] = "Running" PROVE Cardinality(R) # 0
    <2>1. Len(list) \in R
      BY <1>1, <1>4
    <2> QED  BY <1>2, <2>1, FS_EmptySet
  <1> QED  BY <1>3, <1>4

\* What a pool's status is made of.
LEMMA PoolStatusType ==
    ASSUME NEW pool \in Pool, NEW list \in PodLists
    PROVE  PoolStatusOf(pool, list) \in PoolStatus
  <1>1. list \in Seq(PodPhase)
    BY ListsAssumption
  <1>2. PoolDeployStatus(list) \in {"", "Completed", "Running", "Failed"}
    BY DEF PoolDeployStatus
  <1> QED  BY <1>1, <1>2, RunningPods DEF PoolStatusOf, PoolStatus, Pool

\* The deployment is Completed when no pool counts against it, and else as such a pool.
LEMMA DeployStatusType ==
    ASSUME NEW pools \in Seq(PoolStatus)
    PROVE  /\ DeployStatusOf(pools) \in {"Completed", "Running", "Failed"}
           /\ DeployStatusOf(pools) = "Completed" => Incomplete(pools) = {}
  <1>1. CASE Incomplete(pools) = {}
    BY <1>1 DEF DeployStatusOf
  <1>2. CASE Incomplete(pools) # {}
    <2> DEFINE last == CHOOSE k \in Incomplete(pools) : \A j \in Incomplete(pools) : j <= k
    <2>1. Incomplete(pools) \in SUBSET (1..Len(pools)) /\ Len(pools) \in Nat
      BY DEF Incomplete
    <2>2. last \in Incomplete(pools)
      BY <1>2, <2>1, LastIndex
    <2>3. DeployStatusOf(pools) = pools[last].status
      BY <1>2 DEF DeployStatusOf
    <2> HIDE DEF last
    <2> QED  BY <2>2, <2>3 DEF Incomplete
  <1> QED  BY <1>1, <1>2

-----------------------------------------------------------------------------
(***************************************************************************)
(* The types of the state.                                                 *)
(***************************************************************************)
\* The actions of the status reconciler that go on with the round, and what they make of
\* the copy.
Reading == ListClaims \/ ListServices \/ ListPods \/ Conclude

\* An object without a status has the type.
LEMMA NewMinIOType ==
    ASSUME NEW phase \in {"live", "gone"}, NEW spec \in Specs \cup {EmptySpec}
    PROVE  NewMinIO(phase, spec) \in MinIO /\ NoMinIO \in MinIO
  <1>1. NoReport \in Report
    <2>1. [k \in Reported |-> ""] \in [Reported -> Address] /\ << >> \in Seq(PoolStatus)
      BY DEF Address
    <2> DEFINE a == [k \in Reported |-> ""]
    <2>2. NoReport = [claims |-> "", addresses |-> a, pools |-> << >>]
      BY DEF NoReport
    <2> HIDE DEF a
    <2> QED  BY <2>1, <2>2, ListsAssumption DEF Report, a
  <1> QED  BY <1>1 DEF NewMinIO, NoMinIO, MinIO, DeployStatus, HealthStatus

\* An object that is gone reports no more pools than it has.
LEMMA NoMinIOPools == Len(NoMinIO.report.pools) <= Len(NoMinIO.spec.pools)
  <1>1. NoMinIO.report.pools = << >> /\ NoMinIO.spec.pools = << >>
    BY DEF NoMinIO, NewMinIO, NoReport, EmptySpec
  <1> QED  BY <1>1

\* A call that lists something keeps the types of the copy.
LEMMA ReadingType ==
    ASSUME TypeOK, Reading
    PROVE  /\ copy' \in MinIO /\ pc' \in Stage
           /\ Len(copy'.report.pools) <= Len(copy'.spec.pools)
           /\ copy'.spec = copy.spec
           /\ budget' \in [Disturbance -> Nat]
           /\ UNCHANGED <<minio, cluster, cache, queued, working, current>>
  <1>0. /\ copy \in MinIO /\ copy.report \in Report /\ copy.report.pools \in Seq(PoolStatus)
        /\ copy.spec \in Specs \cup {EmptySpec} /\ copy.spec.pools \in Seq(Pool)
        /\ Len(copy.report.pools) \in Nat /\ Len(copy.spec.pools) \in Nat
        /\ Len(copy.report.pools) <= Len(copy.spec.pools)
    <2>1. copy \in MinIO /\ copy.report \in Report /\ copy.report.pools \in Seq(PoolStatus)
      BY DEF TypeOK, MinIO, Report
    <2>2. copy.spec \in Specs \cup {EmptySpec}
      BY DEF TypeOK, MinIO
    <2> QED  BY <2>1, <2>2, SpecType DEF TypeOK
  <1>1. CASE ListClaims
    <2>1. copy' = [copy EXCEPT !.report.claims = claims] /\ claims \in ClaimLists
      BY <1>1 DEF ListClaims, Call, TypeOK
    <2>2. copy'.report = [copy.report EXCEPT !.claims = claims] /\ copy'.spec = copy.spec
      BY <1>0, <2>1 DEF MinIO
    <2>3. copy'.report \in Report /\ copy'.report.pools = copy.report.pools
      BY <1>0, <2>1, <2>2 DEF Report
    <2>4. copy' \in MinIO
      BY <1>0, <2>1, <2>2, <2>3 DEF MinIO
    <2> QED  BY <1>0, <1>1, <2>2, <2>3, <2>4 DEF ListClaims, Call, Stage, TypeOK
  <1>2. CASE ListServices
    <2>1. PICK node \in [Reported -> NodeIP] :
             copy' = [copy EXCEPT !.report.addresses =
                         [k \in Reported |-> AddressOf(svcs[k], node[k])]]
      BY <1>2 DEF ListServices, Call
    <2> DEFINE a == [k \in Reported |-> AddressOf(svcs[k], node[k])]
    <2>2. a \in [Reported -> Address]
      BY DEF AddressOf, Address, NodeIP, TypeOK, ServiceContent
    <2> HIDE DEF a
    <2>3. copy'.report = [copy.report EXCEPT !.addresses = a] /\ copy'.spec = copy.spec
      BY <1>0, <2>1 DEF MinIO, a
    <2>4. copy'.report \in Report /\ copy'.report.pools = copy.report.pools
      BY <1>0, <2>2, <2>3 DEF Report
    <2>5. copy' \in MinIO
      BY <1>0, <2>1, <2>3, <2>4 DEF MinIO
    <2>6. budget' \in [Disturbance -> Nat]
      BY <1>2 DEF ListServices, Spend, TypeOK, Disturbance
    <2> QED  BY <1>0, <1>2, <2>3, <2>4, <2>5, <2>6 DEF ListServices, Call, Stage, TypeOK
  <1>3. CASE ListPods
    <2> DEFINE k == Len(copy.report.pools) + 1
               s == PoolStatusOf(copy.spec.pools[k], pods[copy.spec.pools[k].name])
    <2>1. /\ k \in DOMAIN copy.spec.pools
          /\ copy' = [copy EXCEPT !.report.pools = Append(@, s)]
      BY <1>3 DEF ListPods, Call
    <2>2. s \in PoolStatus
      <3>1. copy.spec.pools[k] \in Pool
        BY <1>0, <2>1
      <3>2. pods[copy.spec.pools[k].name] \in PodLists
        BY <3>1 DEF Pool, TypeOK
      <3> QED  BY <3>1, <3>2, PoolStatusType
    <2> HIDE DEF s
    <2>3. /\ Append(copy.report.pools, s) \in Seq(PoolStatus)
          /\ Len(Append(copy.report.pools, s)) <= Len(copy.spec.pools)
      BY <1>0, <2>1, <2>2
    <2>4. /\ copy'.report = [copy.report EXCEPT !.pools = Append(copy.report.pools, s)]
          /\ copy'.spec = copy.spec
      BY <1>0, <2>1 DEF MinIO, Report
    <2>5. copy'.report \in Report /\ copy'.report.pools = Append(copy.report.pools, s)
      BY <1>0, <2>3, <2>4 DEF Report
    <2>6. copy' \in MinIO
      BY <1>0, <2>1, <2>4, <2>5 DEF MinIO, Report
    <2> QED  BY <1>3, <2>3, <2>4, <2>5, <2>6 DEF ListPods, Call, Stage, TypeOK
  <1>4. CASE Conclude
    <2>1. copy' = [copy EXCEPT !.status = DeployStatusOf(copy.report.pools)]
      BY <1>4 DEF Conclude, Call
    <2>2. DeployStatusOf(copy.report.pools) \in DeployStatus
      BY <1>0, DeployStatusType DEF DeployStatus
    <2>3. copy' \in MinIO /\ copy'.report = copy.report /\ copy'.spec = copy.spec
      BY <1>0, <2>1, <2>2 DEF MinIO
    <2> QED  BY <1>0, <1>4, <2>3 DEF Conclude, Call, Stage, TypeOK
  <1> QED  BY <1>1, <1>2, <1>3, <1>4 DEF Reading

\* The actions of the status reconciler that write, or try to.
Writing == WriteAccepted \/ WriteConflict \/ WriteInvalid \/ WriteFails

\* A write ends the round and stores nothing, or the copy if it is of the latest version
\* and its report has no empty list.
LEMMA WritingStep ==
    ASSUME TypeOK, Writing
    PROVE  /\ pc = "write" /\ pc' = "idle" /\ copy' = NoMinIO
           /\ \/ UNCHANGED <<minio, seenCurrent, current>>
              \/ /\ minio.phase = "live" /\ "status" \in current /\ Storable(copy.report)
                 /\ minio' = Stored(copy) /\ seenCurrent' = FALSE /\ current' = {}
           /\ UNCHANGED <<cluster, seen, working>>
           /\ queued' \subseteq Controller
           /\ budget' \in [Disturbance -> Nat]
  <1>1. ASSUME NEW again \in BOOLEAN, Return(again)
        PROVE  pc' = "idle" /\ copy' = NoMinIO /\ queued' \subseteq Controller
    BY <1>1 DEF Return, TypeOK, Controller
  <1>2. ASSUME StoreStatus(Stored(copy)), Accepted
        PROVE  /\ minio.phase = "live" /\ "status" \in current /\ Storable(copy.report)
               /\ \/ UNCHANGED <<minio, seenCurrent, current>>
                  \/ minio' = Stored(copy) /\ seenCurrent' = FALSE /\ current' = {}
    BY <1>2 DEF StoreStatus, ChangeMinIO, Accepted
  <1>3. CASE WriteAccepted
    BY <1>1, <1>2, <1>3 DEF WriteAccepted, ReturnAfterWrite, Accepted, TypeOK
  <1>4. CASE WriteConflict
    BY <1>1, <1>4 DEF WriteConflict, ReturnAfterWrite, TypeOK, cache
  <1>5. CASE WriteInvalid
    BY <1>1, <1>5 DEF WriteInvalid, TypeOK, cache
  <1>6. CASE WriteFails
    <2>1. ASSUME Spend("mishaps") PROVE budget' \in [Disturbance -> Nat]
      BY <2>1 DEF Spend, TypeOK, Disturbance
    <2> QED  BY <1>1, <1>2, <1>6, <2>1 DEF WriteFails, TypeOK
  <1> QED  BY <1>3, <1>4, <1>5, <1>6 DEF Writing

\* The actions of the others that may change the object.
Others == EndMinIO \/ HealthWrite \/ UserChanges \/ CompleteStatus

\* They change the status of the MinIO reconciler, the health, or what the user may change.
LEMMA OthersStep ==
    ASSUME TypeOK, Others
    PROVE  /\ \/ UNCHANGED <<minio, seenCurrent, current>>
              \/ /\ seenCurrent' = FALSE /\ current' = {}
                 /\ \/ /\ minio.phase = "live"
                       /\ \/ minio' = [minio EXCEPT !.status = IF @ = "" THEN "None" ELSE "Running"]
                          \/ minio' = [minio EXCEPT !.status = "Failed"]
                          \/ \E h \in {"Unknown", "Health", "UnHealth"} :
                                /\ h # "Unknown" => minio.status = "Completed"
                                /\ minio' = [minio EXCEPT !.health = h]
                          \/ \E spec \in Specs : minio' = [minio EXCEPT !.spec = spec]
                          \/ minio' = NoMinIO
                          \/ minio' = [minio EXCEPT !.lists = TRUE]
                    \/ minio.phase = "gone" /\ \E spec \in Specs : minio' = NewMinIO("live", spec)
           /\ UNCHANGED <<cluster, seen, pc, copy>>
           /\ queued' \subseteq Controller /\ working' \in BOOLEAN
           /\ budget' \in [Disturbance -> Nat]
  <1>1. \A kind \in Disturbance : Spend(kind) => budget' \in [Disturbance -> Nat]
    BY DEF Spend, TypeOK, Disturbance
  <1>2. CASE EndMinIO
    BY <1>1, <1>2 DEF EndMinIO, StoreStatus, ChangeMinIO, TypeOK, Controller, Disturbance
  <1>3. CASE HealthWrite
    BY <1>1, <1>3 DEF HealthWrite, ChangeMinIO, TypeOK, Disturbance
  <1>4. CASE UserChanges
    BY <1>1, <1>4 DEF UserChanges, ChangeMinIO, TypeOK, Disturbance
  <1>5. CASE CompleteStatus
    BY <1>5 DEF CompleteStatus, ChangeMinIO, TypeOK
  <1> QED  BY <1>2, <1>3, <1>4, <1>5 DEF Others

\* What is stored has the type of the object.
LEMMA ObjectType ==
    ASSUME TypeOK, Writing \/ Others
    PROVE  minio' \in MinIO
  <1>0. minio \in MinIO /\ copy \in MinIO /\ NoMinIO \in MinIO
    BY NewMinIOType DEF TypeOK
  <1>1. CASE Writing
    BY <1>0, <1>1, WritingStep DEF Stored, MinIO
  <1>2. CASE Others
    <2>1. /\ [minio EXCEPT !.status = IF @ = "" THEN "None" ELSE "Running"] \in MinIO
          /\ [minio EXCEPT !.status = "Failed"] \in MinIO
          /\ \A h \in {"Unknown", "Health", "UnHealth"} : [minio EXCEPT !.health = h] \in MinIO
          /\ \A spec \in Specs : [minio EXCEPT !.spec = spec] \in MinIO
          /\ [minio EXCEPT !.lists = TRUE] \in MinIO
      BY <1>0 DEF MinIO, DeployStatus, HealthStatus
    <2>2. \A spec \in Specs : NewMinIO("live", spec) \in MinIO
      BY NewMinIOType
    <2> QED  BY <1>0, <1>2, <2>1, <2>2, OthersStep
  <1> QED  BY <1>1, <1>2

\* Every step keeps to the types of the state.
LEMMA TypeStep ==
    ASSUME TypeOK, [Next]_vars
    PROVE  TypeOK'
  <1>0. copy' = NoMinIO => copy' \in MinIO /\ Len(copy'.report.pools) <= Len(copy'.spec.pools)
    BY NewMinIOType, NoMinIOPools
  <1>1. \A kind \in Disturbance : Spend(kind) => budget' \in [Disturbance -> Nat]
    BY DEF Spend, TypeOK, Disturbance
  <1>2. CASE BeginMissing
    BY <1>2 DEF BeginMissing, TypeOK, vars, cluster, cache
  <1>3. CASE Begin
    <2>1. copy' \in MinIO /\ copy'.report = NoReport /\ copy'.spec = seen.spec
      BY <1>3, NewMinIOType DEF Begin, TypeOK, MinIO, NoMinIO, NewMinIO
    <2>2. seen.spec.pools \in Seq(Pool)
      BY SpecType DEF TypeOK, MinIO
    <2>3. Len(copy'.report.pools) <= Len(copy'.spec.pools)
      <3>1. NoReport.pools = << >>
        BY DEF NoReport
      <3> QED  BY <2>1, <2>2, <3>1
    <2>4. current' \subseteq Controller /\ queued' \subseteq Controller
      BY <1>3 DEF Begin, TakeCopy, TypeOK, Controller
    <2> QED  BY <1>3, <2>1, <2>3, <2>4 DEF Begin, TypeOK, Stage, cluster, cache
  <1>4. CASE Reading
    BY <1>4, ReadingType DEF TypeOK, cluster, cache
  <1>5. CASE ListFails
    BY <1>0, <1>1, <1>5
       DEF ListFails, Return, TypeOK, cluster, cache, Controller, Disturbance, Stage
  <1>6. CASE Writing
    BY <1>0, <1>6, WritingStep, ObjectType DEF TypeOK, cluster, Stage
  <1>7. CASE Others
    BY <1>7, OthersStep, ObjectType DEF TypeOK, cluster
  <1>8. CASE BeginMinIO
    <2>1. current' \subseteq Controller /\ queued' \subseteq Controller
      BY <1>8 DEF BeginMinIO, TakeCopy, TypeOK, Controller
    <2> QED  BY <1>8, <2>1 DEF BeginMinIO, TypeOK, cluster, cache
  <1>9. CASE EndMinIOUnstored
    BY <1>9 DEF EndMinIOUnstored, TypeOK, Controller, cluster, cache
  <1>10. CASE Sync \/ Resync
    BY <1>10 DEF Sync, Resync, TypeOK, Controller, cluster, cache
  <1>11. CASE ClusterChanges
    <2>1. ASSUME NEW k \in Reported PROVE CreatedService(k, minio.spec) \in ServiceContent
      BY <2>1 DEF Reported, CreatedService, NewServiceForMinIO, NewConsoleServiceForMinIO,
                  NewHeadlessServiceForMinIO, ServiceContent
    <2>2. /\ claims' \in ClaimLists /\ pods' \in [PoolName -> PodLists]
          /\ svcs' \in [Reported -> ServiceContent]
      BY <1>11, <2>1 DEF ClusterChanges, TypeOK
    <2> QED  BY <1>1, <1>11, <2>2 DEF ClusterChanges, TypeOK, cache, Disturbance
  <1>12. CASE Restart
    BY <1>0, <1>1, <1>12 DEF Restart, TypeOK, cluster, Controller, Disturbance, Stage
  <1>13. CASE UNCHANGED vars
    BY <1>13 DEF TypeOK, vars, cluster, cache
  <1> QED  BY <1>2, <1>3, <1>4, <1>5, <1>6, <1>7, <1>8, <1>9, <1>10, <1>11, <1>12, <1>13
           DEF Next, Reconcile, Reading, Writing, MinIOReconcile, Environment, Others

\* Every reachable state of the status reconciler and of what it runs against is well
\* typed; a round never lists more pools than its copy of the instance has.
THEOREM ControllerTypeCorrect == Spec => []TypeOK
  <1>1. Init => TypeOK
    <2> SUFFICES ASSUME Init PROVE TypeOK
      OBVIOUS
    <2>1. minio \in MinIO /\ NoMinIO \in MinIO
      BY NewMinIOType DEF Init
    <2>2. Len(copy.report.pools) <= Len(copy.spec.pools)
      BY NoMinIOPools DEF Init
    <2>3. NoService \in ServiceContent
      BY DEF NoService, ServiceContent
    <2> QED  BY <2>1, <2>2, <2>3, ListsAssumption, BudgetAssumption
             DEF Init, TypeOK, Stage, Controller
  <1> QED  BY <1>1, TypeStep, PTL DEF Spec

-----------------------------------------------------------------------------
(***************************************************************************)
(* What is reported of a pool is what its list of pods says.               *)
(***************************************************************************)
Counted(p) ==
    /\ p.status = PoolDeployStatus(p.servers)
    /\ p.availableReplicas = Cardinality({i \in DOMAIN p.servers : p.servers[i] = "Running"})

AllCounted(pools) == \A k \in DOMAIN pools : Counted(pools[k])

\* The MinIO reconciler and the health checker never write Completed, so that the report
\* that was stored with it is still there: it has no empty list, and no pool of it counts
\* against it.
ReportsInv ==
    /\ AllCounted(minio.report.pools)
    /\ AllCounted(copy.report.pools)
    /\ pc = "write" => copy.status = DeployStatusOf(copy.report.pools)
    /\ minio.status = "Completed" =>
          Storable(minio.report) /\ Incomplete(minio.report.pools) = {}

\* No report has nothing to count.
LEMMA NothingCounted ==
    AllCounted(NoReport.pools) /\ AllCounted(NoMinIO.report.pools) /\ NoMinIO.status = ""
  <1>1. NoMinIO.report = NoReport /\ NoMinIO.status = ""
    BY DEF NoMinIO, NewMinIO
  <1>2. NoReport.pools = << >>
    BY DEF NoReport
  <1>3. AllCounted(<< >>)
    BY DEF AllCounted
  <1> QED  BY <1>1, <1>2, <1>3

\* A round lists a pool after those it has listed.
LEMMA ListPodsStep ==
    ASSUME TypeOK, ListPods
    PROVE  LET k == Len(copy.report.pools) + 1
               pool == copy.spec.pools[k]
           IN  /\ k \in DOMAIN copy.spec.pools
               /\ copy'.report.pools = Append(copy.report.pools, PoolStatusOf(pool, pods[pool.name]))
               /\ copy'.phase = copy.phase /\ copy'.spec = copy.spec /\ copy'.health = copy.health
               /\ pc = "pods" /\ pc' = "pods"
  BY DEF ListPods, Call, TypeOK, MinIO, Report

\* The other calls of a round leave the pools alone.
LEMMA OtherReadingStep ==
    ASSUME TypeOK, ListClaims \/ ListServices \/ Conclude
    PROVE  /\ copy'.report.pools = copy.report.pools
           /\ copy'.phase = copy.phase /\ copy'.spec = copy.spec /\ copy'.health = copy.health
           /\ pc # "idle"
           /\ pc' = "write" => /\ copy'.status = DeployStatusOf(copy.report.pools)
                               /\ Len(copy.report.pools) = Len(copy.spec.pools)
  <1>1. copy \in MinIO /\ copy.report \in Report
    BY DEF TypeOK, MinIO
  <1>2. CASE ListClaims
    BY <1>1, <1>2 DEF ListClaims, Call, MinIO, Report
  <1>3. CASE ListServices
    BY <1>1, <1>3 DEF ListServices, Call, MinIO, Report
  <1>4. CASE Conclude
    BY <1>1, <1>4 DEF Conclude, Call, MinIO, Report
  <1> QED  BY <1>2, <1>3, <1>4

\* A step that is neither a call of a round nor a write of anybody: the object is as it
\* was, and the round is where it was, over, or at its beginning.
LEMMA QuietStep ==
    ASSUME TypeOK, [Next]_vars, ~Reading, ~Writing, ~Others
    PROVE  /\ minio' = minio
           /\ seenCurrent' => seen' = minio \/ (seenCurrent /\ seen' = seen)
           /\ \/ UNCHANGED <<pc, copy>> /\ ("status" \in current' => "status" \in current)
              \/ pc' = "idle" /\ copy' = NoMinIO
              \/ /\ pc = "idle" /\ pc' = "claims" /\ copy' = [seen EXCEPT !.report = NoReport]
                 /\ "status" \in current' => seenCurrent
  <1>1. CASE BeginMissing \/ Begin \/ ListFails
    BY <1>1 DEF BeginMissing, Begin, ListFails, Return, TakeCopy, vars, cache
  <1>2. CASE BeginMinIO \/ EndMinIOUnstored \/ Sync \/ Resync \/ ClusterChanges
    BY <1>2 DEF BeginMinIO, EndMinIOUnstored, Sync, Resync, ClusterChanges, TakeCopy, cache
  <1>3. CASE Restart \/ UNCHANGED vars
    BY <1>3 DEF Restart, vars, cache
  <1> QED  BY <1>1, <1>2, <1>3
           DEF Next, Reconcile, Reading, Writing, MinIOReconcile, Environment, Others

\* Of the others, only the user touches a report, and takes it away; nobody but the status
\* reconciler writes Completed.
LEMMA OthersReport ==
    ASSUME TypeOK, Others
    PROVE  \/ minio'.report = minio.report
              /\ minio'.status \in {minio.status, "None", "Running", "Failed"}
           \/ minio'.report = NoReport /\ minio'.status = ""
  <1>1. minio \in MinIO
    BY DEF TypeOK
  <1>2. \/ minio' = minio
        \/ minio' = [minio EXCEPT !.status = IF @ = "" THEN "None" ELSE "Running"]
        \/ minio' = [minio EXCEPT !.status = "Failed"]
        \/ \E h \in {"Unknown", "Health", "UnHealth"} : minio' = [minio EXCEPT !.health = h]
        \/ \E spec \in Specs : minio' = [minio EXCEPT !.spec = spec]
        \/ minio' = [minio EXCEPT !.lists = TRUE]
        \/ \E phase \in {"live", "gone"}, spec \in Specs \cup {EmptySpec} :
              minio' = NewMinIO(phase, spec)
    BY OthersStep DEF NoMinIO
  <1>3. ASSUME NEW s, minio' = [minio EXCEPT !.status = s]
        PROVE  minio'.report = minio.report /\ minio'.status = s
    BY <1>1, <1>3 DEF MinIO
  <1>4. ASSUME NEW h, minio' = [minio EXCEPT !.health = h]
        PROVE  minio'.report = minio.report /\ minio'.status = minio.status
    BY <1>1, <1>4 DEF MinIO
  <1>5. ASSUME NEW spec, minio' = [minio EXCEPT !.spec = spec]
        PROVE  minio'.report = minio.report /\ minio'.status = minio.status
    BY <1>1, <1>5 DEF MinIO
  <1>6. ASSUME NEW phase, NEW spec, minio' = NewMinIO(phase, spec)
        PROVE  minio'.report = NoReport /\ minio'.status = ""
    BY <1>6 DEF NewMinIO
  <1>7. CASE minio' = [minio EXCEPT !.status = IF @ = "" THEN "None" ELSE "Running"]
    BY <1>3, <1>7
  <1>8. CASE minio' = [minio EXCEPT !.lists = TRUE]
    BY <1>1, <1>8 DEF MinIO
  <1> QED  BY <1>2, <1>3, <1>4, <1>5, <1>6, <1>7, <1>8

\* Every step keeps the invariant of the reports.
LEMMA ReportsStep ==
    ASSUME TypeOK, ReportsInv, [Next]_vars
    PROVE  ReportsInv'
  <1>0. /\ minio \in MinIO /\ copy \in MinIO /\ seen \in MinIO
        /\ minio.report.pools \in Seq(PoolStatus) /\ copy.report.pools \in Seq(PoolStatus)
    BY DEF TypeOK, MinIO, Report
  <1>1. CASE ListPods
    <2> DEFINE pools == copy.report.pools
               pool == copy.spec.pools[Len(pools) + 1]
               s == PoolStatusOf(pool, pods[pool.name])
    <2>1. Counted(s)
      BY DEF Counted, PoolStatusOf
    <2>2. copy'.report.pools = Append(pools, s) /\ pc' = "pods" /\ minio' = minio
      BY <1>1, ListPodsStep DEF ListPods
    <2> HIDE DEF s
    <2>3. /\ DOMAIN Append(pools, s) = 1..Len(pools) + 1 /\ DOMAIN pools = 1..Len(pools)
          /\ \A k \in DOMAIN pools : Append(pools, s)[k] = pools[k]
          /\ Append(pools, s)[Len(pools) + 1] = s
          /\ Len(pools) \in Nat
      BY <1>0
    <2>4. AllCounted(Append(pools, s))
      BY <2>1, <2>3 DEF AllCounted, ReportsInv
    <2> QED  BY <2>2, <2>4 DEF ReportsInv
  <1>2. CASE ListClaims \/ ListServices \/ Conclude
    <2>1. minio' = minio
      BY <1>2 DEF ListClaims, ListServices, Conclude
    <2> QED  BY <1>2, <2>1, OtherReadingStep DEF ReportsInv
  <1>3. CASE Writing
    <2>1. /\ pc = "write" /\ pc' = "idle" /\ copy' = NoMinIO
          /\ minio' = minio \/ (minio' = Stored(copy) /\ Storable(copy.report))
      BY <1>3, WritingStep
    <2>2. CASE minio' = minio
      BY <2>1, <2>2, NothingCounted DEF ReportsInv
    <2>3. CASE minio' = Stored(copy)
      <3>1. minio'.report = copy.report /\ minio'.status = copy.status
        BY <1>0, <2>3 DEF Stored, MinIO
      <3> QED  BY <1>0, <2>1, <3>1, NothingCounted, DeployStatusType DEF ReportsInv
    <2> QED  BY <2>1, <2>2, <2>3
  <1>4. CASE Others
    <2>1. UNCHANGED <<pc, copy>>
      BY <1>4, OthersStep
    <2> QED  BY <1>4, <2>1, OthersReport, NothingCounted DEF ReportsInv
  <1>5. CASE ~Reading /\ ~Writing /\ ~Others
    <2>1. /\ minio' = minio
          /\ \/ UNCHANGED <<pc, copy>>
             \/ pc' = "idle" /\ copy' = NoMinIO
             \/ pc' = "claims" /\ copy'.report = NoReport
      BY <1>0, <1>5, QuietStep DEF MinIO
    <2> QED  BY <2>1, NothingCounted DEF ReportsInv
  <1> QED  BY <1>1, <1>2, <1>3, <1>4, <1>5 DEF Reading

\* An instance that is Completed has a report with pools, each of them with pods of which
\* the one listed last runs, whatever the other controllers wrote before and since
\* (minio_status_controller.go:117-157).
THEOREM CompletedIsBacked == Spec => []CompletedBacked
  <1>1. Init => ReportsInv
    <2> SUFFICES ASSUME Init PROVE ReportsInv
      OBVIOUS
    <2>1. PICK spec \in Specs : minio = NewMinIO("live", spec)
      BY DEF Init
    <2>2. minio.report = NoReport /\ minio.status = ""
      BY <2>1 DEF NewMinIO
    <2>3. copy = NoMinIO /\ pc = "idle"
      BY DEF Init
    <2> QED  BY <2>2, <2>3, NothingCounted DEF ReportsInv
  <1>2. TypeOK /\ ReportsInv /\ [Next]_vars => ReportsInv'
    BY ReportsStep
  <1>3. TypeOK /\ ReportsInv => CompletedBacked
    <2> SUFFICES ASSUME TypeOK, ReportsInv, minio.status = "Completed",
                        NEW k \in DOMAIN minio.report.pools
                 PROVE  LET p == minio.report.pools[k]
                        IN  /\ p.servers # << >> /\ p.servers[Len(p.servers)] = "Running"
                            /\ p.availableReplicas > 0
      BY DEF CompletedBacked, ReportsInv, Storable
    <2> DEFINE p == minio.report.pools[k]
    <2>1. p \in PoolStatus
      BY DEF TypeOK, MinIO, Report
    <2>2. p.status \notin {"Failed", "Running"} /\ Counted(p) /\ p.servers # << >>
      BY DEF ReportsInv, AllCounted, Incomplete, Storable
    <2> HIDE DEF p
    <2>3. p.servers # << >> /\ p.servers \in Seq(PodPhase)
      BY <2>1, <2>2 DEF PoolStatus
    <2>4. p.servers[Len(p.servers)] = "Running"
      BY <2>2, <2>3 DEF Counted, PoolDeployStatus
    <2> QED  BY <2>2, <2>3, <2>4, RunningPods DEF Counted, p
  <1> QED  BY <1>1, <1>2, <1>3, ControllerTypeCorrect, PTL DEF Spec

-----------------------------------------------------------------------------
(***************************************************************************)
(* A copy of the latest version differs from the object only in what the   *)
(* status reconciler writes, and its report is of its specification's      *)
(* pools.                                                                  *)
(***************************************************************************)
\* The pools listed so far are the first ones of the specification.
Follows(pools, spec) ==
    \A k \in DOMAIN pools : /\ pools[k].name = spec.pools[k].name
                            /\ pools[k].replicas = spec.pools[k].servers

CopyInv ==
    /\ seenCurrent => seen = minio
    /\ "status" \in current /\ pc # "idle" =>
          copy.phase = minio.phase /\ copy.spec = minio.spec /\ copy.health = minio.health
    /\ Follows(copy.report.pools, copy.spec)
    /\ pc = "write" => Len(copy.report.pools) = Len(copy.spec.pools)

\* No report follows every specification.
LEMMA NothingFollows ==
    Follows(NoMinIO.report.pools, NoMinIO.spec) /\ \A spec : Follows(NoReport.pools, spec)
  <1>1. NoMinIO.report = NoReport
    BY DEF NoMinIO, NewMinIO
  <1>2. NoReport.pools = << >>
    BY DEF NoReport
  <1>3. \A spec : Follows(<< >>, spec)
    BY DEF Follows
  <1> QED  BY <1>1, <1>2, <1>3

\* Every step keeps the invariant of the copy.
LEMMA CopyStep ==
    ASSUME TypeOK, CopyInv, [Next]_vars
    PROVE  CopyInv'
  <1>0. /\ minio \in MinIO /\ copy \in MinIO /\ seen \in MinIO
        /\ copy.report.pools \in Seq(PoolStatus) /\ copy.spec.pools \in Seq(Pool)
        /\ copy.spec \in Specs \cup {EmptySpec}
    BY SpecType DEF TypeOK, MinIO, Report
  <1>1. CASE ListPods
    <2> DEFINE pools == copy.report.pools
               pool == copy.spec.pools[Len(pools) + 1]
               s == PoolStatusOf(pool, pods[pool.name])
    <2>1. s.name = pool.name /\ s.replicas = pool.servers
      BY DEF PoolStatusOf
    <2>2. /\ copy'.report.pools = Append(pools, s) /\ pc = "pods" /\ pc' = "pods"
          /\ copy'.phase = copy.phase /\ copy'.spec = copy.spec /\ copy'.health = copy.health
      BY <1>1, ListPodsStep
    <2>3. UNCHANGED <<minio, seen, seenCurrent, current>>
      BY <1>1 DEF ListPods, cache
    <2> HIDE DEF s
    <2>4. /\ DOMAIN Append(pools, s) = 1..Len(pools) + 1 /\ DOMAIN pools = 1..Len(pools)
          /\ \A k \in DOMAIN pools : Append(pools, s)[k] = pools[k]
          /\ Append(pools, s)[Len(pools) + 1] = s
          /\ Len(pools) \in Nat
      BY <1>0
    <2>5. Follows(Append(pools, s), copy.spec)
      BY <2>1, <2>4 DEF Follows, CopyInv
    <2> QED  BY <2>2, <2>3, <2>5 DEF CopyInv
  <1>2. CASE ListClaims \/ ListServices \/ Conclude
    <2>1. UNCHANGED <<minio, seen, seenCurrent, current>>
      BY <1>2 DEF ListClaims, ListServices, Conclude, cache
    <2> QED  BY <1>2, <2>1, OtherReadingStep DEF CopyInv
  <1>3. CASE Writing
    <2>1. /\ pc' = "idle" /\ copy' = NoMinIO /\ seen' = seen
          /\ UNCHANGED <<minio, seenCurrent>> \/ seenCurrent' = FALSE
      BY <1>3, WritingStep
    <2> QED  BY <2>1, NothingFollows DEF CopyInv
  <1>4. CASE Others
    <2>1. /\ UNCHANGED <<pc, copy, seen>>
          /\ \/ UNCHANGED <<minio, seenCurrent, current>>
             \/ seenCurrent' = FALSE /\ current' = {}
      BY <1>4, OthersStep
    <2> QED  BY <2>1 DEF CopyInv
  <1>5. CASE ~Reading /\ ~Writing /\ ~Others
    <2>1. minio' = minio /\ (seenCurrent' => seen' = minio')
      BY <1>5, QuietStep DEF CopyInv
    <2>2. CASE UNCHANGED <<pc, copy>> /\ ("status" \in current' => "status" \in current)
      BY <2>1, <2>2 DEF CopyInv
    <2>3. CASE pc' = "idle" /\ copy' = NoMinIO
      BY <2>1, <2>3, NothingFollows DEF CopyInv
    <2>4. CASE /\ pc' = "claims" /\ copy' = [seen EXCEPT !.report = NoReport]
               /\ "status" \in current' => seenCurrent
      <3>1. /\ copy'.report = NoReport /\ copy'.phase = seen.phase
            /\ copy'.spec = seen.spec /\ copy'.health = seen.health
        BY <1>0, <2>4 DEF MinIO
      <3> QED  BY <2>1, <2>4, <3>1, NothingFollows DEF CopyInv
    <2> QED  BY <1>5, <2>2, <2>3, <2>4, QuietStep
  <1> QED  BY <1>1, <1>2, <1>3, <1>4, <1>5 DEF Reading

\* The first state has no copy.
LEMMA CopyInit == Init => CopyInv
  <1> SUFFICES ASSUME Init PROVE CopyInv
    OBVIOUS
  <1>1. seenCurrent = FALSE /\ copy = NoMinIO /\ pc = "idle"
    BY DEF Init
  <1> QED  BY <1>1, NothingFollows DEF CopyInv

\* A report that is stored lists the pools the instance asks for at that moment, and each
\* with its number of servers (minio_status_controller.go:106-146, 170-191).
THEOREM ReportsFitTheSpec == Spec => ReportFitsSpec
  <1>1. ASSUME TypeOK, CopyInv, [Next]_vars
        PROVE  [minio'.report \notin {minio.report, NoReport}
                   => Describes(minio'.report, minio.spec)]_vars
    <2> SUFFICES ASSUME minio'.report \notin {minio.report, NoReport}
                 PROVE  Describes(minio'.report, minio.spec)
      OBVIOUS
    <2>1. Writing
      <3>1. CASE Reading
        BY <1>1, <3>1, ReadingType
      <3>2. CASE Others
        BY <1>1, <3>2, OthersReport
      <3> QED  BY <1>1, <3>1, <3>2, QuietStep
    <2>2. pc = "write" /\ "status" \in current /\ minio' = Stored(copy)
      BY <1>1, <2>1, WritingStep
    <2>3. minio'.report = copy.report /\ copy.spec = minio.spec
      BY <1>1, <2>2 DEF Stored, CopyInv, TypeOK, MinIO
    <2>4. copy.report.pools \in Seq(PoolStatus) /\ copy.spec.pools \in Seq(Pool)
      BY <1>1, SpecType DEF TypeOK, MinIO, Report
    <2>5. DOMAIN copy.report.pools = DOMAIN copy.spec.pools
      BY <1>1, <2>2, <2>4 DEF CopyInv
    <2> QED  BY <1>1, <2>3, <2>5 DEF Describes, CopyInv, Follows
  <1>2. TypeOK /\ CopyInv /\ [Next]_vars => CopyInv'
    BY CopyStep
  <1> QED  BY <1>1, <1>2, CopyInit, ControllerTypeCorrect, PTL DEF Spec, ReportFitsSpec

-----------------------------------------------------------------------------
(***************************************************************************)
(* The refinement.                                                         *)
(***************************************************************************)
\* The register's object.
StatusOf(m) == [status |-> m.status, pools |-> m.report, health |-> m.health]

\* It is one of the register's objects.
LEMMA StatusType ==
    ASSUME NEW m \in MinIO
    PROVE  StatusOf(m) \in Register!MinIOStatus
  BY DEF StatusOf, MinIO, DeployStatus, HealthStatus, Register!MinIOStatus,
         Register!DeployStatus, Register!HealthStatus

\* Two of them that differ in the fields of one controller.
LEMMA OwnFields ==
    ASSUME NEW x \in Register!MinIOStatus, NEW y \in Register!MinIOStatus,
           x.health = y.health
    PROVE  /\ y = [x EXCEPT !.status = y.status, !.pools = y.pools]
           /\ x.pools = y.pools => y = [x EXCEPT !.status = y.status]
  BY DEF Register!MinIOStatus

\* A step of the controllers, the user and the cluster is a step of the register, or
\* leaves it alone.
LEMMA RegisterStep ==
    ASSUME TypeOK, CopyInv, ReportsInv, [Next]_vars
    PROVE  [Register!Next]_(StatusOf(minio))
  <1> SUFFICES ASSUME minio' # minio
               PROVE  Register!Next \/ StatusOf(minio)' = StatusOf(minio)
    BY DEF StatusOf
  <1>0. minio \in MinIO /\ copy \in MinIO /\ copy.report \in Report
        /\ copy.report.pools \in Seq(PoolStatus)
    BY DEF TypeOK, MinIO, Report
  <1>1. CASE Writing
    <2>1. /\ pc = "write" /\ "status" \in current /\ minio' = Stored(copy)
      BY <1>1, WritingStep
    <2>2. /\ minio'.status = copy.status /\ minio'.report = copy.report
          /\ minio'.health = minio.health
      BY <1>0, <2>1 DEF Stored, MinIO, CopyInv
    <2>3. copy.status \in {"Completed", "Running", "Failed"}
      BY <1>0, <2>1, DeployStatusType DEF ReportsInv
    <2>4. Register!StatusWrites
      <3> DEFINE o == [status |-> minio.status, pools |-> minio.report, health |-> minio.health]
      <3>1. /\ o'.status = copy.status /\ o'.pools = copy.report /\ o'.health = o.health
            /\ o \in Register!MinIOStatus /\ o' \in Register!MinIOStatus
        BY <1>0, <2>2, ObjectType, StatusType, <1>1 DEF StatusOf, MinIO
      <3> HIDE DEF o
      <3>2. o' = [o EXCEPT !.status = copy.status, !.pools = o'.pools]
        <4>1. o' = [o EXCEPT !.status = o'.status, !.pools = o'.pools]
          BY <3>1, OwnFields
        <4> QED  BY <3>1, <4>1, Zenon
      <3> QED  BY <1>0, <2>3, <3>1, <3>2 DEF Register!StatusWrites, o
    <2> QED  BY <2>4 DEF Register!Next
  <1>2. CASE Others
    <2>1. ASSUME NEW s \in {"None", "Running", "Failed"}, s = "None" => minio.status = "",
                 minio' = [minio EXCEPT !.status = s]
          PROVE  Register!Next
      <3> DEFINE o == [status |-> minio.status, pools |-> minio.report, health |-> minio.health]
      <3>1. /\ o'.status = s /\ o'.pools = o.pools /\ o'.health = o.health
            /\ o \in Register!MinIOStatus /\ o' \in Register!MinIOStatus
        BY <1>0, <2>1, ObjectType, StatusType, <1>2 DEF StatusOf, MinIO
      <3>2. o.status = minio.status
        OBVIOUS
      <3> HIDE DEF o
      <3>3. o' = [o EXCEPT !.status = s]
        BY <3>1, OwnFields
      <3>4. Register!MinIOWrites
        BY <2>1, <3>2, <3>3 DEF Register!MinIOWrites, o
      <3> QED  BY <3>4 DEF Register!Next
    <2>2. CASE minio' = [minio EXCEPT !.status = IF @ = "" THEN "None" ELSE "Running"]
      BY <2>1, <2>2
    <2>3. ASSUME NEW h \in {"Unknown", "Health", "UnHealth"}, h # "Unknown" => minio.status = "Completed",
                 minio' = [minio EXCEPT !.health = h]
          PROVE  Register!Next
      BY <1>0, <2>3 DEF Register!Next, Register!HealthWrites, MinIO
    <2>4. ASSUME NEW spec, minio' = [minio EXCEPT !.spec = spec]
          PROVE  StatusOf(minio)' = StatusOf(minio)
      BY <1>0, <2>4 DEF StatusOf, MinIO
    <2>5. ASSUME NEW phase, NEW spec, minio' = NewMinIO(phase, spec)
          PROVE  Register!Next
      BY <2>5 DEF NewMinIO, Register!Next, Register!Replace, Register!Blank
    <2>6. ASSUME minio' = [minio EXCEPT !.lists = TRUE]
          PROVE  StatusOf(minio)' = StatusOf(minio)
      BY <1>0, <2>6 DEF StatusOf, MinIO
    <2> QED  BY <1>2, <2>1, <2>2, <2>3, <2>4, <2>5, <2>6, OthersStep DEF NoMinIO
  <1>3. CASE ~Writing /\ ~Others
    BY <1>3, ReadingType, QuietStep
  <1> QED  BY <1>1, <1>2, <1>3

\* The status reconciler's round of many calls is to the readers of the object one step
\* that changes its own fields, also if the object is edited, deleted or created again
\* meanwhile (minio_status_controller.go:33-191).
THEOREM ControllerImplementsRegister == Spec => ImplementsRegister
  <1>1. Init => Register!Init /\ ReportsInv
    <2> SUFFICES ASSUME Init PROVE Register!Init /\ ReportsInv
      OBVIOUS
    <2>1. PICK spec \in Specs : minio = NewMinIO("live", spec)
      BY DEF Init
    <2>2. minio.report = NoReport /\ minio.status = "" /\ minio.health = ""
      BY <2>1 DEF NewMinIO
    <2>3. copy = NoMinIO /\ pc = "idle"
      BY DEF Init
    <2> QED  BY <2>2, <2>3, NothingCounted DEF ReportsInv, Register!Init, Register!Blank
  <1>2. TypeOK /\ CopyInv /\ [Next]_vars => CopyInv'
    BY CopyStep
  <1>3. TypeOK /\ ReportsInv /\ [Next]_vars => ReportsInv'
    BY ReportsStep
  <1>4. TypeOK /\ CopyInv /\ ReportsInv /\ [Next]_vars => [Register!Next]_(StatusOf(minio))
    BY RegisterStep
  <1> QED  BY <1>1, <1>2, <1>3, <1>4, CopyInit, ControllerTypeCorrect, PTL
           DEF Spec, ImplementsRegister, Register!Spec, StatusOf
=============================================================================
