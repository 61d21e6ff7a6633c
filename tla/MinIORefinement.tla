--------------------------- MODULE MinIORefinement ---------------------------
(***************************************************************************)
(* MinIOReconciler implements StatusRegister, in which it writes its own   *)
(* field of the status only, and Deployment, in which nothing is created   *)
(* before what it relies on.                                               *)
(***************************************************************************)
EXTENDS MinIOProofs

-----------------------------------------------------------------------------
(***************************************************************************)
(* What steps do to the object and to the copies of it.                    *)
(***************************************************************************)
\* A status write changes at most the status of the object, if its copy is of the latest
\* version; the other outcomes leave object and cache alone (minio_controller.go:220-242).
LEMMA WriteEffect ==
    ASSUME TypeOK, WriteStatus
    PROVE  /\ pc = "writeStatus" /\ pc' # "writeStatus"
           /\ seen' = seen /\ UNCHANGED <<cr, svcs, claims, pods>>
           /\ seenCurrent' => seenCurrent
           /\ \/ minio' = minio
              \/ /\ minio' = [minio EXCEPT !.status = round.status]
                 /\ round.current /\ minio.phase # "gone" /\ seenCurrent' = FALSE
           /\ pc' # "idle" => round'.spec = round.spec /\ round'.claims = round.claims
  <1>0. round \in Round /\ minio \in MinIOObject /\ seenCurrent \in BOOLEAN
    BY DEF TypeOK, ControlType, RoundOK, ServerType, CacheType
  <1>1. ASSUME NEW r, r.next = round.next, r.spec = round.spec, r.claims = round.claims,
               AfterWrite(r)
        PROVE  /\ pc' # "writeStatus"
               /\ pc' # "idle" => round'.spec = round.spec /\ round'.claims = round.claims
    BY <1>0, <1>1 DEF AfterWrite, Return, Continue, Round, Continuation
  <1>2. CASE \E o \in Outcome : WriteAccepted(o)
    <2>1. PICK change \in Changes(minio.status, round.status) :
             /\ minio' = [minio EXCEPT !.status = round.status]
             /\ seenCurrent' = (seenCurrent /\ ~change)
             /\ Return(TRUE) \/ AfterWrite([round EXCEPT !.current = ~change])
      BY <1>2 DEF WriteAccepted
    <2> DEFINE r == [round EXCEPT !.current = ~change]
    <2>2. r.next = round.next /\ r.spec = round.spec /\ r.claims = round.claims
      BY <1>0 DEF Round
    <2>3. /\ pc' # "writeStatus"
          /\ pc' # "idle" => round'.spec = round.spec /\ round'.claims = round.claims
      BY <1>1, <2>1, <2>2 DEF Return
    <2>4. change \in BOOLEAN /\ (~change => minio.status = round.status)
      BY DEF Changes
    <2>5. CASE change
      BY <1>0, <1>2, <2>1, <2>3, <2>5 DEF WriteAccepted
    <2>6. CASE ~change
      <3>1. minio' = minio
        BY <1>0, <2>1, <2>4, <2>6 DEF MinIOObject
      <3> QED  BY <1>0, <1>2, <2>1, <2>3, <3>1 DEF WriteAccepted
    <2> QED  BY <2>4, <2>5, <2>6
  <1>3. CASE WriteConflict
    BY <1>1, <1>3 DEF WriteConflict, server, caches
  <1>4. CASE WriteInvalid \/ WriteFailed
    BY <1>4 DEF WriteInvalid, WriteFailed, Return, server, caches
  <1> QED  BY <1>2, <1>3, <1>4 DEF WriteStatus

\* A call that is no status write leaves the object and the caches alone; what a round writes
\* afterwards is Running or Failed, but for None at its start (minio_controller.go:78-218).
LEMMA OtherCalls ==
    ASSUME TypeOK, NEW o \in Outcome, ReconcilerStep(o), ~WriteStatus
    PROVE  /\ minio' = minio /\ seen' = seen /\ seenCurrent' = seenCurrent
           /\ \/ StartRound
              \/ pc' = "idle"
              \/ /\ pc # "idle" /\ round'.spec = round.spec
                 /\ \/ round'.claims \subseteq round.claims
                    \/ round'.claims = NewClaims(round.spec.pools)
                 /\ pc' = "writeStatus" => round'.status \in {"Running", "Failed"}
  <1>0. round \in Round
    BY DEF TypeOK, ControlType, RoundOK
  <1>1. CASE SkipRound \/ StartRound
    BY <1>1 DEF SkipRound, StartRound, server, caches
  <1>2. CASE GetRevision(o) \/ DeleteRevision(o) \/ CreateRevision(o)
    BY <1>0, <1>2 DEF GetRevision, DeleteRevision, CreateRevision, Continue, Return, server,
                     caches, Round, Outcome
  <1>3. CASE GetService(o) \/ CreateService(o) \/ UpdateService(o)
    BY <1>0, <1>3 DEF GetService, CreateService, UpdateService, CheckService, NextCheck,
       WriteThen, Continue, Return, server, caches, Round, ServiceKind
  <1>4. CASE ListClaims(o) \/ CreateClaim(o) \/ ClaimsCreated
    BY <1>0, <1>4 DEF ListClaims, CreateClaim, ClaimsCreated, WriteThen, Continue, Return, server,
                     caches, Round, Outcome
  <1>5. CASE PlanPods \/ CreatePod(o) \/ PodsCreated \/ UpdatePod(o) \/ PodsUpdated
    BY <1>0, <1>5 DEF PlanPods, CreatePod, PodsCreated, UpdatePod, PodsUpdated, WriteThen,
                     Continue, server, caches, Round
  <1> QED  BY <1>1, <1>2, <1>3, <1>4, <1>5 DEF ReconcilerStep

\* What happens around the reconciler: the object changes and all copies are old, or it does
\* not and a cache takes it; a round goes on with the same calls or ends.
LEMMA AroundIt ==
    ASSUME TypeOK, Environment
    PROVE  /\ \/ minio' = minio /\ seen' = seen /\ seenCurrent' = seenCurrent
              \/ minio' = minio /\ seen' = minio /\ seenCurrent' = TRUE
              \/ /\ seen' = seen /\ seenCurrent' = FALSE
                 /\ round' = [round EXCEPT !.current = FALSE]
                 /\ \/ minio' = GoneMinIO
                    \/ /\ minio.phase = "live"
                       /\ \/ minio' = [minio EXCEPT !.phase = "deleting"]
                          \/ minio' = [minio EXCEPT !.lists = TRUE]
                          \/ \E s \in {minio.status, "Completed", "Running", "Failed"} :
                                minio' = [minio EXCEPT !.status = s]
                          \/ \E e \in Edits : minio' = [minio EXCEPT !.spec = e[2]]
           /\ \/ pc' = "idle"
              \/ /\ pc' = pc
                 /\ round' = round \/ round' = [round EXCEPT !.current = FALSE]
  BY DEF Environment, SyncMinIO, SyncRevision, SyncClaims, Resync, EditSpec, DeleteMinIO,
     GarbageCollect, FinishDeletion, DriftService, SealPod, CompleteStatus, ForeignStatusWrite,
     Restart, ChangeMinIO, server, caches

\* Every step keeps the origin of the specifications (minio_controller.go:78-90, 101-125, 142-145).
LEMMA OriginStep ==
    ASSUME TypeOK, OriginInv, [Next]_vars
    PROVE  OriginInv'
  <1>0. minio \in MinIOObject /\ round \in Round
    BY DEF TypeOK, ControlType, RoundOK, ServerType
  <1>1. CASE WriteStatus
    <2>1. minio'.phase = minio.phase /\ minio'.spec = minio.spec
      BY <1>0, <1>1, WriteEffect DEF MinIOObject
    <2>2. seen' = seen /\ pc # "idle"
          /\ (pc' # "idle" => round'.spec = round.spec /\ round'.claims = round.claims)
      BY <1>1, WriteEffect
    <2> QED  BY <2>1, <2>2 DEF OriginInv
  <1>2. CASE StartRound
    <2>1. /\ minio' = minio /\ seen' = seen /\ seen.phase = "live"
          /\ round'.spec = seen.spec /\ round'.claims = {}
      BY <1>2 DEF StartRound, NoRound, server, caches
    <2> QED  BY <2>1 DEF OriginInv
  <1>3. ASSUME NEW o \in Outcome, ReconcilerStep(o), ~WriteStatus, ~StartRound
        PROVE  OriginInv'
    <2>1. /\ minio' = minio /\ seen' = seen
          /\ \/ pc' = "idle"
             \/ /\ pc # "idle" /\ round'.spec = round.spec
                /\ \/ round'.claims \subseteq round.claims
                   \/ round'.claims = NewClaims(round.spec.pools)
      BY <1>3, OtherCalls
    <2> QED  BY <2>1 DEF OriginInv
  <1>4. CASE Environment
    <2>1. \/ pc' = "idle"
          \/ pc' = pc /\ round'.spec = round.spec /\ round'.claims = round.claims
      BY <1>0, <1>4, AroundIt DEF Round
    <2>2. \/ minio' = minio /\ (seen' = seen \/ seen' = minio)
          \/ seen' = seen /\ minio' = GoneMinIO
          \/ /\ seen' = seen /\ minio.phase = "live"
             /\ minio'.spec = minio.spec \/ minio'.spec \in Specs
      BY <1>0, <1>4, AroundIt, SpecsAssumption DEF MinIOObject
    <2>3. GoneMinIO.phase = "gone"
      BY DEF GoneMinIO
    <2>4. /\ minio'.phase # "gone" => minio'.spec \in Specs
          /\ seen'.phase # "gone" => seen'.spec \in Specs
      BY <2>2, <2>3 DEF OriginInv
    <2>5. pc' # "idle" => round'.spec \in Specs /\ round'.claims \subseteq NewClaims(round'.spec.pools)
      BY <2>1 DEF OriginInv
    <2> QED  BY <2>4, <2>5 DEF OriginInv
  <1>5. CASE UNCHANGED vars
    BY <1>5 DEF vars, server, caches, OriginInv
  <1>6. CASE Reconcile
    BY <1>1, <1>2, <1>3, <1>6, ReconcileSteps
  <1> QED  BY <1>4, <1>5, <1>6 DEF Next

-----------------------------------------------------------------------------
(***************************************************************************)
(* The status is a register.                                               *)
(***************************************************************************)
\* Every step keeps what a copy of the latest version is worth, and that None is only written
\* where there was no status (minio_controller.go:92-99, 220-242).
LEMMA FirstStatusStep ==
    ASSUME TypeOK, FirstStatusInv, [Next]_vars
    PROVE  FirstStatusInv'
  <1>0. round \in Round /\ seenCurrent \in BOOLEAN
    BY DEF TypeOK, ControlType, RoundOK, CacheType
  <1>1. CASE WriteStatus
    <2>1. seenCurrent' => seen' = minio'
      BY <1>0, <1>1, WriteEffect DEF FirstStatusInv
    <2>2. pc' # "writeStatus"
      BY <1>1, WriteEffect
    <2> QED  BY <2>1, <2>2 DEF FirstStatusInv
  <1>2. CASE StartRound
    BY <1>2 DEF StartRound, FirstStatusInv, NoRound, server, caches
  <1>3. ASSUME NEW o \in Outcome, ReconcilerStep(o), ~WriteStatus, ~StartRound
        PROVE  FirstStatusInv'
    BY <1>0, <1>3, OtherCalls DEF FirstStatusInv
  <1>4. CASE Environment
    <2>1. seenCurrent' => seen' = minio'
      <3>1. \/ minio' = minio /\ seen' = seen /\ seenCurrent' = seenCurrent
            \/ minio' = minio /\ seen' = minio
            \/ seenCurrent' = FALSE
        BY <1>4, AroundIt
      <3>2. CASE minio' = minio /\ seen' = seen /\ seenCurrent' = seenCurrent
        BY <3>2 DEF FirstStatusInv
      <3>3. CASE minio' = minio /\ seen' = minio
        BY <3>3
      <3>4. CASE seenCurrent' = FALSE
        BY <3>4
      <3> QED  BY <3>1, <3>2, <3>3, <3>4
    <2>2. ASSUME pc' = "writeStatus"
          PROVE  /\ round'.status \in {"None", "Running", "Failed"}
                 /\ round'.status = "None" /\ round'.current => minio'.status = ""
      <3>1. /\ pc = "writeStatus" /\ round'.status = round.status
            /\ round'.current => round.current /\ minio' = minio
        BY <1>0, <1>4, <2>2, AroundIt DEF Round
      <3> QED  BY <3>1 DEF FirstStatusInv
    <2> QED  BY <2>1, <2>2 DEF FirstStatusInv
  <1>5. CASE UNCHANGED vars
    BY <1>5 DEF vars, server, caches, FirstStatusInv
  <1>6. CASE Reconcile
    BY <1>1, <1>2, <1>3, <1>6, ReconcileSteps
  <1> QED  BY <1>4, <1>5, <1>6 DEF Next

\* The status of an object as its readers see it.
LEMMA StatusOfType ==
    ASSUME NEW m \in MinIOObject
    PROVE  [status |-> m.status, pools |-> "", health |-> ""] \in Register!MinIOStatus
  BY DEF MinIOObject, DeployStatus, Register!MinIOStatus, Register!DeployStatus,
         Register!HealthStatus

\* Each step is a write of one controller to its own field of the register, the replacement
\* of the instance, or nothing that concerns the status.
LEMMA RegisterStep ==
    ASSUME TypeOK, FirstStatusInv, [Next]_vars
    PROVE  [Register!Next]_StatusNow
  <1>0. /\ minio \in MinIOObject
        /\ StatusNow \in Register!MinIOStatus /\ StatusNow' \in Register!MinIOStatus
        /\ StatusNow.status = minio.status /\ StatusNow'.status = minio'.status
        /\ StatusNow.pools = "" /\ StatusNow'.pools = ""
        /\ StatusNow.health = "" /\ StatusNow'.health = ""
    <2>1. minio \in MinIOObject /\ TypeOK'
      BY ReconcileType, EnvironmentType, UnchangedType DEF TypeOK, ServerType, Next
    <2>2. minio' \in MinIOObject
      BY <2>1 DEF TypeOK, ServerType
    <2> QED  BY <2>1, <2>2, StatusOfType DEF StatusNow
  <1>1. ASSUME minio'.status = minio.status PROVE StatusNow' = StatusNow
    BY <1>1 DEF StatusNow
  <1>2. CASE WriteStatus
    <2>1. CASE minio' = minio
      BY <1>1, <2>1
    <2>2. CASE minio' # minio
      <3>1. /\ pc = "writeStatus" /\ minio' = [minio EXCEPT !.status = round.status]
            /\ round.current
        BY <1>2, <2>2, WriteEffect
      <3>2. /\ round.status \in {"None", "Running", "Failed"}
            /\ round.status = "None" => minio.status = ""
        BY <3>1 DEF FirstStatusInv
      <3>3. StatusNow' = [StatusNow EXCEPT !.status = round.status]
        <4>1. minio'.status = round.status
          BY <1>0, <3>1 DEF MinIOObject
        <4>2. StatusNow' = [StatusNow EXCEPT !.status = StatusNow'.status]
          BY <1>0 DEF Register!MinIOStatus
        <4> QED  BY <1>0, <4>1, <4>2
      <3>4. Register!MinIOWrites
        BY <1>0, <3>2, <3>3 DEF Register!MinIOWrites
      <3> QED  BY <3>4 DEF Register!Next
    <2> QED  BY <2>1, <2>2
  <1>3. ASSUME NEW o \in Outcome, ReconcilerStep(o), ~WriteStatus
        PROVE  [Register!Next]_StatusNow
    BY <1>1, <1>3, OtherCalls
  <1>4. CASE Environment
    <2>1. CASE minio' = minio
      BY <1>1, <2>1
    <2>2. CASE minio' = GoneMinIO
      <3>1. Register!Replace
        BY <2>2 DEF GoneMinIO, StatusNow, Register!Replace, Register!Blank
      <3> QED  BY <3>1 DEF Register!Next
    <2>3. CASE \/ minio' = [minio EXCEPT !.phase = "deleting"]
               \/ minio' = [minio EXCEPT !.lists = TRUE]
               \/ minio' = [minio EXCEPT !.status = minio.status]
               \/ \E e \in Edits : minio' = [minio EXCEPT !.spec = e[2]]
      BY <1>0, <1>1, <2>3 DEF MinIOObject
    <2>4. ASSUME NEW s \in {"Completed", "Running", "Failed"},
                 minio' = [minio EXCEPT !.status = s]
          PROVE  [Register!Next]_StatusNow
      <3>1. minio'.status = s
        BY <1>0, <2>4 DEF MinIOObject
      <3>2. StatusNow' = [StatusNow EXCEPT !.status = s, !.pools = StatusNow'.pools]
        <4>1. StatusNow' = [StatusNow EXCEPT !.status = StatusNow'.status,
                                             !.pools = StatusNow'.pools]
          BY <1>0 DEF Register!MinIOStatus
        <4>2. StatusNow'.status = s
          BY <1>0, <3>1
        <4> QED  BY <4>1, <4>2, Zenon
      <3>3. Register!StatusWrites
        BY <1>0, <3>2 DEF Register!StatusWrites
      <3> QED  BY <3>3 DEF Register!Next
    <2> QED  BY <1>4, <2>1, <2>2, <2>3, <2>4, AroundIt
  <1>5. CASE UNCHANGED vars
    BY <1>1, <1>5 DEF vars, server
  <1>6. CASE Reconcile
    BY <1>2, <1>3, <1>6, ReconcileSteps
  <1> QED  BY <1>4, <1>5, <1>6 DEF Next

\* The reconciler's writes of the status, made from copies of any age, retried, lost or cut off
\* by a crash, are those of one writer of the register: None for an instance without a
\* status, Running and Failed at any time (minio_controller.go:78-242).
THEOREM MinIOImplementsRegister == Spec => ImplementsRegister
  <1>1. Init => Register!Init /\ FirstStatusInv
    BY DEF Init, StatusNow, Register!Init, Register!Blank, FirstStatusInv
  <1> QED  BY <1>1, FirstStatusStep, RegisterStep, TypeCorrect, PTL
           DEF Spec, ImplementsRegister, Register!Spec

-----------------------------------------------------------------------------
(***************************************************************************)
(* The instance is a deployment.                                           *)
(***************************************************************************)
\* A step that leaves the objects alone and does not end the instance.
LEMMA DeploymentQuiet ==
    ASSUME Live' = Live, cr' = cr, DOMAIN svcs' = DOMAIN svcs, UNCHANGED <<claims, pods>>
    PROVE  UNCHANGED Promise!vars
  BY DEF Promise!vars, RecordNow

\* The deletion of the recorded specification before a new one is recorded, or by the garbage
\* collector (minio_controller.go:117-121).
LEMMA ForgetStep ==
    ASSUME Live' = Live, cr' = NoRevision, UNCHANGED <<svcs, claims, pods>>
    PROVE  Promise!Next
  <1>1. RecordNow' = {}
    BY DEF RecordNow, NoRevision
  <1>2. Promise!Forget
    BY <1>1 DEF Promise!Forget
  <1> QED  BY <1>2 DEF Promise!Next

\* The calls about the ControllerRevision record what is called for, after what was recorded is
\* deleted (minio_controller.go:101-125).
LEMMA RecordRefines ==
    ASSUME TypeOK, OriginInv, NEW o \in Outcome, DeleteRevision(o) \/ CreateRevision(o)
    PROVE  [Promise!Next]_(Promise!vars)
  <1>0. Live' = Live /\ UNCHANGED <<svcs, claims, pods>>
    BY DEF DeleteRevision, CreateRevision, Live
  <1>1. CASE cr' = cr
    BY <1>0, <1>1, DeploymentQuiet
  <1>2. CASE cr' # cr /\ DeleteRevision(o)
    BY <1>0, <1>2, ForgetStep DEF DeleteRevision
  <1>3. CASE cr' # cr /\ CreateRevision(o)
    <2>1. /\ ~cr.exists /\ cr' = [exists |-> TRUE, spec |-> RoundTrip(round.spec)]
          /\ pc # "idle"
      BY <1>3 DEF CreateRevision
    <2>2. RecordNow = {} /\ RecordNow' = {RoundTrip(round.spec)}
      BY <2>1 DEF RecordNow
    <2>3. RoundTrip(round.spec) \in RecordableSpecs
      BY <2>1 DEF OriginInv, RecordableSpecs
    <2>4. Promise!Record
      BY <1>0, <2>2, <2>3 DEF Promise!Record
    <2> QED  BY <2>4 DEF Promise!Next
  <1> QED  BY <1>1, <1>2, <1>3

\* A service is created after the ones that are checked before it, and updates leave it there
\* (minio_controller.go:127-140).
LEMMA ServiceRefines ==
    ASSUME TypeOK, ServicesInv, NEW o \in Outcome,
           GetService(o) \/ CreateService(o) \/ UpdateService(o)
    PROVE  [Promise!Next]_(Promise!vars)
  <1>0. /\ Live' = Live /\ UNCHANGED <<cr, claims, pods>>
        /\ round.kind \in ServiceKind
        /\ Live => CheckedBefore(round.kind) \subseteq DOMAIN svcs
    BY RoundSpecs DEF GetService, CreateService, UpdateService, Live, server, ServicesInv,
       BeforeServices, ServiceStage, TypeOK, ControlType
  <1>1. CASE DOMAIN svcs' = DOMAIN svcs
    BY <1>0, <1>1, DeploymentQuiet
  <1>2. CASE DOMAIN svcs' # DOMAIN svcs
    <2>1. DOMAIN svcs' = DOMAIN svcs \cup {round.kind}
      BY <1>2 DEF GetService, CreateService, UpdateService, Put, server
    <2>2. Live => EarlierServices[round.kind] \subseteq DOMAIN svcs
      BY <1>0 DEF EarlierServices
    <2>3. Promise!OpenService
      BY <1>0, <2>1, <2>2 DEF Promise!OpenService, RecordNow
    <2> QED  BY <2>3 DEF Promise!Next
  <1> QED  BY <1>1, <1>2

\* Claims are created after all services, and only those the specification asks for
\* (minio_controller.go:142-145, 400-427).
LEMMA ClaimRefines ==
    ASSUME TypeOK, OriginInv, ServicesInv, NEW o \in Outcome, CreateClaim(o)
    PROVE  [Promise!Next]_(Promise!vars)
  <1>0. /\ Live' = Live /\ UNCHANGED <<cr, svcs, pods>>
        /\ Live => DOMAIN svcs = ServiceKind
    BY DEF CreateClaim, Live, ServicesInv, BeyondServices, ClaimStage
  <1>1. PICK c \in round.claims : claims' = claims \/ claims' = claims \cup {c}
    BY DEF CreateClaim
  <1>2. c \in ClaimableVolumes
    BY DEF CreateClaim, OriginInv, ClaimableVolumes
  <1>3. CASE claims' = claims
    BY <1>0, <1>3, DeploymentQuiet
  <1>4. CASE claims' = claims \cup {c}
    <2>1. Promise!ClaimVolume
      BY <1>0, <1>2, <1>4 DEF Promise!ClaimVolume, RecordNow
    <2> QED  BY <2>1 DEF Promise!Next
  <1> QED  BY <1>1, <1>3, <1>4

\* A pool has the servers up to each of its servers.
LEMMA EarlierServers ==
    ASSUME NEW pools \in Seq(Pool), NEW x \in Servers(pools), NEW i \in 0..x[2] - 1
    PROVE  <<x[1], i>> \in Servers(pools)
  <1>1. PICK k \in DOMAIN pools : x \in {<<k, j>> : j \in 0..pools[k].servers - 1}
    BY DEF Servers
  <1>2. PICK j \in 0..pools[k].servers - 1 : x = <<k, j>>
    BY <1>1
  <1>3. pools[k] \in Pool
    OBVIOUS
  <1>4. i \in 0..pools[k].servers - 1
    BY <1>2, <1>3 DEF Pool
  <1>5. <<x[1], i>> = <<k, i>>
    BY <1>2
  <1> QED  BY <1>4, <1>5 DEF Servers

\* A pod is added only by a round that has recorded its specification: nothing is added between
\* two specifications that are equal (minio_controller.go:147-175).
LEMMA AddedIsRecorded ==
    ASSUME TypeOK, RevisionRecordsRound, Live, pc \in PodStage,
           NEW x \in AddedServers(round.old, round.spec)
    PROVE  RecordNow = {RoundTrip(round.spec)}
  <1>1. round.old # round.spec
    <2>1. x \in Servers(round.spec.pools) /\ round.spec.pools \in Seq(Pool)
      BY RoundSpecs DEF AddedServers, TypeOK, ControlType
    <2>2. x[1] \in DOMAIN round.spec.pools
      BY <2>1, ServersType
    <2> QED  BY <2>2 DEF AddedServers
  <1>2. cr = [exists |-> TRUE, spec |-> RoundTrip(round.spec)]
    BY <1>1 DEF RevisionRecordsRound, AfterRevision
  <1> QED  BY <1>2 DEF RecordNow

\* When a pod is added, those of the same pool with lower numbers are there: they precede it
\* in the plan, and what has left the plan was created (minio_controller.go:176-192).
LEMMA PredecessorsApplied ==
    ASSUME TypeOK, PlanInv, Live, pc = "createPods", NEW x \in round.adds, IsNext(x, round.adds)
    PROVE  Promise!Before(NameOf(round.spec.pools, x)) \subseteq DOMAIN pods
  <1> DEFINE pools == round.spec.pools
  <1>0. pools \in Seq(Pool) /\ x \in Servers(pools) /\ x \in AddedServers(round.old, round.spec)
    BY RoundSpecs DEF TypeOK, ControlType, RoundOK, PlanInv
  <1> SUFFICES ASSUME NEW i \in 0..x[2] - 1
               PROVE  <<pools[x[1]].name, i>> \in DOMAIN pods
    BY DEF Promise!Before, NameOf
  <1> DEFINE y == <<x[1], i>>
  <1>1. y \in Servers(pools) /\ x[2] \in Nat
    BY <1>0, EarlierServers, ServersType
  <1>2. y \in AddedServers(round.old, round.spec)
    BY <1>0, <1>1 DEF AddedServers
  <1>3. y \notin round.adds
    <2>1. x[1] \in Nat
      BY <1>0, ServersType
    <2> QED  BY <1>1, <2>1 DEF IsNext, Precedes
  <1>4. IsApplied(round.spec, pools, y)
    BY <1>2, <1>3 DEF PlanInv
  <1> QED  BY <1>4 DEF IsApplied, NameOf

\* A pod is created from the specification that is recorded, after all services and after its
\* predecessors (minio_controller.go:176-192).
LEMMA CreateRefines ==
    ASSUME TypeOK, OriginInv, RevisionRecordsRound, ServicesInv, PlanInv,
           NEW o \in Outcome, CreatePod(o)
    PROVE  [Promise!Next]_(Promise!vars)
  <1> DEFINE name(x) == NameOf(round.spec.pools, x)
             new(x) == PodOf(round.spec, round.spec.pools[x[1]])
             call(x) == <<RoundTrip(round.spec), name(x), new(x)>>
  <1>0. /\ Live' = Live /\ UNCHANGED <<cr, svcs, claims>> /\ pc = "createPods"
        /\ Live => DOMAIN svcs = ServiceKind
    BY DEF CreatePod, Live, ServicesInv, BeyondServices, PodStage
  <1>1. PICK x \in round.adds :
          /\ IsNext(x, round.adds)
          /\ \/ pods' = pods
             \/ name(x) \notin DOMAIN pods /\ pods' = Put(pods, name(x), new(x))
    BY DEF CreatePod
  <1>2. CASE pods' = pods
    BY <1>0, <1>2, DeploymentQuiet
  <1>3. CASE name(x) \notin DOMAIN pods /\ pods' = Put(pods, name(x), new(x))
    <2>1. call(x) \in CalledPods
      <3>1. x \in Servers(round.spec.pools) /\ round.spec \in Specs
        BY <1>0 DEF TypeOK, ControlType, RoundOK, OriginInv
      <3> QED  BY <3>1 DEF CalledPods, PodsOf
    <2>2. ASSUME Live
          PROVE  RecordNow = {RoundTrip(round.spec)} /\ Promise!Before(name(x)) \subseteq DOMAIN pods
      <3>1. x \in AddedServers(round.old, round.spec)
        BY <1>0, <2>2 DEF PlanInv
      <3> QED  BY <1>0, <1>1, <2>2, <3>1, AddedIsRecorded, PredecessorsApplied DEF PodStage
    <2> DEFINE c == call(x)
    <2>3. c[1] = RoundTrip(round.spec) /\ c[2] = name(x) /\ c[3] = new(x)
      OBVIOUS
    <2> HIDE DEF c, name, new
    <2>4. Promise!CreatePod
      BY <1>0, <1>3, <2>1, <2>2, <2>3 DEF Promise!CreatePod, Put, RecordNow, c
    <2> QED  BY <2>4 DEF Promise!Next
  <1> QED  BY <1>1, <1>2, <1>3

\* Of a pod only the image is updated, to the one that is recorded, or so that the pod is as its
\* specification has it (minio_controller.go:194-210).
LEMMA UpdateRefines ==
    ASSUME TypeOK, OriginInv, RevisionRecordsRound, NEW o \in Outcome, UpdatePod(o)
    PROVE  [Promise!Next]_(Promise!vars)
  <1> DEFINE name(x) == NameOf(round.old.pools, x)
             new(x) == PodOf(round.spec, round.old.pools[x[1]])
             s == RoundTrip(round.spec)
  <1>0. Live' = Live /\ UNCHANGED <<cr, svcs, claims>> /\ pc = "updatePods"
    BY DEF UpdatePod, Live
  <1>1. PICK x \in round.updates :
          \/ pods' = pods
          \/ /\ name(x) \in DOMAIN pods /\ ValidPodUpdate(pods[name(x)], new(x))
             /\ pods' = Put(pods, name(x), new(x))
    BY DEF UpdatePod
  <1>2. CASE pods' = pods
    BY <1>0, <1>2, DeploymentQuiet
  <1>3. CASE pods' # pods
    <2>1. x \in Servers(round.old.pools) /\ round.spec \in Specs
      BY <1>0 DEF TypeOK, ControlType, RoundOK, OriginInv
    <2>2. s \in RecordableSpecs
      BY <2>1 DEF RecordableSpecs
    <2>3. new(x) = [pods[name(x)] EXCEPT !.image = s.image]
      <3>1. round.spec \in MinIOSpec
        BY <2>1, SpecsAssumption
      <3>2. s.image = round.spec.image
        BY <3>1 DEF RoundTrip, MinIOSpec
      <3>3. new(x).image = round.spec.image
        BY DEF PodOf
      <3> HIDE DEF s, new, name
      <3> QED  BY <1>1, <1>3, <3>2, <3>3 DEF ValidPodUpdate
    <2>4. Live => RecordNow = {s} \/ <<s, name(x), new(x)>> \in CalledPods
      <3>1. CASE cr = [exists |-> TRUE, spec |-> RoundTrip(round.spec)]
        BY <3>1 DEF RecordNow
      <3>2. CASE round.old = round.spec
        BY <2>1, <3>2 DEF CalledPods, PodsOf
      <3> QED  BY <1>0, <3>1, <3>2 DEF RevisionRecordsRound, AfterRevision, PodStage
    <2>5. pods' = [pods EXCEPT ![name(x)] = new(x)] /\ name(x) \in DOMAIN pods
      BY <1>1, <1>3 DEF Put
    <2> HIDE DEF name, new, s
    <2>6. Promise!UpdatePod
      BY <1>0, <2>2, <2>3, <2>4, <2>5 DEF Promise!UpdatePod, RecordNow
    <2> QED  BY <2>6 DEF Promise!Next
  <1> QED  BY <1>2, <1>3

\* The calls that only read, the ends of stages and the status writes change no object of the
\* instance (minio_controller.go:78-101, 142-175, 213-242).
LEMMA ReadsRefine ==
    ASSUME TypeOK, NEW o \in Outcome,
           \/ SkipRound \/ StartRound \/ WriteStatus \/ GetRevision(o)
           \/ ListClaims(o) \/ ClaimsCreated \/ PlanPods \/ PodsCreated \/ PodsUpdated
    PROVE  [Promise!Next]_(Promise!vars)
  <1>1. CASE WriteStatus
    <2>1. minio'.phase = minio.phase
      BY <1>1, WriteEffect DEF TypeOK, ServerType, MinIOObject
    <2>2. UNCHANGED <<cr, svcs, claims, pods>>
      BY <1>1, WriteEffect
    <2>3. (Live' = Live) /\ DOMAIN svcs' = DOMAIN svcs
      BY <2>1, <2>2 DEF Live
    <2> QED  BY <2>2, <2>3, DeploymentQuiet
  <1>2. CASE ~WriteStatus
    <2>1. UNCHANGED server
      BY <1>2 DEF SkipRound, StartRound, GetRevision, ListClaims, ClaimsCreated, PlanPods,
                  PodsCreated, PodsUpdated, server
    <2>2. (Live' = Live) /\ DOMAIN svcs' = DOMAIN svcs /\ UNCHANGED <<cr, claims, pods>>
      BY <2>1 DEF Live, server
    <2> QED  BY <2>2, DeploymentQuiet
  <1> QED  BY <1>1, <1>2

\* The deletion ends the deployment, wherever the round is; what it owns is collected only
\* afterwards, and no edit, drift or crash changes which objects there are
\* (minio_controller.go:79-90; helper.go:179-187).
LEMMA EnvironmentRefines ==
    ASSUME TypeOK, Environment
    PROVE  [Promise!Next]_(Promise!vars)
  <1>0. minio \in MinIOObject
    BY DEF TypeOK, ServerType
  <1>1. CASE SyncMinIO \/ SyncRevision \/ SyncClaims \/ Resync \/ SealPod \/ Restart
    <2>1. (Live' = Live) /\ DOMAIN svcs' = DOMAIN svcs /\ UNCHANGED <<cr, claims, pods>>
      BY <1>1 DEF SyncMinIO, SyncRevision, SyncClaims, Resync, SealPod, Restart, server, Live
    <2> QED  BY <2>1, DeploymentQuiet
  <1>2. CASE EditSpec \/ CompleteStatus \/ ForeignStatusWrite
    <2>1. minio'.phase = minio.phase
      BY <1>0, <1>2 DEF EditSpec, CompleteStatus, ForeignStatusWrite, ChangeMinIO, MinIOObject
    <2>2. (Live' = Live) /\ DOMAIN svcs' = DOMAIN svcs /\ UNCHANGED <<cr, claims, pods>>
      BY <1>2, <2>1 DEF EditSpec, CompleteStatus, ForeignStatusWrite, Live
    <2> QED  BY <2>2, DeploymentQuiet
  <1>3. CASE DriftService
    <2>1. (Live' = Live) /\ DOMAIN svcs' = DOMAIN svcs /\ UNCHANGED <<cr, claims, pods>>
      BY <1>3 DEF DriftService, Live
    <2> QED  BY <2>1, DeploymentQuiet
  <1>4. CASE DeleteMinIO
    <2>1. Live /\ ~Live'
      <3>1. minio' = GoneMinIO \/ minio' = [minio EXCEPT !.phase = "deleting"]
        BY <1>4 DEF DeleteMinIO, ChangeMinIO
      <3>2. GoneMinIO.phase = "gone"
        BY DEF GoneMinIO
      <3>3. minio'.phase # "live"
        BY <1>0, <3>1, <3>2 DEF MinIOObject
      <3> QED  BY <1>4, <3>3 DEF DeleteMinIO, Live
    <2>2. UNCHANGED <<cr, svcs, claims, pods>>
      BY <1>4 DEF DeleteMinIO
    <2>3. Promise!End
      BY <2>1, <2>2 DEF Promise!End, RecordNow
    <2> QED  BY <2>3 DEF Promise!Next
  <1>5. CASE FinishDeletion
    <2>1. minio.phase # "live" /\ minio'.phase # "live"
      BY <1>5 DEF FinishDeletion, ChangeMinIO, GoneMinIO
    <2>2. (Live' = Live) /\ DOMAIN svcs' = DOMAIN svcs /\ UNCHANGED <<cr, claims, pods>>
      BY <1>5, <2>1 DEF FinishDeletion, Live
    <2> QED  BY <2>2, DeploymentQuiet
  <1>6. CASE GarbageCollect
    <2>0. ~Live /\ (Live' = Live) /\ UNCHANGED <<minio, claims>>
      BY <1>6 DEF GarbageCollect, Live
    <2>1. CASE CollectRevision
      <3>1. Promise!Next
        BY <2>0, <2>1, ForgetStep DEF CollectRevision
      <3> QED  BY <3>1
    <2>2. CASE CollectService
      <3>1. PICK k \in DOMAIN svcs : svcs' = Restrict(svcs, DOMAIN svcs \ {k})
        BY <2>2 DEF CollectService
      <3>2. DOMAIN svcs' = DOMAIN svcs \ {k}
        BY <3>1 DEF Restrict
      <3>3. Promise!Collect
        BY <2>0, <2>2, <3>2 DEF CollectService, Promise!Collect, RecordNow
      <3> QED  BY <3>3 DEF Promise!Next
    <2>3. CASE CollectPod
      <3>1. PICK n \in DOMAIN pods : pods' = Restrict(pods, DOMAIN pods \ {n})
        BY <2>3 DEF CollectPod
      <3>2. pods' = [m \in DOMAIN pods \ {n} |-> pods[m]]
        BY <3>1 DEF Restrict
      <3>3. Promise!Collect
        BY <2>0, <2>3, <3>2 DEF CollectPod, Promise!Collect, RecordNow
      <3> QED  BY <3>3 DEF Promise!Next
    <2> QED  BY <1>6, <2>1, <2>2, <2>3 DEF GarbageCollect
  <1> QED  BY <1>1, <1>2, <1>3, <1>4, <1>5, <1>6 DEF Environment

\* Each step is one of a deployment or leaves its objects alone.
LEMMA DeploymentStep ==
    ASSUME TypeOK, OriginInv, RevisionRecordsRound, ServicesInv, PlanInv, [Next]_vars
    PROVE  [Promise!Next]_(Promise!vars)
  <1>1. CASE Reconcile
    <2>1. PICK o \in Outcome : ReconcilerStep(o)
      BY <1>1, ReconcileSteps
    <2> QED  BY <2>1, ReadsRefine, RecordRefines, ServiceRefines, ClaimRefines, CreateRefines,
                UpdateRefines DEF ReconcilerStep
  <1>2. CASE Environment
    BY <1>2, EnvironmentRefines
  <1>3. CASE UNCHANGED vars
    <2>1. (Live' = Live) /\ DOMAIN svcs' = DOMAIN svcs /\ UNCHANGED <<cr, claims, pods>>
      BY <1>3 DEF vars, server, Live
    <2> QED  BY <2>1, DeploymentQuiet
  <1> QED  BY <1>1, <1>2, <1>3 DEF Next

\* In the beginning nothing is deployed and nothing known but the instance.
LEMMA DeploymentInit == Init => Promise!Init /\ OriginInv /\ ServicesInv /\ ObjectsInOrder
  <1> SUFFICES ASSUME Init
               PROVE  Promise!Init /\ OriginInv /\ ServicesInv /\ ObjectsInOrder
    OBVIOUS
  <1>1. DOMAIN svcs = {} /\ DOMAIN pods = {}
    <2>1. DOMAIN << >> = {}
      OBVIOUS
    <2>2. svcs = << >> /\ pods = << >>
      BY DEF Init
    <2> QED  BY <2>1, <2>2, Zenon
  <1>2. Live /\ RecordNow = {} /\ claims = {} /\ pods = << >>
    <2>1. minio.phase = "live"
      BY DEF Init
    <2> QED  BY <2>1 DEF Init, Live, RecordNow, NoRevision
  <1>3. Promise!Init
    BY <1>1, <1>2 DEF Promise!Init
  <1>4. OriginInv
    <2>1. minio.spec \in InitialSpecs /\ seen.phase = "gone" /\ pc = "idle"
      BY DEF Init, GoneMinIO
    <2> QED  BY <2>1, SpecsAssumption DEF OriginInv
  <1>5. ServicesInv
    BY ServicesInit
  <1>6. ObjectsInOrder
    BY <1>1, <1>2 DEF ObjectsInOrder, Promise!InOrder
  <1> QED  BY <1>3, <1>4, <1>5, <1>6

\* The rounds of the reconciler, on caches of any age, cut short anywhere and begun again, are
\* the steps of a deployment: nothing is created before what it relies on, no pod but from
\* the specification that is recorded, and nothing is taken from a living instance
\* (Reconcile, minio_controller.go:78-218).
THEOREM MinIOImplementsDeployment == Spec => ImplementsDeployment
  <1>1. Init => RevisionRecordsRound /\ PlanInv /\ RoundApplied
    BY DEF Init, RevisionRecordsRound, AfterRevision, ServiceStage, ClaimStage, PodStage,
           PlanInv, RoundApplied
  <1> QED  BY <1>1, DeploymentInit, TypeCorrect, OriginStep, RevisionStep, ServicesStep, PlanStep,
              DeploymentStep, PTL DEF Spec, ImplementsDeployment, Promise!Spec

\* What a living instance has is closed under what comes before it, at any moment and after any
\* number of rounds that stopped in the middle: the order of a deployment is kept by each
\* step of it, and the reconciler's steps are such steps (minio_controller.go:127-192).
THEOREM ObjectsAreInOrder == Spec => []ObjectsInOrder
  <1>1. ObjectsInOrder /\ [Promise!Next]_(Promise!vars) => ObjectsInOrder'
    BY Promise!OrderStep DEF ObjectsInOrder
  <1>2. Init => ObjectsInOrder
    BY DeploymentInit
  <1> QED  BY <1>1, <1>2, MinIOImplementsDeployment, PTL
           DEF Spec, ImplementsDeployment, Promise!Spec
=============================================================================
