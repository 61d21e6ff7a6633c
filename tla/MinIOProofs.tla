----------------------------- MODULE MinIOProofs -----------------------------
(***************************************************************************)
(* Proofs about MinIOReconciler for every set of specifications and every  *)
(* budget of disturbances.                                                 *)
(***************************************************************************)
EXTENDS MinIOProperties, TLAPS

-----------------------------------------------------------------------------
(***************************************************************************)
(* What the operators of MinIOResources return.                            *)
(***************************************************************************)
\* A map or slice that was stored and read is one (helper.go:148-157).
LEMMA MarshalledType ==
    ASSUME NEW v \in Value
    PROVE  Marshalled(v) \in Value
  BY ValueAssumption DEF Marshalled

\* The ControllerRevision gives back a specification (helper.go:148-157).
LEMMA RoundTripType ==
    ASSUME NEW s \in MinIOSpec
    PROVE  RoundTrip(s) \in MinIOSpec
  <1> DEFINE pools == [k \in DOMAIN s.pools |-> MarshalledPool(s.pools[k])]
  <1>1. Marshalled(s.resources) \in Value /\ Marshalled(s.rest) \in Value
    BY MarshalledType DEF MinIOSpec
  <1>2. pools \in Seq(Pool)
    <2>1. s.pools \in Seq(Pool)
      BY DEF MinIOSpec
    <2>2. ASSUME NEW pool \in Pool PROVE MarshalledPool(pool) \in Pool
      <3>1. Marshalled(pool.nodeSelector) \in Value
        BY MarshalledType DEF Pool
      <3> QED  BY <3>1 DEF MarshalledPool, Pool
    <2> QED  BY <2>1, <2>2
  <1>3. RoundTrip(s) = [s EXCEPT !.pools = pools, !.resources = Marshalled(s.resources),
                                 !.rest = Marshalled(s.rest)]
    BY DEF RoundTrip
  <1> HIDE DEF pools
  <1> QED  BY <1>1, <1>2, <1>3 DEF MinIOSpec

\* The zero value of a specification, with which the comparison with the recorded one starts
\* (minio_controller.go:103-107), is a specification.
LEMMA EmptySpecType == EmptySpec \in MinIOSpec
  <1>1. << >> \in Seq(Pool)
    OBVIOUS
  <1>2. {} \in SUBSET {"minio", "console"}
    OBVIOUS
  <1>3. Unset \in Value /\ "" \in Value
    BY ValueAssumption
  <1> QED  BY <1>1, <1>2, <1>3 DEF EmptySpec, MinIOSpec

\* Whatever a round works on, read from the cache or from a ControllerRevision, is a
\* specification (minio_controller.go:101-125).
LEMMA SpecType ==
    /\ Specs \cup {EmptySpec} \subseteq MinIOSpec
    /\ RecordedSpec \subseteq MinIOSpec
  BY SpecsAssumption, EmptySpecType, RoundTripType DEF RecordedSpec

\* A server of a list of pools is a position in it.
LEMMA ServersType ==
    ASSUME NEW pools \in Seq(Pool), NEW x \in Servers(pools)
    PROVE  /\ x \in Nat \X Nat
           /\ x[1] \in DOMAIN pools
           /\ pools[x[1]] \in Pool
           /\ NameOf(pools, x) \in PodName
  <1>1. PICK k \in DOMAIN pools : x \in {<<k, i>> : i \in 0..pools[k].servers - 1}
    BY DEF Servers
  <1>2. k \in Nat /\ pools[k] \in Pool
    OBVIOUS
  <1>3. PICK i \in 0..pools[k].servers - 1 : x = <<k, i>>
    BY <1>1
  <1>4. i \in Nat
    BY <1>2 DEF Pool
  <1> QED  BY <1>2, <1>3, <1>4 DEF Pool, NameOf, PodName

\* What minioServerContainer and NewPodsForMinIOPool build is a pod (pod.go:39-155).
LEMMA PodOfType ==
    ASSUME NEW s \in MinIOSpec, NEW pool \in Pool
    PROVE  PodOf(s, pool) \in PodContent
  BY MarshalledType DEF PodOf, PodContent, MinIOSpec, Pool

\* An update that the API server accepts makes no difference to a pod that is already as the
\* specification has it, whichever pools the two are taken from (pod.go:115-155).
LEMMA UpdateOfApplied ==
    ASSUME NEW s \in MinIOSpec, NEW p \in Pool, NEW q \in Pool,
           ValidPodUpdate(PodOf(s, p), PodOf(s, q))
    PROVE  PodOf(s, q) = PodOf(s, p)
  BY DEF ValidPodUpdate, PodOf

\* The claims checkPVC generates have claim names (minio_controller.go:400-427).
LEMMA NewClaimsType ==
    ASSUME NEW pools \in Seq(Pool)
    PROVE  NewClaims(pools) \subseteq ClaimName
  <1> SUFFICES ASSUME NEW c \in NewClaims(pools)
               PROVE  c \in ClaimName
    OBVIOUS
  <1>1. PICK x \in Servers(pools) :
           \E j \in 0..pools[x[1]].volumesPerServer - 1 : c = <<pools[x[1]].name, x[2], j>>
    BY DEF NewClaims
  <1>2. x[2] \in Nat /\ pools[x[1]] \in Pool
    BY ServersType
  <1>3. PICK j \in 0..pools[x[1]].volumesPerServer - 1 : c = <<pools[x[1]].name, x[2], j>>
    BY <1>1
  <1>4. j \in Nat
    BY <1>2 DEF Pool
  <1> QED  BY <1>2, <1>3, <1>4 DEF ClaimName, Pool

\* What the constructors of service.go:17-126 build, and what an update stores.
LEMMA ServiceTypes ==
    ASSUME NEW s \in MinIOSpec, NEW kind \in ServiceKind
    PROVE  /\ CreatedService(kind, s) \in ServiceContent
           /\ ExpectedService(kind, s) \in ServiceContent
           /\ \A read \in ServiceContent :
                 StoredService(read, ExpectedService(kind, s)) \in ServiceContent
  <1>1. NewServiceForMinIO(s) \in ServiceContent
    BY DEF NewServiceForMinIO, ServiceContent
  <1>2. NewConsoleServiceForMinIO(s) \in ServiceContent
    BY DEF NewConsoleServiceForMinIO, ServiceContent
  <1>3. NewHeadlessServiceForMinIO(s) \in ServiceContent
    BY DEF NewHeadlessServiceForMinIO, ServiceContent
  <1>4. CreatedService(kind, s) \in ServiceContent
    BY <1>1, <1>2, <1>3 DEF CreatedService, ServiceKind
  <1>5. ExpectedService(kind, s) \in ServiceContent
    BY <1>1, <1>2 DEF ExpectedService
  <1>6. ASSUME NEW read \in ServiceContent, NEW e \in ServiceContent
        PROVE  StoredService(read, e) \in ServiceContent
    BY <1>6 DEF StoredService, ServiceContent
  <1> QED  BY <1>4, <1>5, <1>6

-----------------------------------------------------------------------------
(***************************************************************************)
(* Control flow keeps the types of the control state.                      *)
(***************************************************************************)
\* The local variables between two rounds are well formed.
LEMMA NoRoundOK == RoundOK(NoRound)
  BY DEF RoundOK, NoRound, Round, DeployStatus, Continuation, RecordedSpec, ServiceKind,
         NoService, ServiceContent, EmptySpec

\* A round may end anywhere, with or without an error.
LEMMA ReturnType ==
    ASSUME NEW e \in BOOLEAN, Return(e), queued \in BOOLEAN
    PROVE  ControlType'
  BY NoRoundOK DEF Return, ControlType, Stage, RoundOK, Unplanned

\* A round may go on with any call but the reading of the ControllerRevision, for which nothing
\* may be planned, if its local variables are well formed.
LEMMA ContinueType ==
    ASSUME NEW stage \in Stage \ {"getRevision"}, NEW r, RoundOK(r), Continue(stage, r),
           stage = "writeStatus" => r.next # "getRevision", queued \in BOOLEAN
    PROVE  ControlType'
  BY DEF Continue, ControlType, RoundOK, Unplanned

\* A round may stop for a status write and remember what follows (minio_controller.go:221-242).
LEMMA WriteThenType ==
    ASSUME NEW status \in DeployStatus, NEW next \in Continuation \ {"getRevision"}, NEW r,
           RoundOK(r), WriteThen(status, next, r), queued \in BOOLEAN
    PROVE  ControlType'
  <1>1. RoundOK([r EXCEPT !.status = status, !.next = next])
    BY DEF RoundOK, Round
  <1>2. [r EXCEPT !.status = status, !.next = next].next = next
    BY DEF RoundOK, Round
  <1> QED  BY <1>1, <1>2, ContinueType DEF WriteThen, Stage

\* The three service checks follow one another, and the claims follow them
\* (minio_controller.go:127-145).
LEMMA NextCheckType ==
    ASSUME NEW r, RoundOK(r), NextCheck(r), queued \in BOOLEAN
    PROVE  ControlType'
  <1> DEFINE On(kind) == [r EXCEPT !.kind = kind, !.read = NoService]
  <1>1. NoService \in ServiceContent
    BY DEF NoService, ServiceContent
  <1>2. RoundOK(On("console")) /\ RoundOK(On("hl")) /\ RoundOK([r EXCEPT !.read = NoService])
    BY <1>1 DEF RoundOK, Round, ServiceKind
  <1>3. r.kind \in ServiceKind
    BY DEF RoundOK, Round
  <1>4. CASE r.kind = "ci"
    <2>1. Continue("getService", On("console"))
      BY <1>4 DEF NextCheck
    <2> QED  BY <2>1, <1>2, ContinueType DEF Stage, ServiceStage
  <1>5. CASE r.kind = "console"
    <2>1. Continue("getService", On("hl"))
      BY <1>5 DEF NextCheck
    <2> QED  BY <2>1, <1>2, ContinueType DEF Stage, ServiceStage
  <1>6. CASE r.kind = "hl"
    <2>1. Continue("listClaims", [r EXCEPT !.read = NoService])
      BY <1>6 DEF NextCheck
    <2> QED  BY <2>1, <1>2, ContinueType DEF Stage, ClaimStage
  <1> QED  BY <1>3, <1>4, <1>5, <1>6 DEF ServiceKind

\* A service that was read or created is compared, and updated if it differs
\* (minio_controller.go:271-291).
LEMMA CheckServiceType ==
    ASSUME NEW svc \in ServiceContent, CheckService(svc), RoundOK(round), queued \in BOOLEAN
    PROVE  ControlType'
  <1>1. RoundOK([round EXCEPT !.read = svc])
    BY DEF RoundOK, Round
  <1>2. "updateService" \in Stage
    BY DEF Stage, ServiceStage
  <1> QED  BY <1>1, <1>2, ContinueType, NextCheckType DEF CheckService

\* The specifications a round works on.
LEMMA RoundSpecs ==
    ASSUME RoundOK(round)
    PROVE  /\ round.spec \in MinIOSpec /\ round.spec.pools \in Seq(Pool)
           /\ round.old \in MinIOSpec /\ round.old.pools \in Seq(Pool)
           /\ round.kind \in ServiceKind
  <1>1. round.spec \in MinIOSpec /\ round.old \in MinIOSpec /\ round.kind \in ServiceKind
    BY SpecType DEF RoundOK, Round
  <1> QED  BY <1>1 DEF MinIOSpec

\* A call that goes wrong uses up a fault, never more than there are.
LEMMA ChargeType ==
    ASSUME NEW o \in Outcome, Charge(o), budget \in [Disturbance -> Nat]
    PROVE  budget' \in [Disturbance -> Nat]
  BY DEF Charge, Spend, Disturbance

-----------------------------------------------------------------------------
(***************************************************************************)
(* The type invariant.                                                     *)
(***************************************************************************)
\* A new instance, with no object of its own and empty caches, has the types of the state.
LEMMA InitType == Init => TypeOK
  <1> SUFFICES ASSUME Init PROVE TypeOK
    OBVIOUS
  <1>0. DOMAIN svcs = {} /\ DOMAIN pods = {}
    <2>1. DOMAIN << >> = {}
      OBVIOUS
    <2>2. svcs = << >> /\ pods = << >>
      BY DEF Init
    <2> QED  BY <2>1, <2>2, Zenon
  <1>1. ServerType
    BY <1>0, SpecsAssumption DEF Init, ServerType, MinIOObject, DeployStatus, NoRevision, Revision,
                           RecordedSpec
  <1>2. CacheType
    BY DEF Init, CacheType, MinIOObject, DeployStatus, GoneMinIO, NoRevision, Revision,
           RecordedSpec
  <1>3. ControlType
    BY NoRoundOK DEF Init, ControlType, Stage, Unplanned
  <1>4. budget \in [Disturbance -> Nat]
    BY BudgetAssumption DEF Init
  <1> QED  BY <1>1, <1>2, <1>3, <1>4 DEF TypeOK

\* The calls before the services.
LEMMA RevisionStepType ==
    ASSUME TypeOK,
           NEW o \in Outcome,
           \/ SkipRound \/ StartRound \/ WriteStatus \/ GetRevision(o)
           \/ DeleteRevision(o) \/ CreateRevision(o)
    PROVE  TypeOK'
  <1> USE DEF TypeOK
  <1>0. queued \in BOOLEAN /\ RoundOK(round)
    BY DEF ControlType
  <1>1. CASE SkipRound
    BY <1>1 DEF SkipRound, ServerType, CacheType, ControlType, server, caches, Unplanned
  <1>2. CASE StartRound
    <2> DEFINE r == [NoRound EXCEPT !.spec = seen.spec, !.current = seenCurrent,
                                    !.status = "None", !.next = "getRevision"]
    <2>1. RoundOK(r) /\ r.updates = {}
      BY NoRoundOK DEF RoundOK, Round, NoRound, CacheType, MinIOObject, DeployStatus,
                       Continuation
    <2>2. ControlType'
      BY <1>2, <2>1 DEF StartRound, ControlType, Stage, RevisionStage, RoundOK, Unplanned
    <2> QED  BY <1>2, <2>2 DEF StartRound, ServerType, CacheType, server, caches
  <1>3. CASE WriteStatus
    <2>1. ASSUME NEW r, RoundOK(r), AfterWrite(r), r.next = round.next, r.updates = round.updates,
                 pc = "writeStatus"
          PROVE  ControlType'
      <3>1. r.next \in Continuation
        BY <2>1 DEF RoundOK, Round
      <3>2. CASE r.next \in {"failed", "done"}
        BY <1>0, <2>1, <3>2, ReturnType DEF AfterWrite
      <3>3. CASE r.next \in {"createService", "createClaims"}
        BY <1>0, <2>1, <3>3, ContinueType DEF AfterWrite, Stage, ServiceStage, ClaimStage
      <3>4. CASE r.next = "getRevision"
        <4>1. Continue("getRevision", r) /\ round.updates = {}
          BY <2>1, <3>4 DEF AfterWrite, ControlType, Unplanned
        <4> QED  BY <1>0, <2>1, <4>1 DEF Continue, ControlType, Unplanned, RoundOK, Stage,
                    RevisionStage
      <3> QED  BY <3>1, <3>2, <3>3, <3>4 DEF Continuation
    <2>2. ASSUME NEW w \in Outcome, WriteAccepted(w) PROVE TypeOK'
      <3>1. PICK change \in Changes(minio.status, round.status) :
               /\ minio' = [minio EXCEPT !.status = round.status]
               /\ seenCurrent' = (seenCurrent /\ ~change)
               /\ Return(TRUE) \/ AfterWrite([round EXCEPT !.current = ~change])
        BY <2>2 DEF WriteAccepted
      <3> DEFINE r == [round EXCEPT !.current = ~change]
      <3>2. change \in BOOLEAN
        BY DEF Changes
      <3>3. RoundOK(r) /\ r.next = round.next /\ r.updates = round.updates
        BY <1>0, <3>2 DEF RoundOK, Round
      <3>4. pc = "writeStatus"
        BY <2>2 DEF WriteAccepted
      <3> HIDE DEF r
      <3>5. ControlType'
        BY <1>0, <2>1, <3>1, <3>3, <3>4, ReturnType DEF r
      <3>6. minio' \in MinIOObject /\ seenCurrent' \in BOOLEAN
        BY <1>0, <3>1, <3>2 DEF ServerType, CacheType, MinIOObject, RoundOK, Round
      <3> QED  BY <2>2, <3>5, <3>6, ChargeType DEF WriteAccepted, ServerType, CacheType
    <2>3. CASE WriteConflict
      BY <1>0, <2>1, <2>3 DEF WriteConflict, ServerType, CacheType, server, caches
    <2>4. CASE WriteInvalid
      <3>1. ControlType'
        BY <1>0, <2>4, ReturnType DEF WriteInvalid
      <3> QED  BY <2>4, <3>1 DEF WriteInvalid, ServerType, CacheType, server, caches
    <2>5. CASE WriteFailed
      <3>1. ControlType'
        BY <1>0, <2>5, ReturnType DEF WriteFailed
      <3>2. budget' \in [Disturbance -> Nat]
        BY <2>5 DEF WriteFailed, Spend, Disturbance
      <3> QED  BY <2>5, <3>1, <3>2 DEF WriteFailed, ServerType, CacheType, server, caches
    <2> QED  BY <1>3, <2>2, <2>3, <2>4, <2>5 DEF WriteStatus
  <1>4. CASE GetRevision(o)
    <2> DEFINE r == [round EXCEPT !.old = crSeen.spec]
    <2>1. round.updates = {}
      BY <1>4 DEF GetRevision, ControlType, Unplanned
    <2>2. RoundOK(r)
      BY <1>0, <2>1 DEF RoundOK, Round, CacheType, Revision
    <2>3. \/ Continue("createRevision", r) \/ Continue("deleteRevision", r)
          \/ Continue("getService", r) \/ Return(TRUE)
      BY <1>4 DEF GetRevision, Outcome
    <2>4. ControlType'
      BY <1>0, <2>2, <2>3, ContinueType, ReturnType DEF Stage, RevisionStage, ServiceStage
    <2> QED  BY <1>4, <2>4, ChargeType DEF GetRevision, ServerType, CacheType, server, caches
  <1>5. CASE DeleteRevision(o)
    <2>1. ControlType'
      BY <1>0, <1>5, ReturnType, ContinueType DEF DeleteRevision, Stage, RevisionStage
    <2>2. ServerType'
      BY <1>5 DEF DeleteRevision, ServerType, NoRevision, Revision, RecordedSpec
    <2> QED  BY <1>5, <2>1, <2>2, ChargeType DEF DeleteRevision, CacheType, caches
  <1>6. CASE CreateRevision(o)
    <2>1. ControlType'
      BY <1>0, <1>6, ReturnType, ContinueType DEF CreateRevision, Stage, ServiceStage
    <2>2. ServerType'
      BY <1>0, <1>6 DEF CreateRevision, ServerType, Revision, RecordedSpec, RoundOK, Round
    <2> QED  BY <1>6, <2>1, <2>2, ChargeType DEF CreateRevision, CacheType, caches
  <1> QED  BY <1>1, <1>2, <1>3, <1>4, <1>5, <1>6

\* The calls about the services.
LEMMA ServiceStepType ==
    ASSUME TypeOK,
           NEW o \in Outcome,
           GetService(o) \/ CreateService(o) \/ UpdateService(o)
    PROVE  TypeOK'
  <1> USE DEF TypeOK
  <1>0. queued \in BOOLEAN /\ RoundOK(round)
    BY DEF ControlType
  <1>1. {"Running", "Failed"} \subseteq DeployStatus
    BY DEF DeployStatus
  <1>2. {"createService", "failed"} \subseteq Continuation \ {"getRevision"}
    BY DEF Continuation
  <1>3. CASE GetService(o)
    <2>1. CASE o = "refused"
      BY <1>0, <1>3, <2>1, ReturnType, ChargeType
         DEF GetService, ServerType, CacheType, server, caches
    <2>2. CASE o = "ok" /\ round.kind \notin DOMAIN svcs
      <3>1. WriteThen("Running", "createService", round)
        BY <1>3, <2>2 DEF GetService
      <3>2. ControlType'
        BY <1>0, <1>1, <1>2, <3>1, WriteThenType
      <3> QED  BY <1>3, <3>2, ChargeType DEF GetService, ServerType, CacheType, server, caches
    <2>3. CASE o = "ok" /\ round.kind \in DOMAIN svcs
      <3>1. CheckService(svcs[round.kind]) /\ svcs[round.kind] \in ServiceContent
        BY <1>3, <2>3 DEF GetService, ServerType
      <3>2. ControlType'
        BY <1>0, <3>1, CheckServiceType
      <3> QED  BY <1>3, <3>2, ChargeType DEF GetService, ServerType, CacheType, server, caches
    <2> QED  BY <1>3, <2>1, <2>2, <2>3 DEF GetService, Outcome
  <1>4. CASE CreateService(o)
    <2> DEFINE new == CreatedService(round.kind, round.spec)
    <2>1. new \in ServiceContent /\ round.kind \in ServiceKind
      BY <1>0, RoundSpecs, ServiceTypes
    <2>2. svcs' = Put(svcs, round.kind, new) \/ svcs' = svcs
      BY <1>4 DEF CreateService
    <2>3. CheckService(new) \/ WriteThen("Failed", "failed", round)
      BY <1>4 DEF CreateService
    <2> HIDE DEF new
    <2>4. DOMAIN svcs' \subseteq ServiceKind /\ \A k \in DOMAIN svcs' : svcs'[k] \in ServiceContent
      BY <2>1, <2>2 DEF Put, ServerType
    <2>5. ControlType'
      BY <1>0, <1>1, <1>2, <2>1, <2>3, CheckServiceType, WriteThenType
    <2> QED  BY <1>4, <2>4, <2>5, ChargeType DEF CreateService, ServerType, CacheType, caches
  <1>5. CASE UpdateService(o)
    <2> DEFINE new == StoredService(round.read, ExpectedService(round.kind, round.spec))
    <2>1. new \in ServiceContent /\ round.kind \in ServiceKind
      <3>1. round.read \in ServiceContent
        BY <1>0 DEF RoundOK, Round
      <3> QED  BY <1>0, <3>1, RoundSpecs, ServiceTypes
    <2>2. svcs' = Put(svcs, round.kind, new) \/ svcs' = svcs
      BY <1>5 DEF UpdateService
    <2>3. NextCheck(round) \/ WriteThen("Failed", "failed", round)
      BY <1>5 DEF UpdateService
    <2> HIDE DEF new
    <2>4. DOMAIN svcs' \subseteq ServiceKind /\ \A k \in DOMAIN svcs' : svcs'[k] \in ServiceContent
      BY <2>1, <2>2 DEF Put, ServerType
    <2>5. ControlType'
      BY <1>0, <1>1, <1>2, <2>3, NextCheckType, WriteThenType
    <2> QED  BY <1>5, <2>4, <2>5, ChargeType DEF UpdateService, ServerType, CacheType, caches
  <1> QED  BY <1>3, <1>4, <1>5

\* The calls about the claims.
LEMMA ClaimStepType ==
    ASSUME TypeOK,
           NEW o \in Outcome,
           ListClaims(o) \/ CreateClaim(o) \/ ClaimsCreated
    PROVE  TypeOK'
  <1> USE DEF TypeOK
  <1>0. queued \in BOOLEAN /\ RoundOK(round)
    BY DEF ControlType
  <1>1. "planPods" \in Stage \ {"getRevision"} /\ "createClaims" \in Stage \ {"getRevision"}
    BY DEF Stage, ClaimStage, PodStage
  <1>2. CASE ListClaims(o)
    <2> DEFINE r == [round EXCEPT !.claims = NewClaims(round.spec.pools)]
    <2>1. NewClaims(round.spec.pools) \subseteq ClaimName
      BY <1>0, RoundSpecs, NewClaimsType
    <2>2. RoundOK(r)
      BY <1>0, <2>1 DEF RoundOK, Round
    <2>3. Continue("planPods", round) \/ WriteThen("Running", "createClaims", r) \/ Return(TRUE)
      BY <1>2 DEF ListClaims, Outcome
    <2> HIDE DEF r
    <2>4. ControlType'
      BY <1>0, <1>1, <2>2, <2>3, ContinueType, WriteThenType, ReturnType
         DEF DeployStatus, Continuation
    <2> QED  BY <1>2, <2>4, ChargeType DEF ListClaims, ServerType, CacheType, server, caches
  <1>3. CASE CreateClaim(o)
    <2>1. PICK c \in round.claims :
            /\ claims' = IF o = "refused" THEN claims ELSE claims \cup {c}
            /\ Continue("createClaims", [round EXCEPT !.claims = @ \ {c}])
      BY <1>3 DEF CreateClaim
    <2>2. round.claims \subseteq ClaimName
      BY <1>0 DEF RoundOK, Round
    <2>3. RoundOK([round EXCEPT !.claims = @ \ {c}])
      BY <1>0 DEF RoundOK, Round
    <2>4. ControlType'
      BY <1>0, <1>1, <2>1, <2>3, ContinueType
    <2>5. claims' \subseteq ClaimName
      BY <2>1, <2>2 DEF ServerType
    <2> QED  BY <1>3, <2>4, <2>5, ChargeType DEF CreateClaim, ServerType, CacheType, caches
  <1>4. CASE ClaimsCreated
    <2>1. ControlType'
      BY <1>0, <1>1, <1>4, ContinueType DEF ClaimsCreated
    <2> QED  BY <1>4, <2>1 DEF ClaimsCreated, ServerType, CacheType, server, caches
  <1> QED  BY <1>2, <1>3, <1>4

\* The calls about the pods.
LEMMA PodStepType ==
    ASSUME TypeOK,
           NEW o \in Outcome,
           PlanPods \/ CreatePod(o) \/ PodsCreated \/ UpdatePod(o) \/ PodsUpdated
    PROVE  TypeOK'
  <1> USE DEF TypeOK
  <1>0. queued \in BOOLEAN /\ RoundOK(round)
    BY DEF ControlType
  <1>1. {"createPods", "updatePods"} \subseteq Stage \ {"getRevision"}
    BY DEF Stage, PodStage
  <1>2. {"Running", "Failed"} \subseteq DeployStatus
    BY DEF DeployStatus
  <1>3. {"failed", "done"} \subseteq Continuation \ {"getRevision"}
    BY DEF Continuation
  <1>4. CASE PlanPods
    <2> DEFINE adds == AddedServers(round.old, round.spec)
               updates == UpdatedServers(round.old, round.spec)
               r == [round EXCEPT !.adds = adds, !.updates = updates]
    <2>1. adds \subseteq Servers(round.spec.pools) /\ updates \subseteq Servers(round.old.pools)
      BY DEF AddedServers, UpdatedServers
    <2>2. adds \subseteq Nat \X Nat /\ updates \subseteq Nat \X Nat
      BY <1>0, <2>1, RoundSpecs, ServersType
    <2>3. Continue("createPods", r)
      BY <1>4 DEF PlanPods
    <2> HIDE DEF adds, updates
    <2>4. RoundOK(r)
      BY <1>0, <2>1, <2>2 DEF RoundOK, Round
    <2> HIDE DEF r
    <2>5. ControlType'
      BY <1>0, <1>1, <2>3, <2>4, ContinueType
    <2> QED  BY <1>4, <2>5 DEF PlanPods, ServerType, CacheType, server, caches
  <1>5. CASE CreatePod(o)
    <2> DEFINE new(x) == PodOf(round.spec, round.spec.pools[x[1]])
               r(x) == [round EXCEPT !.adds = @ \ {x}]
    <2>1. PICK x \in round.adds :
            /\ \/ pods' = Put(pods, NameOf(round.spec.pools, x), new(x))
               \/ pods' = pods
            /\ Continue("createPods", r(x)) \/ WriteThen("Failed", "failed", round)
      BY <1>5 DEF CreatePod
    <2>2. NameOf(round.spec.pools, x) \in PodName /\ round.spec.pools[x[1]] \in Pool
      BY <1>0, RoundSpecs, ServersType DEF RoundOK
    <2>3. new(x) \in PodContent
      BY <1>0, <2>2, RoundSpecs, PodOfType
    <2>4. RoundOK(r(x))
      BY <1>0 DEF RoundOK, Round
    <2> HIDE DEF new, r
    <2>5. ControlType'
      BY <1>0, <1>1, <1>2, <1>3, <2>1, <2>4, ContinueType, WriteThenType
    <2>6. /\ DOMAIN pods' \subseteq PodName /\ \A n \in DOMAIN pods' : pods'[n] \in PodContent
          /\ DOMAIN pods \subseteq DOMAIN pods'
      BY <2>1, <2>2, <2>3 DEF Put, ServerType
    <2> QED  BY <1>5, <2>5, <2>6, ChargeType DEF CreatePod, ServerType, CacheType, caches
  <1>6. CASE PodsCreated
    <2>1. ControlType'
      BY <1>0, <1>1, <1>6, ContinueType DEF PodsCreated
    <2> QED  BY <1>6, <2>1 DEF PodsCreated, ServerType, CacheType, server, caches
  <1>7. CASE UpdatePod(o)
    <2> DEFINE new(x) == PodOf(round.spec, round.old.pools[x[1]])
               r(x) == [round EXCEPT !.updates = @ \ {x}]
    <2>1. PICK x \in round.updates :
            /\ \/ pods' = Put(pods, NameOf(round.old.pools, x), new(x))
               \/ pods' = pods
            /\ Continue("updatePods", r(x)) \/ WriteThen("Failed", "failed", round)
      BY <1>7 DEF UpdatePod
    <2>2. NameOf(round.old.pools, x) \in PodName /\ round.old.pools[x[1]] \in Pool
      BY <1>0, RoundSpecs, ServersType DEF RoundOK
    <2>3. new(x) \in PodContent
      BY <1>0, <2>2, RoundSpecs, PodOfType
    <2>4. RoundOK(r(x))
      BY <1>0 DEF RoundOK, Round
    <2> HIDE DEF new, r
    <2>5. ControlType'
      BY <1>0, <1>1, <1>2, <1>3, <2>1, <2>4, ContinueType, WriteThenType
    <2>6. /\ DOMAIN pods' \subseteq PodName /\ \A n \in DOMAIN pods' : pods'[n] \in PodContent
          /\ DOMAIN pods \subseteq DOMAIN pods'
      BY <2>1, <2>2, <2>3 DEF Put, ServerType
    <2> QED  BY <1>7, <2>5, <2>6, ChargeType DEF UpdatePod, ServerType, CacheType, caches
  <1>8. CASE PodsUpdated
    <2>1. ControlType'
      BY <1>0, <1>2, <1>3, <1>8, WriteThenType DEF PodsUpdated
    <2> QED  BY <1>8, <2>1 DEF PodsUpdated, ServerType, CacheType, server, caches
  <1> QED  BY <1>4, <1>5, <1>6, <1>7, <1>8

\* The steps of the reconciler, by stage, for one outcome.
ReconcilerStep(o) ==
    \/ SkipRound \/ StartRound \/ WriteStatus
    \/ GetRevision(o) \/ DeleteRevision(o) \/ CreateRevision(o)
    \/ GetService(o) \/ CreateService(o) \/ UpdateService(o)
    \/ ListClaims(o) \/ CreateClaim(o) \/ ClaimsCreated
    \/ PlanPods \/ CreatePod(o) \/ PodsCreated \/ UpdatePod(o) \/ PodsUpdated

\* Reconcile is one of its calls, with one outcome.
LEMMA ReconcileSteps ==
    ASSUME Reconcile
    PROVE  \E o \in Outcome : ReconcilerStep(o)
  BY DEF Reconcile, ReconcilerStep, Outcome

\* Every call of Reconcile keeps the types of the state (minio_controller.go:78-218).
LEMMA ReconcileType ==
    ASSUME TypeOK, Reconcile
    PROVE  TypeOK'
  <1>1. PICK o \in Outcome : ReconcilerStep(o)
    BY ReconcileSteps
  <1> QED  BY <1>1, RevisionStepType, ServiceStepType, ClaimStepType, PodStepType
           DEF ReconcilerStep

\* What happens around the reconciler keeps the types of the state.
LEMMA EnvironmentType ==
    ASSUME TypeOK, Environment
    PROVE  TypeOK'
  <1> USE DEF TypeOK
  <1>0. /\ queued \in BOOLEAN /\ RoundOK(round) /\ RoundOK([round EXCEPT !.current = FALSE])
        /\ budget \in [Disturbance -> Nat]
    BY DEF ControlType, RoundOK, Round
  <1>1. ASSUME NEW k \in Disturbance, Spend(k) PROVE budget' \in [Disturbance -> Nat]
    BY <1>0, <1>1 DEF Spend, Disturbance
  <1>2. ASSUME NEW m \in MinIOObject, ChangeMinIO(m, round), UNCHANGED <<pc, queued>>
        PROVE  minio' \in MinIOObject /\ seenCurrent' \in BOOLEAN /\ ControlType'
    BY <1>0, <1>2 DEF ChangeMinIO, ControlType, RoundOK, Unplanned, Round
  <1>3. CASE SyncMinIO \/ SyncRevision \/ SyncClaims \/ Resync
    BY <1>3 DEF SyncMinIO, SyncRevision, SyncClaims, Resync, server, caches, ServerType,
               CacheType, ControlType, Unplanned
  <1>4. CASE EditSpec
    <2>1. PICK e \in Edits : ChangeMinIO([minio EXCEPT !.spec = e[2]], round)
      BY <1>4 DEF EditSpec
    <2>2. [minio EXCEPT !.spec = e[2]] \in MinIOObject
      BY SpecsAssumption DEF ServerType, MinIOObject
    <2>3. minio' \in MinIOObject /\ seenCurrent' \in BOOLEAN /\ ControlType'
      BY <1>2, <1>4, <2>1, <2>2 DEF EditSpec
    <2> QED  BY <1>1, <1>4, <2>3 DEF EditSpec, Disturbance, ServerType, CacheType
  <1>5. CASE DeleteMinIO
    <2>1. PICK m \in {GoneMinIO, [minio EXCEPT !.phase = "deleting"]} : ChangeMinIO(m, round)
      BY <1>5 DEF DeleteMinIO
    <2>2. m \in MinIOObject
      <3>1. GoneMinIO \in MinIOObject
        BY DEF MinIOObject, GoneMinIO, DeployStatus
      <3>2. [minio EXCEPT !.phase = "deleting"] \in MinIOObject
        BY DEF ServerType, MinIOObject
      <3> QED  BY <2>1, <3>1, <3>2
    <2>3. minio' \in MinIOObject /\ seenCurrent' \in BOOLEAN /\ ControlType'
      BY <1>2, <1>5, <2>1, <2>2 DEF DeleteMinIO
    <2> QED  BY <1>1, <1>5, <2>3 DEF DeleteMinIO, Disturbance, ServerType, CacheType
  <1>6. CASE GarbageCollect
    <2>1. cr' \in Revision
      <3>1. NoRevision \in Revision
        BY DEF NoRevision, Revision, RecordedSpec
      <3>2. cr' = NoRevision \/ cr' = cr
        BY <1>6 DEF GarbageCollect, CollectRevision, CollectService, CollectPod
      <3> QED  BY <3>1, <3>2 DEF ServerType
    <2>2. /\ DOMAIN svcs' \subseteq ServiceKind
          /\ \A k \in DOMAIN svcs' : svcs'[k] \in ServiceContent
      BY <1>6 DEF GarbageCollect, CollectRevision, CollectService, CollectPod, ServerType, Restrict
    <2>3. /\ DOMAIN pods' \subseteq PodName
          /\ \A n \in DOMAIN pods' : pods'[n] \in PodContent
          /\ sealed' \subseteq DOMAIN pods'
      BY <1>6 DEF GarbageCollect, CollectRevision, CollectService, CollectPod, ServerType, Restrict
    <2> QED  BY <1>6, <2>1, <2>2, <2>3 DEF GarbageCollect, ServerType, CacheType, ControlType,
                Unplanned, caches
  <1>7. CASE FinishDeletion
    <2>1. GoneMinIO \in MinIOObject
      BY DEF MinIOObject, GoneMinIO, DeployStatus
    <2>2. minio' \in MinIOObject /\ seenCurrent' \in BOOLEAN /\ ControlType'
      BY <1>2, <1>7, <2>1 DEF FinishDeletion
    <2> QED  BY <1>7, <2>2 DEF FinishDeletion, ServerType, CacheType
  <1>8. CASE DriftService
    <2>1. PICK k \in DOMAIN svcs : svcs' = [svcs EXCEPT ![k].port = "other"]
      BY <1>8 DEF DriftService
    <2>2. [svcs[k] EXCEPT !.port = "other"] \in ServiceContent
      BY DEF ServerType, ServiceContent
    <2>3. /\ DOMAIN svcs' \subseteq ServiceKind
          /\ \A j \in DOMAIN svcs' : svcs'[j] \in ServiceContent
      BY <2>1, <2>2 DEF ServerType
    <2> QED  BY <1>1, <1>8, <2>3 DEF DriftService, Disturbance, ServerType, CacheType,
                ControlType, Unplanned, caches
  <1>9. CASE ForeignStatusWrite
    <2>1. PICK s \in {minio.status, "Completed", "Running", "Failed"} :
             ChangeMinIO([minio EXCEPT !.status = s], round)
      BY <1>9 DEF ForeignStatusWrite
    <2>2. [minio EXCEPT !.status = s] \in MinIOObject
      BY DEF ServerType, MinIOObject, DeployStatus
    <2>3. minio' \in MinIOObject /\ seenCurrent' \in BOOLEAN /\ ControlType'
      BY <1>2, <1>9, <2>1, <2>2 DEF ForeignStatusWrite
    <2> QED  BY <1>1, <1>9, <2>3 DEF ForeignStatusWrite, Disturbance, ServerType, CacheType
  <1>10. CASE Restart
    <2>1. ControlType'
      BY <1>10, NoRoundOK DEF Restart, ControlType, Unplanned, Stage, RoundOK
    <2> QED  BY <1>1, <1>10, <2>1 DEF Restart, Disturbance, ServerType, CacheType, server
  <1>11. CASE SealPod
    <2>1. sealed' \subseteq DOMAIN pods
      BY <1>11 DEF SealPod, ServerType
    <2> QED  BY <1>11, <2>1 DEF SealPod, ServerType, CacheType, ControlType, Unplanned, caches
  <1>12. CASE CompleteStatus
    <2>1. [minio EXCEPT !.lists = TRUE] \in MinIOObject
      BY DEF ServerType, MinIOObject
    <2>2. minio' \in MinIOObject /\ seenCurrent' \in BOOLEAN /\ ControlType'
      BY <1>2, <1>12, <2>1 DEF CompleteStatus
    <2> QED  BY <1>12, <2>2 DEF CompleteStatus, ServerType, CacheType
  <1> QED  BY <1>3, <1>4, <1>5, <1>6, <1>7, <1>8, <1>9, <1>10, <1>11, <1>12 DEF Environment

\* A step that changes nothing keeps the types of the state.
LEMMA UnchangedType ==
    ASSUME TypeOK, UNCHANGED vars
    PROVE  TypeOK'
  BY DEF vars, server, caches, TypeOK, ServerType, CacheType, ControlType, RoundOK, Unplanned

\* Every reachable state is well typed, for every set of specifications and every budget;
\* in particular a plan never indexes the pools of a specification outside their range
\* (Reconcile, minio_controller.go:78-218).
THEOREM TypeCorrect == Spec => []TypeOK
  <1>1. TypeOK /\ [Next]_vars => TypeOK'
    BY ReconcileType, EnvironmentType, UnchangedType DEF Next
  <1> QED  BY InitType, <1>1, PTL DEF Spec

-----------------------------------------------------------------------------
(***************************************************************************)
(* What all steps have in common.                                          *)
(***************************************************************************)
\* An object that is being deleted, or gone, does not come back.
LEMMA LiveStep ==
    ASSUME TypeOK, [Next]_vars, Live'
    PROVE  Live
  <1> USE DEF Live
  <1>1. CASE Reconcile
    <2>1. PICK o \in Outcome : ReconcilerStep(o)
      BY <1>1, ReconcileSteps
    <2>2. CASE \E w \in Outcome : WriteAccepted(w)
      BY <2>2 DEF WriteAccepted, TypeOK, ServerType, MinIOObject
    <2>3. CASE WriteConflict \/ WriteInvalid \/ WriteFailed
      BY <2>3 DEF WriteConflict, WriteInvalid, WriteFailed, server
    <2>4. CASE ~WriteStatus
      BY <2>1, <2>4 DEF ReconcilerStep, SkipRound, StartRound, GetRevision, ListClaims,
         ClaimsCreated, PlanPods, PodsCreated, PodsUpdated, DeleteRevision, CreateRevision,
         GetService, CreateService, UpdateService, CreateClaim, CreatePod, UpdatePod, server
    <2> QED  BY <2>2, <2>3, <2>4 DEF WriteStatus
  <1>2. CASE Environment
    <2>1. CASE EditSpec \/ DeleteMinIO \/ CompleteStatus \/ ForeignStatusWrite
      BY <2>1 DEF EditSpec, DeleteMinIO, CompleteStatus, ForeignStatusWrite
    <2>2. CASE FinishDeletion
      BY <2>2 DEF FinishDeletion, ChangeMinIO, GoneMinIO
    <2>3. CASE SyncMinIO \/ SyncRevision \/ SyncClaims \/ Resync \/ GarbageCollect
                 \/ DriftService \/ SealPod \/ Restart
      BY <2>3 DEF SyncMinIO, SyncRevision, SyncClaims, Resync, GarbageCollect, DriftService,
                 SealPod, Restart, server
    <2> QED  BY <1>2, <2>1, <2>2, <2>3 DEF Environment
  <1> QED  BY <1>1, <1>2 DEF Next, vars, server

\* While the instance lives, its environment takes away no service and no pod and leaves
\* the ControllerRevision alone; of a round it changes nothing but what it knows of the
\* object's version, or it ends the round.
LEMMA EnvironmentStep ==
    ASSUME TypeOK, Environment, Live
    PROVE  /\ cr' = cr /\ DOMAIN svcs' = DOMAIN svcs /\ pods' = pods
           /\ \/ pc' = "idle"
              \/ /\ pc' = pc
                 /\ \/ round' = round
                    \/ round' = [round EXCEPT !.current = FALSE]
  BY DEF Live, Environment, SyncMinIO, SyncRevision, SyncClaims, Resync, EditSpec, DeleteMinIO,
     GarbageCollect, FinishDeletion, DriftService, SealPod, CompleteStatus, ForeignStatusWrite,
     Restart, ChangeMinIO, server, caches

\* A status write touches neither the ControllerRevision, nor the services, nor the pods,
\* and goes on where it was told to.
LEMMA WriteStep ==
    ASSUME TypeOK, WriteStatus
    PROVE  /\ pc = "writeStatus"
           /\ cr' = cr /\ svcs' = svcs /\ pods' = pods
           /\ \/ pc' = "idle"
              \/ /\ pc' = round.next /\ round.next \in Continuation \ {"failed", "done"}
                 /\ \/ round' = round
                    \/ \E b \in BOOLEAN : round' = [round EXCEPT !.current = b]
  <1> DEFINE After(r) ==
        \/ pc' = "idle"
        \/ /\ pc' = round.next /\ round.next \in Continuation \ {"failed", "done"}
           /\ round' = r
  <1>0. round \in Round /\ round.next \in Continuation
    BY DEF TypeOK, ControlType, RoundOK, Round
  <1>1. ASSUME NEW r, r.next = round.next, AfterWrite(r) PROVE After(r)
    BY <1>0, <1>1 DEF AfterWrite, Return, Continue, Continuation
  <1>2. CASE \E o \in Outcome : WriteAccepted(o)
    <2>1. PICK change \in Changes(minio.status, round.status) :
             Return(TRUE) \/ AfterWrite([round EXCEPT !.current = ~change])
      BY <1>2 DEF WriteAccepted
    <2> DEFINE r == [round EXCEPT !.current = ~change]
    <2>2. r.next = round.next /\ (~change) \in BOOLEAN
      BY <1>0 DEF Round
    <2>3. pc = "writeStatus" /\ cr' = cr /\ svcs' = svcs /\ pods' = pods
      BY <1>2 DEF WriteAccepted
    <2> QED  BY <1>1, <2>1, <2>2, <2>3 DEF Return
  <1>3. CASE WriteConflict
    BY <1>1, <1>3 DEF WriteConflict, server
  <1>4. CASE WriteInvalid \/ WriteFailed
    BY <1>4 DEF WriteInvalid, WriteFailed, Return, server
  <1> QED  BY <1>2, <1>3, <1>4 DEF WriteStatus

-----------------------------------------------------------------------------
(***************************************************************************)
(* The ControllerRevision is recorded before anything is done.             *)
(***************************************************************************)
\* Every step keeps the ControllerRevision that the round recorded; in the deletion and creation
\* of it (minio_controller.go:108-125) the round is not yet past it.
LEMMA RevisionStep ==
    ASSUME TypeOK, RevisionRecordsRound, [Next]_vars
    PROVE  RevisionRecordsRound'
  <1> SUFFICES ASSUME AfterRevision', Live'
               PROVE  \/ cr' = [exists |-> TRUE, spec |-> RoundTrip(round'.spec)]
                      \/ round'.old = round'.spec
    BY DEF RevisionRecordsRound
  <1> DEFINE Kept == /\ cr' = cr
                     /\ round'.spec = round.spec /\ round'.old = round.old
  <1>0. round \in Round /\ Live
    BY LiveStep DEF TypeOK, ControlType, RoundOK
  <1>a. pc' # "idle"
    BY DEF AfterRevision, ServiceStage, ClaimStage, PodStage
  <1>b. ASSUME AfterRevision, Kept
        PROVE  \/ cr' = [exists |-> TRUE, spec |-> RoundTrip(round'.spec)]
               \/ round'.old = round'.spec
    BY <1>0, <1>b DEF RevisionRecordsRound
  <1>1. CASE SkipRound \/ StartRound
    BY <1>1 DEF SkipRound, StartRound, AfterRevision, ServiceStage, ClaimStage, PodStage, NoRound
  <1>2. CASE WriteStatus
    <2>1. AfterRevision
      BY <1>2, <1>a, WriteStep DEF AfterRevision, ServiceStage, ClaimStage, PodStage, Continuation
    <2>2. Kept
      BY <1>0, <1>2, <1>a, WriteStep DEF Round
    <2> QED  BY <1>b, <2>1, <2>2
  <1>3. ASSUME NEW o \in Outcome, GetRevision(o) PROVE round'.old = round'.spec
    BY <1>0, <1>a, <1>3 DEF GetRevision, Continue, Return, Outcome, AfterRevision, ServiceStage,
                          ClaimStage, PodStage, Round
  <1>4. ASSUME NEW o \in Outcome, DeleteRevision(o) PROVE FALSE
    BY <1>a, <1>4 DEF DeleteRevision, Continue, Return, AfterRevision, ServiceStage, ClaimStage,
                     PodStage
  <1>5. ASSUME NEW o \in Outcome, CreateRevision(o)
        PROVE  cr' = [exists |-> TRUE, spec |-> RoundTrip(round'.spec)]
    BY <1>a, <1>5 DEF CreateRevision, Continue, Return, Outcome
  <1>6. ASSUME NEW o \in Outcome, GetService(o) \/ CreateService(o) \/ UpdateService(o)
        PROVE  AfterRevision /\ Kept
    BY <1>0, <1>a, <1>6 DEF GetService, CreateService, UpdateService, AfterRevision, ServiceStage,
       server, WriteThen, Continue, Return, CheckService, NextCheck, Round, ServiceKind
  <1>7. ASSUME NEW o \in Outcome, ListClaims(o) \/ CreateClaim(o) \/ ClaimsCreated
        PROVE  AfterRevision /\ Kept
    BY <1>0, <1>a, <1>7 DEF ListClaims, CreateClaim, ClaimsCreated, AfterRevision, ClaimStage,
       server, WriteThen, Continue, Return, Outcome, Round
  <1>8. ASSUME NEW o \in Outcome,
               PlanPods \/ CreatePod(o) \/ PodsCreated \/ UpdatePod(o) \/ PodsUpdated
        PROVE  AfterRevision /\ Kept
    BY <1>0, <1>8 DEF PlanPods, CreatePod, PodsCreated, UpdatePod, PodsUpdated, AfterRevision,
       PodStage, server, WriteThen, Continue, Round
  <1>9. CASE Environment
    <2>1. AfterRevision /\ Kept
      BY <1>0, <1>9, <1>a, EnvironmentStep DEF AfterRevision, Round
    <2> QED  BY <1>b, <2>1
  <1>10. CASE UNCHANGED vars
    BY <1>b, <1>10 DEF vars, server, AfterRevision
  <1>11. CASE Reconcile
    <2>1. PICK o \in Outcome : ReconcilerStep(o)
      BY <1>11, ReconcileSteps
    <2> QED  BY <1>1, <1>2, <1>3, <1>4, <1>5, <1>6, <1>7, <1>8, <1>b, <2>1 DEF ReconcilerStep
  <1> QED  BY <1>9, <1>10, <1>11 DEF Next

\* While the instance lives, a round past the ControllerRevision either found no
\* difference or has recorded its own specification (minio_controller.go:101-125).
THEOREM RevisionRecorded == Spec => []RevisionRecordsRound
  <1>1. Init => RevisionRecordsRound
    BY DEF Init, RevisionRecordsRound, AfterRevision, ServiceStage, ClaimStage, PodStage
  <1> QED  BY <1>1, RevisionStep, TypeCorrect, PTL DEF Spec

-----------------------------------------------------------------------------
(***************************************************************************)
(* The services come before the pods.                                      *)
(***************************************************************************)
\* What ServicesInv says of the control state, for services D.
LEMMA NextCheckServices ==
    ASSUME NEW D, round \in Round, NextCheck(round),
           CheckedBefore(round.kind) \subseteq D, round.kind \in D, D \subseteq ServiceKind
    PROVE  /\ BeforeServices' => CheckedBefore(round'.kind) \subseteq D
           /\ BeyondServices' => D = ServiceKind
  <1>1. CASE round.kind = "ci"
    <2>1. pc' = "getService" /\ round'.kind = "console"
      BY <1>1 DEF NextCheck, Continue, Round
    <2> QED  BY <1>1, <2>1 DEF CheckedBefore, BeyondServices, ClaimStage, PodStage
  <1>2. CASE round.kind = "console"
    <2>1. pc' = "getService" /\ round'.kind = "hl"
      BY <1>2 DEF NextCheck, Continue, Round
    <2> QED  BY <1>2, <2>1 DEF CheckedBefore, BeyondServices, ClaimStage, PodStage
  <1>3. CASE round.kind = "hl"
    <2>1. pc' = "listClaims"
      BY <1>3 DEF NextCheck, Continue
    <2>2. D = ServiceKind
      BY <1>3 DEF CheckedBefore, ServiceKind
    <2> QED  BY <2>1, <2>2 DEF BeforeServices, RevisionStage, ServiceStage
  <1> QED  BY <1>1, <1>2, <1>3 DEF Round, ServiceKind

\* Once its service exists, the check goes on with the next one or updates it
\* (minio_controller.go:245-397).
LEMMA CheckServiceServices ==
    ASSUME NEW D, NEW svc, round \in Round, CheckService(svc),
           CheckedBefore(round.kind) \subseteq D, round.kind \in D, D \subseteq ServiceKind
    PROVE  /\ BeforeServices' => CheckedBefore(round'.kind) \subseteq D
           /\ BeyondServices' => D = ServiceKind
  <1>1. CASE NextCheck(round)
    BY <1>1, NextCheckServices
  <1>2. CASE Continue("updateService", [round EXCEPT !.read = svc])
    BY <1>2 DEF Continue, BeyondServices, ClaimStage, PodStage, Round
  <1> QED  BY <1>1, <1>2 DEF CheckService

\* Every step keeps the services that the round has checked, and pods come after all three of
\* them (minio_controller.go:127-192).
LEMMA ServicesStep ==
    ASSUME TypeOK, ServicesInv, [Next]_vars
    PROVE  ServicesInv'
  <1> DEFINE D == DOMAIN svcs'
             P == DOMAIN pods'
             Goal == /\ BeforeServices' => CheckedBefore(round'.kind) \subseteq D
                     /\ BeyondServices' \/ P # {} => D = ServiceKind
  <1> SUFFICES ASSUME Live' PROVE Goal
    BY DEF ServicesInv
  <1>0. /\ round \in Round /\ DOMAIN svcs \subseteq ServiceKind
        /\ BeforeServices => CheckedBefore(round.kind) \subseteq DOMAIN svcs
        /\ BeyondServices \/ DOMAIN pods # {} => DOMAIN svcs = ServiceKind
    BY LiveStep DEF TypeOK, ControlType, ServerType, RoundOK, ServicesInv
  <1>1. CASE SkipRound \/ StartRound
    <2>1. svcs' = svcs /\ pods' = pods
      BY <1>1 DEF SkipRound, StartRound, server
    <2>2. ~BeyondServices'
      BY <1>1 DEF SkipRound, StartRound, BeyondServices, NoRound, ClaimStage, PodStage
    <2>3. BeforeServices' => round'.kind = "ci"
      BY <1>1 DEF SkipRound, StartRound, BeforeServices, NoRound, RevisionStage, ServiceStage
    <2> QED  BY <1>0, <2>1, <2>2, <2>3 DEF CheckedBefore
  <1>2. CASE WriteStatus
    <2>1. svcs' = svcs /\ pods' = pods
      BY <1>2, WriteStep
    <2>2. CASE pc' = "idle"
      BY <1>0, <2>1, <2>2 DEF BeforeServices, BeyondServices, RevisionStage, ServiceStage,
                             ClaimStage, PodStage
    <2>3. CASE pc' # "idle"
      <3>1. /\ pc = "writeStatus" /\ pc' = round.next
            /\ round.next \in {"getRevision", "createService", "createClaims"}
            /\ round'.kind = round.kind
        BY <1>0, <1>2, <2>3, WriteStep DEF Continuation, Round
      <3>2. (BeforeServices' => BeforeServices) /\ (BeyondServices' => BeyondServices)
        BY <3>1 DEF BeforeServices, BeyondServices, RevisionStage, ServiceStage, ClaimStage,
                   PodStage
      <3> QED  BY <1>0, <2>1, <3>1, <3>2
    <2> QED  BY <2>2, <2>3
  <1>3. ASSUME NEW o \in Outcome, GetRevision(o) \/ DeleteRevision(o) \/ CreateRevision(o)
        PROVE  Goal
    <2>1. svcs' = svcs /\ pods' = pods
      BY <1>3 DEF GetRevision, DeleteRevision, CreateRevision, server
    <2>2. BeforeServices /\ ~BeyondServices' /\ (BeforeServices' => round'.kind = round.kind)
      BY <1>0, <1>3 DEF GetRevision, DeleteRevision, CreateRevision, Continue, Return, Round,
         BeforeServices, BeyondServices, RevisionStage, ServiceStage, ClaimStage, PodStage
    <2> QED  BY <1>0, <2>1, <2>2
  <1>4. ASSUME NEW o \in Outcome, GetService(o) \/ CreateService(o) \/ UpdateService(o)
        PROVE  Goal
    <2>1. /\ CheckedBefore(round.kind) \subseteq DOMAIN svcs /\ pods' = pods
          /\ round.kind \in ServiceKind
      BY <1>0, <1>4 DEF GetService, CreateService, UpdateService, BeforeServices, ServiceStage,
                       server, Round
    <2>2. DOMAIN svcs \subseteq D /\ D \subseteq ServiceKind
      <3>1. svcs' = svcs \/ \E v : svcs' = Put(svcs, round.kind, v)
        BY <1>4 DEF GetService, CreateService, UpdateService, server
      <3> QED  BY <1>0, <2>1, <3>1 DEF Put
    <2>3. \/ round.kind \in D /\ \E svc : CheckService(svc)
          \/ round.kind \in D /\ NextCheck(round)
          \/ WriteThen("Running", "createService", round)
          \/ WriteThen("Failed", "failed", round)
          \/ Return(TRUE)
      BY <1>4 DEF GetService, CreateService, UpdateService, Put, server, Outcome
    <2>4. CASE \/ WriteThen("Running", "createService", round)
               \/ WriteThen("Failed", "failed", round)
               \/ Return(TRUE)
      <3>1. ~BeyondServices' /\ (BeforeServices' => round'.kind = round.kind)
        BY <1>0, <2>4 DEF WriteThen, Continue, Return, Round, BeforeServices, BeyondServices,
           RevisionStage, ServiceStage, ClaimStage, PodStage
      <3> QED  BY <1>0, <2>1, <2>2, <3>1
    <2> QED  BY <1>0, <2>1, <2>2, <2>3, <2>4, NextCheckServices, CheckServiceServices
  <1>5. ASSUME NEW o \in Outcome,
               \/ ListClaims(o) \/ CreateClaim(o) \/ ClaimsCreated
               \/ PlanPods \/ CreatePod(o) \/ PodsCreated \/ UpdatePod(o) \/ PodsUpdated
        PROVE  Goal
    <2>1. BeyondServices /\ svcs' = svcs
      BY <1>5 DEF ListClaims, CreateClaim, ClaimsCreated, PlanPods, CreatePod, PodsCreated,
         UpdatePod, PodsUpdated, server, BeyondServices, ClaimStage, PodStage
    <2>2. ~BeforeServices'
      BY <1>0, <1>5 DEF ListClaims, CreateClaim, ClaimsCreated, PlanPods, CreatePod, PodsCreated,
         UpdatePod, PodsUpdated, WriteThen, Continue, Return, BeforeServices, RevisionStage,
         ServiceStage, Round
    <2> QED  BY <1>0, <2>1, <2>2
  <1>6. CASE Environment
    <2>1. D = DOMAIN svcs /\ pods' = pods
      BY <1>6, EnvironmentStep, LiveStep
    <2>2. \/ pc' = "idle"
          \/ pc' = pc /\ round'.kind = round.kind /\ round'.next = round.next
      BY <1>0, <1>6, EnvironmentStep, LiveStep DEF Round
    <2>3. /\ BeforeServices' => BeforeServices /\ round'.kind = round.kind
          /\ BeyondServices' => BeyondServices
      BY <2>2 DEF BeforeServices, BeyondServices, RevisionStage, ServiceStage, ClaimStage, PodStage
    <2> QED  BY <1>0, <2>1, <2>3
  <1>7. CASE UNCHANGED vars
    BY <1>0, <1>7 DEF vars, server, BeforeServices, BeyondServices
  <1>8. CASE Reconcile
    <2>1. PICK o \in Outcome : ReconcilerStep(o)
      BY <1>8, ReconcileSteps
    <2> QED  BY <1>1, <1>2, <1>3, <1>4, <1>5, <2>1 DEF ReconcilerStep
  <1> QED  BY <1>6, <1>7, <1>8 DEF Next

\* A new instance has neither services nor pods (minio_controller.go:127-192).
LEMMA ServicesInit == Init => ServicesInv
  <1>1. DOMAIN << >> = {}
    OBVIOUS
  <1>2. Init => DOMAIN pods = {}
    BY <1>1, Zenon DEF Init
  <1> QED  BY <1>2 DEF Init, ServicesInv, BeforeServices, BeyondServices, RevisionStage,
              ServiceStage, ClaimStage, PodStage

-----------------------------------------------------------------------------
(***************************************************************************)
(* A round that succeeds has applied what it planned.                      *)
(***************************************************************************)
\* The round is where PlanInv and RoundApplied speak of it.
AtPods == pc \in {"createPods", "updatePods"} \/ (pc = "writeStatus" /\ round.next = "done")

\* Every step keeps the plan of the round and what has been applied of it, and a plan that is
\* empty at the end has been applied (minio_controller.go:147-213).
LEMMA PlanStep ==
    ASSUME TypeOK, PlanInv, RoundApplied, [Next]_vars
    PROVE  PlanInv' /\ RoundApplied'
  <1> DEFINE A == AddedServers(round.old, round.spec)
             U == UpdatedServers(round.old, round.spec)
             Goal == PlanInv' /\ RoundApplied'
             SameSpecs == round'.spec = round.spec /\ round'.old = round.old
  <1> SUFFICES ASSUME Live' PROVE Goal
    BY DEF PlanInv, RoundApplied
  <1>0. /\ Live /\ round \in Round
        /\ round.spec \in MinIOSpec /\ round.old \in MinIOSpec /\ round.old \in RecordedSpec
        /\ round.spec.pools \in Seq(Pool) /\ round.old.pools \in Seq(Pool)
    BY LiveStep, RoundSpecs DEF TypeOK, ControlType, RoundOK, Round
  <1>a. ASSUME ~AtPods' PROVE Goal
    BY <1>a DEF AtPods, PlanInv, RoundApplied
  <1>1. CASE SkipRound \/ StartRound
    BY <1>1, <1>a DEF SkipRound, StartRound, AtPods, NoRound
  <1>2. CASE WriteStatus
    <2>1. pc' = "idle" \/ pc' \in {"getRevision", "createService", "createClaims"}
      BY <1>2, WriteStep DEF Continuation
    <2> QED  BY <1>a, <2>1 DEF AtPods
  <1>3. ASSUME NEW o \in Outcome, GetRevision(o) \/ DeleteRevision(o) \/ CreateRevision(o)
        PROVE  Goal
    BY <1>3, <1>a DEF GetRevision, DeleteRevision, CreateRevision, Continue, Return, AtPods,
                     Outcome
  <1>4. ASSUME NEW o \in Outcome, GetService(o) \/ CreateService(o) \/ UpdateService(o)
        PROVE  Goal
    <2>1. ~AtPods'
      BY <1>0, <1>4 DEF GetService, CreateService, UpdateService, CheckService, NextCheck,
         WriteThen, Continue, Return, AtPods, Round, ServiceKind
    <2> QED  BY <1>a, <2>1
  <1>5. ASSUME NEW o \in Outcome, ListClaims(o) \/ CreateClaim(o) \/ ClaimsCreated
        PROVE  Goal
    <2>1. ~AtPods'
      BY <1>0, <1>5 DEF ListClaims, CreateClaim, ClaimsCreated, WriteThen, Continue, Return,
                       AtPods, Outcome, Round
    <2> QED  BY <1>a, <2>1
  <1>6. CASE PlanPods
    <2>1. /\ pc' = "createPods" /\ SameSpecs
          /\ round'.adds = A /\ round'.updates = U
      BY <1>0, <1>6 DEF PlanPods, Continue, Round
    <2> QED  BY <2>1 DEF PlanInv, RoundApplied
  <1>7. ASSUME NEW o \in Outcome, CreatePod(o)
        PROVE  Goal
    <2>1. PICK x \in round.adds :
            \/ /\ NameOf(round.spec.pools, x) \notin DOMAIN pods
               /\ pods' = Put(pods, NameOf(round.spec.pools, x),
                              PodOf(round.spec, round.spec.pools[x[1]]))
               /\ Continue("createPods", [round EXCEPT !.adds = @ \ {x}])
            \/ WriteThen("Failed", "failed", round)
      BY <1>7 DEF CreatePod
    <2>2. CASE WriteThen("Failed", "failed", round)
      BY <1>0, <1>a, <2>2 DEF WriteThen, Continue, AtPods, Round
    <2>3. CASE ~WriteThen("Failed", "failed", round)
      <3>1. /\ pc = "createPods" /\ pc' = "createPods" /\ SameSpecs
            /\ round'.adds = round.adds \ {x} /\ round'.updates = round.updates
        BY <1>0, <1>7, <2>1, <2>3 DEF CreatePod, Continue, Round
      <3>2. IsApplied(round.spec, round.spec.pools, x)'
        BY <1>0, <2>1, <2>3, <3>1 DEF IsApplied, Put
      <3>3. ASSUME NEW y, IsApplied(round.spec, round.spec.pools, y)
            PROVE  IsApplied(round.spec, round.spec.pools, y)'
        BY <1>0, <2>1, <2>3, <3>1, <3>3 DEF IsApplied, Put
      <3>4. PlanInv'
        BY <1>0, <3>1, <3>2, <3>3 DEF PlanInv
      <3> QED  BY <3>1, <3>4 DEF RoundApplied
    <2> QED  BY <2>2, <2>3
  <1>8. CASE PodsCreated
    <2>1. pc = "createPods" /\ pc' = "updatePods" /\ round.adds = {} /\ round' = round
          /\ pods' = pods
      BY <1>8 DEF PodsCreated, Continue, server
    <2> QED  BY <1>0, <2>1 DEF PlanInv, RoundApplied, IsApplied
  <1>9. ASSUME NEW o \in Outcome, UpdatePod(o)
        PROVE  Goal
    <2> DEFINE name(x) == NameOf(round.old.pools, x)
               new(x) == PodOf(round.spec, round.old.pools[x[1]])
    <2>1. PICK x \in round.updates :
            \/ /\ name(x) \in DOMAIN pods /\ ValidPodUpdate(pods[name(x)], new(x))
               /\ pods' = Put(pods, name(x), new(x))
               /\ Continue("updatePods", [round EXCEPT !.updates = @ \ {x}])
            \/ WriteThen("Failed", "failed", round)
      BY <1>9 DEF UpdatePod
    <2>2. CASE WriteThen("Failed", "failed", round)
      BY <1>0, <1>a, <2>2 DEF WriteThen, Continue, AtPods, Round
    <2>3. CASE ~WriteThen("Failed", "failed", round)
      <3>1. /\ pc = "updatePods" /\ pc' = "updatePods" /\ SameSpecs
            /\ round'.adds = round.adds /\ round'.updates = round.updates \ {x}
        BY <1>0, <1>9, <2>1, <2>3 DEF UpdatePod, Continue, Round
      <3>2. /\ round.adds = {} /\ x \in U /\ round.updates \subseteq U
            /\ \A y \in A : IsApplied(round.spec, round.spec.pools, y)
            /\ \A y \in U \ round.updates : IsApplied(round.spec, round.old.pools, y)
        BY <1>0, <2>1, <3>1 DEF PlanInv
      <3>3. IsApplied(round.spec, round.old.pools, x)'
        BY <2>1, <2>3, <3>1 DEF IsApplied, Put
      <3>4. ASSUME NEW pools \in Seq(Pool), NEW y \in Servers(pools),
                   IsApplied(round.spec, pools, y)
            PROVE  IsApplied(round.spec, pools, y)'
        <4>1. round.old.pools[x[1]] \in Pool /\ pools[y[1]] \in Pool
          BY <1>0, <3>2, ServersType DEF UpdatedServers
        <4>2. NameOf(pools, y) = name(x) => new(x) = PodOf(round.spec, pools[y[1]])
          BY <1>0, <2>1, <2>3, <3>4, <4>1, UpdateOfApplied DEF IsApplied
        <4> HIDE DEF new, name
        <4> QED  BY <2>1, <2>3, <3>1, <3>4, <4>2 DEF IsApplied, Put
      <3>5. A \subseteq Servers(round.spec.pools) /\ U \subseteq Servers(round.old.pools)
        BY DEF AddedServers, UpdatedServers
      <3>6. PlanInv'
        BY <1>0, <3>1, <3>2, <3>3, <3>4, <3>5 DEF PlanInv
      <3> QED  BY <3>1, <3>6 DEF RoundApplied
    <2> QED  BY <2>2, <2>3
  <1>10. CASE PodsUpdated
    <2>1. /\ pc = "updatePods" /\ round.updates = {} /\ pods' = pods
          /\ pc' = "writeStatus" /\ SameSpecs
      BY <1>0, <1>10 DEF PodsUpdated, WriteThen, Continue, server, Round
    <2>2. /\ \A x \in A : IsApplied(round.spec, round.spec.pools, x)
          /\ \A x \in U : IsApplied(round.spec, round.old.pools, x)
      BY <1>0, <2>1 DEF PlanInv
    <2> QED  BY <2>1, <2>2 DEF PlanInv, RoundApplied, IsApplied
  <1>11. CASE Environment
    <2>1. CASE pc' = "idle"
      BY <1>a, <2>1 DEF AtPods
    <2>2. CASE pc' # "idle"
      <3>1. /\ pods' = pods /\ pc' = pc /\ SameSpecs /\ round'.next = round.next
            /\ round'.adds = round.adds /\ round'.updates = round.updates
        BY <1>0, <1>11, <2>2, EnvironmentStep DEF Round
      <3> QED  BY <1>0, <3>1 DEF PlanInv, RoundApplied, IsApplied
    <2> QED  BY <2>1, <2>2
  <1>12. CASE UNCHANGED vars
    BY <1>0, <1>12 DEF vars, server, PlanInv, RoundApplied, IsApplied
  <1>13. CASE Reconcile
    <2>1. PICK o \in Outcome : ReconcilerStep(o)
      BY <1>13, ReconcileSteps
    <2> QED  BY <1>1, <1>2, <1>3, <1>4, <1>5, <1>6, <1>7, <1>8, <1>9, <1>10, <2>1
             DEF ReconcilerStep
  <1> QED  BY <1>11, <1>12, <1>13 DEF Next

\* A round of a living instance reports Running only when every pod it planned to add or to
\* update is what it planned.  Pools may share their name, and so their pods: the second
\* creation of a pod, and an update that would make of it anything but the first one's pod,
\* are refused and end the round (minio_controller.go:147-213).
THEOREM RoundsApplied == Spec => []RoundApplied
  <1>1. Init => PlanInv /\ RoundApplied
    BY DEF Init, PlanInv, RoundApplied
  <1> QED  BY <1>1, PlanStep, TypeCorrect, PTL DEF Spec

\* Between two specifications with the same pools every server needs an update: its pool's node
\* selector is equal to itself (MinioServerNeedToUpdate, pod.go:31-33).
LEMMA SamePoolsUpdated ==
    ASSUME NEW old \in MinIOSpec, NEW new \in MinIOSpec, old.pools = new.pools
    PROVE  UpdatedServers(old, new) = Servers(new.pools)
  <1> SUFFICES ASSUME NEW x \in Servers(new.pools)
               PROVE  x \in UpdatedServers(old, new)
    BY DEF UpdatedServers
  <1>1. x[1] \in DOMAIN new.pools
    BY ServersType DEF MinIOSpec
  <1>2. NeedToUpdate(old, new, old.pools[x[1]], new.pools[x[1]])
    BY DEF NeedToUpdate
  <1> QED  BY <1>1, <1>2 DEF UpdatedServers

\* A round that read its pools as it has them and reports Running leaves every pod that is
\* asked for as it is asked for: success without a change of the pools means a complete
\* deployment (minio_controller.go:147-213).
THEOREM UnchangedPoolsAreApplied == Spec => []UnchangedPoolsApplied
  <1>1. TypeOK /\ RoundApplied => UnchangedPoolsApplied
    <2> SUFFICES ASSUME TypeOK, RoundApplied, pc = "writeStatus", round.next = "done", Live,
                        round.old.pools = round.spec.pools,
                        NEW x \in Servers(round.spec.pools)
                 PROVE  IsApplied(round.spec, round.spec.pools, x)
      BY DEF UnchangedPoolsApplied
    <2>1. x \in UpdatedServers(round.old, round.spec)
      BY RoundSpecs, SamePoolsUpdated DEF TypeOK, ControlType
    <2> QED  BY <2>1 DEF RoundApplied
  <1> QED  BY <1>1, TypeCorrect, RoundsApplied, PTL
=============================================================================
