--------------------------- MODULE MinIOProperties ---------------------------
(***************************************************************************)
(* What MinIOReconciler promises, and what the repository says it promises *)
(* and the code does not keep.                                             *)
(***************************************************************************)
EXTENDS MinIOReconciler

Live == minio.phase = "live"

\* The round has gone past the ControllerRevision.
AfterRevision ==
    \/ pc \in ServiceStage \cup ClaimStage \cup PodStage
    \/ pc = "writeStatus" /\ round.next # "getRevision"

\* The names of the pods the specification asks for.
Wanted == {NameOf(minio.spec.pools, x) : x \in Servers(minio.spec.pools)}
Deployed == Wanted \subseteq DOMAIN pods
ImageDeployed == \A n \in Wanted : pods[n].image = minio.spec.image

-----------------------------------------------------------------------------
(***************************************************************************)
(* Safety.                                                                 *)
(***************************************************************************)
ServerType ==
    /\ minio \in MinIOObject
    /\ cr \in Revision
    /\ DOMAIN svcs \subseteq ServiceKind /\ \A k \in DOMAIN svcs : svcs[k] \in ServiceContent
    /\ claims \subseteq ClaimName
    /\ DOMAIN pods \subseteq PodName /\ \A n \in DOMAIN pods : pods[n] \in PodContent
    /\ sealed \subseteq DOMAIN pods

CacheType ==
    /\ seen \in MinIOObject /\ seenCurrent \in BOOLEAN
    /\ crSeen \in Revision
    /\ claimsSeen \in BOOLEAN

\* The servers of a plan are servers of the specification they are taken from.
RoundOK(r) ==
    /\ r \in Round
    /\ r.adds \subseteq Servers(r.spec.pools)
    /\ r.updates \subseteq Servers(r.old.pools)

\* A round that has yet to read the ControllerRevision has planned nothing.
Unplanned ==
    pc = "getRevision" \/ (pc = "writeStatus" /\ round.next = "getRevision") =>
        round.updates = {}

ControlType == pc \in Stage /\ RoundOK(round) /\ Unplanned /\ queued \in BOOLEAN

\* The types of the state.  Not by construction is RoundOK: the positions a plan refers
\* to exist in the pools it indexes them with (AddedServers in the new specification,
\* UpdatedServers in the recorded one; minio_controller.go:147-199).
TypeOK == ServerType /\ CacheType /\ ControlType /\ budget \in [Disturbance -> Nat]

\* While the instance lives, a round that is past the ControllerRevision and has found a
\* difference has recorded the specification it works on, whatever the caches showed
\* and whatever was edited since: the next round's difference starts from there
\* (Reconcile, minio_controller.go:101-125).
RevisionRecordsRound ==
    AfterRevision /\ Live =>
        \/ cr = [exists |-> TRUE, spec |-> RoundTrip(round.spec)]
        \/ round.old = round.spec

\* The pod of a server is there as spec and pools have it.
IsApplied(spec, pools, x) ==
    /\ NameOf(pools, x) \in DOMAIN pods
    /\ pods[NameOf(pools, x)] = PodOf(spec, pools[x[1]])

\* When a round is about to report Running, every pod it planned to add or to update
\* exists and is what it planned, even if the object was edited meanwhile and if pools share
\* their name, and so their pods (Reconcile, minio_controller.go:176-213).
RoundApplied ==
    pc = "writeStatus" /\ round.next = "done" /\ Live =>
        /\ \A x \in AddedServers(round.old, round.spec) :
              IsApplied(round.spec, round.spec.pools, x)
        /\ \A x \in UpdatedServers(round.old, round.spec) :
              IsApplied(round.spec, round.old.pools, x)

\* A round that read its pools in the ControllerRevision as it has them, which an empty node
\* selector prevents, and is about to report Running leaves every pod that its specification
\* asks for, as the specification has it: a pod that is missing, or of an older image, makes
\* such a round repair it or fail.  The reason is that equal node selectors count as a
\* difference (pod.go:31-33; minio_controller.go:147-213).
UnchangedPoolsApplied ==
    pc = "writeStatus" /\ round.next = "done" /\ Live
        /\ round.old.pools = round.spec.pools =>
            \A x \in Servers(round.spec.pools) :
                IsApplied(round.spec, round.spec.pools, x)

-----------------------------------------------------------------------------
(***************************************************************************)
(* Their inductive strengthenings.                                         *)
(***************************************************************************)
\* The services a round has dealt with when it comes to the one of this kind.
CheckedBefore(kind) ==
    CASE kind = "ci" -> {} [] kind = "console" -> {"ci"} [] kind = "hl" -> {"ci", "console"}

\* The round is at the services or before them; beyond them.
BeforeServices ==
    \/ pc \in RevisionStage \cup ServiceStage
    \/ pc = "writeStatus" /\ round.next \in {"getRevision", "createService"}
BeyondServices ==
    \/ pc \in ClaimStage \cup PodStage
    \/ pc = "writeStatus" /\ round.next = "createClaims"

ServicesInv ==
    Live => /\ BeforeServices => CheckedBefore(round.kind) \subseteq DOMAIN svcs
            /\ BeyondServices \/ DOMAIN pods # {} => DOMAIN svcs = ServiceKind

\* At the pods: what has left the plan has been applied.
PlanInv ==
    Live /\ pc \in {"createPods", "updatePods"} =>
        /\ pc = "createPods" => round.updates = UpdatedServers(round.old, round.spec)
        /\ round.adds \subseteq AddedServers(round.old, round.spec)
        /\ round.updates \subseteq UpdatedServers(round.old, round.spec)
        /\ \A x \in AddedServers(round.old, round.spec) \ round.adds :
              IsApplied(round.spec, round.spec.pools, x)
        /\ \A x \in UpdatedServers(round.old, round.spec) \ round.updates :
              IsApplied(round.spec, round.old.pools, x)
        /\ pc = "updatePods" => round.adds = {}

\* Every copy of a specification is one the instance has taken, and the claims a round has
\* yet to create are of its own.
OriginInv ==
    /\ minio.phase # "gone" => minio.spec \in Specs
    /\ seen.phase # "gone" => seen.spec \in Specs
    /\ pc # "idle" => round.spec \in Specs /\ round.claims \subseteq NewClaims(round.spec.pools)

\* A copy that is of the latest version agrees with the object, and None is to be written
\* with such a copy only if the object has no status.
FirstStatusInv ==
    /\ seenCurrent => seen = minio
    /\ pc = "writeStatus" =>
          /\ round.status \in {"None", "Running", "Failed"}
          /\ round.status = "None" /\ round.current => minio.status = ""

-----------------------------------------------------------------------------
(***************************************************************************)
(* What it implements.                                                     *)
(***************************************************************************)
\* For its readers, the status is a register that the reconciler writes as one of three,
\* None over no status only, although the write is made from a copy of any age and
\* retried; the deletion replaces the instance (minio_controller.go:92-99, 220-242).
StatusNow == [status |-> minio.status, pools |-> "", health |-> ""]
Register == INSTANCE StatusRegister
    WITH object <- StatusNow, PoolsStatus <- {""}, Unreported <- ""
ImplementsRegister == Register!Spec

\* The pods of s.
PodsOf(s) ==
    {<<RoundTrip(s), NameOf(s.pools, x), PodOf(s, s.pools[x[1]])>> : x \in Servers(s.pools)}

RecordableSpecs == {RoundTrip(s) : s \in Specs}
RecordNow == IF cr.exists THEN {cr.spec} ELSE {}
ClaimableVolumes == UNION {NewClaims(s.pools) : s \in Specs}
CalledPods == UNION {PodsOf(s) : s \in Specs}
EarlierServices == [k \in ServiceKind |-> CheckedBefore(k)]

\* Rounds of many calls on stale caches, cut short by failures and crashes, amount to a
\* deployment in which each step that changes an object of the instance comes after those
\* it relies on: services one after the other, a pod only after all of them, after its
\* predecessors and from the specification that is recorded at that moment; pods are never
\* taken away from a living instance, claims never (Reconcile, minio_controller.go:78-218).
Promise == INSTANCE Deployment
    WITH live <- Live, recorded <- RecordNow, services <- DOMAIN svcs,
         Recordable <- RecordableSpecs, Service <- ServiceKind, Earlier <- EarlierServices,
         Volume <- ClaimableVolumes, Called <- CalledPods
ImplementsDeployment == Promise!Spec

\* At any moment what a living instance has is closed under what comes before it: no service
\* without the earlier ones, no claim or pod without all services, no pod of a pool
\* without those of lower numbers, over any number of rounds that stopped in the middle
\* (minio_controller.go:127-192).
ObjectsInOrder == Promise!InOrder

-----------------------------------------------------------------------------
(***************************************************************************)
(* Liveness.                                                               *)
(***************************************************************************)
\* If no call fails, the process lives and nobody edits a service, a living instance whose
\* status can be stored ends up with the pods it asks for and, unless it exposes the
\* console, with its own and the console's service as they should be: with caches as stale
\* as they like, edits and other controllers' writes at any moment and pods that refuse
\* every update (Reconcile as a whole).
Calm == \A d \in {"faults", "restarts", "drifts"} : budget[d] = Budget[d]

Converges ==
    []Calm =>
        <>[](Live /\ minio.lists /\ "console" \notin minio.spec.expose =>
                /\ Deployed
                /\ \A k \in {"ci", "console"} :
                      /\ k \in DOMAIN svcs
                      /\ MatchesSpecification(svcs[k], ExpectedService(k, minio.spec)))

\* An instance that was deleted leaves nothing behind that has an owner, although a
\* round that was under way goes on creating objects for it (Reconcile,
\* minio_controller.go:79-90; OwnerRef, helper.go:179-187).
CleanedUp == <>[](~Live => minio.phase = "gone" /\ NothingOwned)

\* A living instance whose status has the arrays the CRD requires does not stay without a
\* status, although writes that meet a conflict, as with a write of the health checker, are
\* dropped (minio_controller.go:92-99, 221-242).
StatusInitialised == Live /\ minio.lists ~> (Live => minio.status # "")

-----------------------------------------------------------------------------
(***************************************************************************)
(* What the repository says and the code does not do.                      *)
(***************************************************************************)
\* "move the current state of the cluster closer to the desired state"
\* (minio_controller.go:69-70): a pod that is asked for comes into being, sooner or later.
PodsEventuallyExist == Live /\ minio.lists ~> (Live => Deployed)

\* "check whether the MinIO servers need an update" (pod.go:14): once the pods of an
\* instance that is no longer edited exist, they get the image it asks for.
ImageRollout ==
    <>[](Live /\ Deployed /\ minio.lists => ImageDeployed)

\* The headless service is the one for communication between the servers
\* (service.go:99): when pods are created it offers the servers' port.
HeadlessServesMinIO ==
    pc = "planPods" /\ Live =>
        svcs["hl"].port = NewHeadlessServiceForMinIO(round.spec).port

\* MinIOServerHostAddress "returns host with port" of the service (helper.go:102), 80 being
\* the service's default port and 443 its port with TLS (constants.go:64-68): when a round
\* has dealt with the services, the one at this address listens on this port.
HostAddressServed ==
    pc = "planPods" /\ Live =>
        LET address == MinIOServerHostAddress(round.spec)
        IN  PortOf(svcs[address.kind]) = address.port

\* checkPVC finds out whether claims have to be generated (minio_controller.go:142): when a
\* round succeeds without an error, the claims of the pods it added exist.
ClaimsForPods ==
    pc = "writeStatus" /\ round.next = "done" /\ Live =>
        \A n \in DOMAIN pods : ClaimsOf(n, pods[n]) \subseteq claims

\* updateMinIOStatusWithRetry updates the status of the instance
\* (minio_controller.go:220): when it returns without an error for Failed, the instance
\* has been seen as Failed.
FailureReported ==
    [][pc = "writeStatus" /\ round.next = "failed" /\ pc' = "idle" /\ budget' = budget /\ Live
          => minio'.status = "Failed"]_vars
=============================================================================
