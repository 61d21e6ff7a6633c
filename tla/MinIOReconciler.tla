--------------------------- MODULE MinIOReconciler ---------------------------
(***************************************************************************)
(* MinIOReconciler.Reconcile of src/controllers/minio_controller.go for    *)
(* one MinIO instance, together with what it runs against: the API server, *)
(* the informer caches the manager's client reads from, the work queue,    *)
(* the user who edits and deletes the instance, the garbage collector, and *)
(* the process itself, which can die between any two calls.                *)
(*                                                                         *)
(* One step of the reconciler is one call to the API server (or one read   *)
(* of a cache) with the control flow up to the next call.                  *)
(***************************************************************************)
EXTENDS MinIOResources, Functions

CONSTANTS
    Specs,          \* the specifications the instance takes in the model
    InitialSpecs,   \* those it may be created with
    Edits,          \* the edits a user may make, as pairs <<from, to>>
    Budget          \* how often each kind of disturbance may happen, and all together

Disturbance == {"faults", "restarts", "edits", "deletions", "drifts", "foreign", "all"}

ASSUME SpecsAssumption ==
    /\ Specs \subseteq MinIOSpec
    /\ InitialSpecs \subseteq Specs
    /\ Edits \subseteq Specs \X Specs

ASSUME BudgetAssumption == Budget \in [Disturbance -> Nat]

VARIABLES
    minio,          \* API server: the MinIO object
    cr,             \* API server: its ControllerRevision
    svcs,           \* API server: its services that exist, by kind
    claims,         \* API server: the names of its PersistentVolumeClaims
    pods,           \* API server: its pods that exist, by name
    sealed,         \* API server: the pods to whose specification the cluster has added
    seen,           \* cache: the MinIO object
    seenCurrent,    \* cache: seen has the object's resourceVersion
    crSeen,         \* cache: the ControllerRevision
    claimsSeen,     \* cache: a claim with the instance's label is listed
    queued,         \* work queue: a request for the instance waits
    pc,             \* the reconciler: its next call
    round,          \* the reconciler: the local variables of Reconcile
    budget          \* the disturbances that are left

server == <<minio, cr, svcs, claims, pods, sealed>>
caches == <<seen, seenCurrent, crSeen, claimsSeen>>
vars == <<server, caches, queued, pc, round, budget>>

-----------------------------------------------------------------------------
(***************************************************************************)
(* Values.                                                                 *)
(***************************************************************************)
DeployStatus == {"", "None", "Completed", "Running", "Failed"}

MinIOObject == [phase  : {"live", "deleting", "gone"},
                spec   : Specs \cup {EmptySpec},
                status : DeployStatus,
                lists  : BOOLEAN]       \* the status has the arrays the CRD requires

GoneMinIO == [phase |-> "gone", spec |-> EmptySpec, status |-> "", lists |-> FALSE]

RecordedSpec == {EmptySpec} \cup {RoundTrip(s) : s \in Specs \cup {EmptySpec}}
Revision == [exists : BOOLEAN, spec : RecordedSpec]
NoRevision == [exists |-> FALSE, spec |-> EmptySpec]

\* The stages of a round, in the order of the code.
RevisionStage == {"getRevision", "deleteRevision", "createRevision"}
ServiceStage == {"getService", "createService", "updateService"}
ClaimStage == {"listClaims", "createClaims"}
PodStage == {"planPods", "createPods", "updatePods"}
Stage == {"idle", "writeStatus"} \cup RevisionStage \cup ServiceStage
             \cup ClaimStage \cup PodStage

\* What follows a status write: a call, or the end of the round.
Continuation == {"getRevision", "createService", "createClaims", "failed", "done"}

Round == [spec    : Specs \cup {EmptySpec},   \* minio.Spec
          status  : DeployStatus,             \* minio.Status.Status to be written
          current : BOOLEAN,                  \* minio has the object's resourceVersion
          next    : Continuation,             \* what follows that write
          old     : RecordedSpec,             \* oldMinio.Spec
          kind    : ServiceKind,              \* which service is checked
          read    : ServiceContent,           \* svc
          claims  : SUBSET ClaimName,         \* the claims still to create
          adds    : SUBSET (Nat \X Nat),      \* the servers of spec still to create
          updates : SUBSET (Nat \X Nat)]      \* the servers of old still to update

NoRound == [spec |-> EmptySpec, status |-> "", current |-> FALSE, next |-> "done",
            old |-> EmptySpec, kind |-> "ci", read |-> NoService,
            claims |-> {}, adds |-> {}, updates |-> {}]

Put(f, x, v) == [y \in DOMAIN f \cup {x} |-> IF y = x THEN v ELSE f[y]]

Init ==
    /\ minio \in [phase : {"live"}, spec : InitialSpecs, status : {""}, lists : {FALSE}]
    /\ cr = NoRevision
    /\ svcs = << >>
    /\ claims = {}
    /\ pods = << >>
    /\ sealed = {}
    /\ seen = GoneMinIO
    /\ seenCurrent = FALSE
    /\ crSeen = NoRevision
    /\ claimsSeen = FALSE
    /\ queued = FALSE
    /\ pc = "idle"
    /\ round = NoRound
    /\ budget = Budget

-----------------------------------------------------------------------------
(***************************************************************************)
(* Control flow.                                                           *)
(***************************************************************************)
Spend(kind) == /\ budget[kind] > 0 /\ budget["all"] > 0
               /\ budget' = [budget EXCEPT ![kind] = @ - 1, !["all"] = @ - 1]

\* A call is answered, refused without effect, or takes effect while the caller
\* sees an error.
Outcome == {"ok", "refused", "lost"}
Charge(outcome) == IF outcome = "ok" THEN UNCHANGED budget ELSE Spend("faults")

Continue(stage, r) == pc' = stage /\ round' = r /\ UNCHANGED queued

\* Reconcile returns; with an error the request is queued again.
Return(error) == pc' = "idle" /\ round' = NoRound /\ queued' = (queued \/ error)

\* minio.Status.Status = status; updateMinIOStatusWithRetry; then next.
WriteThen(status, next, r) ==
    Continue("writeStatus", [r EXCEPT !.status = status, !.next = next])

\* Mutant: the headless service is forgotten.
NextCheckButHeadless(r) ==
    IF r.kind = "ci"
    THEN Continue("getService", [r EXCEPT !.kind = "console", !.read = NoService])
    ELSE Continue("listClaims", [r EXCEPT !.read = NoService])

NextCheck(r) ==
    CASE r.kind = "ci"      -> Continue("getService", [r EXCEPT !.kind = "console", !.read = NoService])
      [] r.kind = "console" -> Continue("getService", [r EXCEPT !.kind = "hl", !.read = NoService])
      [] r.kind = "hl"      -> Continue("listClaims", [r EXCEPT !.read = NoService])

\* Compare a service with the expected one: go on, or update it.
CheckService(svc) ==
    IF MatchesSpecification(svc, ExpectedService(round.kind, round.spec))
    THEN NextCheck(round)
    ELSE Continue("updateService", [round EXCEPT !.read = svc])

\* The MinIO object changes: every copy taken before is stale.
ChangeMinIO(new, r) ==
    /\ minio' = new
    /\ seenCurrent' = FALSE
    /\ round' = [r EXCEPT !.current = FALSE]

-----------------------------------------------------------------------------
(***************************************************************************)
(* The reconciler.                                                         *)
(***************************************************************************)
\* The request is for an object the cache does not have, or that is being deleted.
SkipRound ==
    /\ pc = "idle" /\ queued
    /\ seen.phase # "live"
    /\ queued' = FALSE
    /\ UNCHANGED <<server, caches, pc, round, budget>>

\* Mutant: an object that is being deleted is reconciled.
StartRoundOnDeleting ==
    /\ pc = "idle" /\ queued
    /\ seen.phase # "gone"
    /\ queued' = FALSE
    /\ round' = [NoRound EXCEPT !.spec = seen.spec, !.current = seenCurrent,
                                !.status = "None", !.next = "getRevision"]
    /\ pc' = IF seen.status = "" THEN "writeStatus" ELSE "getRevision"
    /\ UNCHANGED <<server, caches, budget>>

StartRound ==
    /\ pc = "idle" /\ queued
    /\ seen.phase = "live"
    /\ queued' = FALSE
    /\ round' = [NoRound EXCEPT !.spec = seen.spec, !.current = seenCurrent,
                                !.status = "None", !.next = "getRevision"]
    /\ pc' = IF seen.status = "" THEN "writeStatus" ELSE "getRevision"
    /\ UNCHANGED <<server, caches, budget>>

AfterWrite(r) ==
    CASE r.next = "failed" -> Return(TRUE)
      [] r.next = "done"   -> Return(FALSE)
      [] OTHER             -> Continue(r.next, r)

\* Whether the write of status new over old changes the object: the message of a failure
\* says what failed, and may differ from the one before.
Changes(old, new) == IF new = "Failed" THEN {TRUE, old # new} ELSE {old # new}

\* The write is made with the resourceVersion of the local copy, and carries its arrays.
\* Only the deep copy that is sent learns the new version: the round's own copy is stale.
WriteAccepted(outcome) ==
    /\ pc = "writeStatus"
    /\ minio.phase # "gone" /\ round.current /\ minio.lists
    /\ outcome # "refused"
    /\ Charge(outcome)
    /\ \E change \in Changes(minio.status, round.status) :
          /\ minio' = [minio EXCEPT !.status = round.status]
          /\ seenCurrent' = (seenCurrent /\ ~change)
          /\ IF outcome = "lost"
             THEN Return(TRUE)
             ELSE AfterWrite([round EXCEPT !.current = ~change])
    /\ UNCHANGED <<cr, svcs, claims, pods, sealed, seen, crSeen, claimsSeen>>

\* Mutant: the retry writes the status the round had in mind.
WriteConflictOver ==
    /\ pc = "writeStatus"
    /\ minio.phase # "gone" /\ ~round.current /\ minio.lists
    /\ seenCurrent
    /\ minio' = [minio EXCEPT !.status = round.status]
    /\ seenCurrent' = (minio.status = round.status)
    /\ AfterWrite(round)
    /\ UNCHANGED <<cr, svcs, claims, pods, sealed, seen, crSeen, claimsSeen, budget>>

\* A conflict: the object is read again from the cache, and what was read is
\* written back, again and again until the cache has caught up.  The write that
\* is accepted in the end changes nothing.
WriteConflict ==
    /\ pc = "writeStatus"
    /\ minio.phase # "gone" /\ ~round.current /\ minio.lists
    /\ seenCurrent
    /\ AfterWrite(round)
    /\ UNCHANGED <<server, caches, budget>>

\* Nil slices go out as null, where the CRD requires arrays: with a copy of the latest
\* version, the round's or after a conflict the cache's, the write is refused every time.
WriteInvalid ==
    /\ pc = "writeStatus"
    /\ minio.phase # "gone" /\ ~minio.lists
    /\ round.current \/ seenCurrent
    /\ Return(TRUE)
    /\ UNCHANGED <<server, caches, budget>>

\* The object is gone from the server or, after a conflict, from the cache; or
\* the call fails.
WriteFailed ==
    /\ pc = "writeStatus"
    /\ \/ (minio.phase = "gone" \/ (~round.current /\ seen.phase = "gone")) /\ UNCHANGED budget
       \/ Spend("faults")
    /\ Return(TRUE)
    /\ UNCHANGED <<server, caches>>

WriteStatus ==
    (\E o \in Outcome : WriteAccepted(o)) \/ WriteConflict \/ WriteInvalid \/ WriteFailed

\* Mutant: the specification is recorded with the first deployment only.
GetRevisionOnce(outcome) ==
    /\ pc = "getRevision"
    /\ outcome # "lost"
    /\ Charge(outcome)
    /\ IF outcome = "refused"
       THEN Return(TRUE)
       ELSE Continue(IF crSeen.exists THEN "getService" ELSE "createRevision",
                     [round EXCEPT !.old = crSeen.spec])
    /\ UNCHANGED <<server, caches>>

\* ExistControllerRevision, through the cache, and the comparison with minio.Spec; the
\* read fails, or what was read cannot be unmarshalled.
GetRevision(outcome) ==
    /\ pc = "getRevision"
    /\ outcome # "lost"
    /\ Charge(outcome)
    /\ LET r == [round EXCEPT !.old = crSeen.spec]
       IN  CASE outcome = "refused" -> Return(TRUE)
             [] outcome = "ok" /\ ~crSeen.exists -> Continue("createRevision", r)
             [] outcome = "ok" /\ crSeen.exists /\ crSeen.spec # round.spec ->
                    Continue("deleteRevision", r)
             [] OTHER -> Continue("getService", r)
    /\ UNCHANGED <<server, caches>>

\* Mutant: after the deletion no new ControllerRevision is created.
DeleteRevisionOnly(outcome) ==
    /\ pc = "deleteRevision"
    /\ Charge(outcome)
    /\ cr' = IF outcome = "refused" THEN cr ELSE NoRevision
    /\ IF outcome = "ok" /\ cr.exists THEN Continue("getService", round) ELSE Return(TRUE)
    /\ UNCHANGED <<minio, svcs, claims, pods, sealed, caches>>

DeleteRevision(outcome) ==
    /\ pc = "deleteRevision"
    /\ Charge(outcome)
    /\ cr' = IF outcome = "refused" THEN cr ELSE NoRevision
    /\ IF outcome = "ok" /\ cr.exists THEN Continue("createRevision", round) ELSE Return(TRUE)
    /\ UNCHANGED <<minio, svcs, claims, pods, sealed, caches>>

CreateRevision(outcome) ==
    /\ pc = "createRevision"
    /\ Charge(outcome)
    /\ cr' = IF outcome = "refused" \/ cr.exists
             THEN cr ELSE [exists |-> TRUE, spec |-> RoundTrip(round.spec)]
    /\ IF outcome = "ok" /\ ~cr.exists THEN Continue("getService", round) ELSE Return(TRUE)
    /\ UNCHANGED <<minio, svcs, claims, pods, sealed, caches>>

\* The services are read from the server, not from a cache.
GetService(outcome) ==
    /\ pc = "getService"
    /\ outcome # "lost"
    /\ Charge(outcome)
    /\ CASE outcome = "refused" -> Return(TRUE)
         [] outcome = "ok" /\ round.kind \notin DOMAIN svcs ->
                WriteThen("Running", "createService", round)
         [] OTHER -> CheckService(svcs[round.kind])
    /\ UNCHANGED <<server, caches>>

CreateService(outcome) ==
    /\ pc = "createService"
    /\ Charge(outcome)
    /\ LET new == CreatedService(round.kind, round.spec)
           free == round.kind \notin DOMAIN svcs
       IN  /\ svcs' = IF free /\ outcome # "refused" THEN Put(svcs, round.kind, new) ELSE svcs
           /\ IF free /\ outcome = "ok"
              THEN CheckService(new)
              ELSE WriteThen("Failed", "failed", round)
    /\ UNCHANGED <<minio, cr, claims, pods, sealed, caches>>

\* The update carries the resourceVersion of the service that was read.
UpdateService(outcome) ==
    /\ pc = "updateService"
    /\ Charge(outcome)
    /\ LET new == StoredService(round.read, ExpectedService(round.kind, round.spec))
           valid == /\ round.kind \in DOMAIN svcs
                    /\ svcs[round.kind] = round.read
                    /\ ValidService(new)
       IN  /\ svcs' = IF valid /\ outcome # "refused" THEN Put(svcs, round.kind, new) ELSE svcs
           /\ IF valid /\ outcome = "ok"
              THEN NextCheck(round)
              ELSE WriteThen("Failed", "failed", round)
    /\ UNCHANGED <<minio, cr, claims, pods, sealed, caches>>

\* Claims are created only when the cache lists none at all.
ListClaims(outcome) ==
    /\ pc = "listClaims"
    /\ outcome # "lost"
    /\ Charge(outcome)
    /\ CASE outcome = "refused" -> Return(TRUE)
         [] outcome = "ok" /\ claimsSeen -> Continue("planPods", round)
         [] OTHER -> WriteThen("Running", "createClaims",
                               [round EXCEPT !.claims = NewClaims(round.spec.pools)])
    /\ UNCHANGED <<server, caches>>

\* An error is logged and the next claim is tried, so that their order is of no
\* consequence.
CreateClaim(outcome) ==
    /\ pc = "createClaims"
    /\ Charge(outcome)
    /\ \E c \in round.claims :
          /\ claims' = IF outcome = "refused" THEN claims ELSE claims \cup {c}
          /\ Continue("createClaims", [round EXCEPT !.claims = @ \ {c}])
    /\ UNCHANGED <<minio, cr, svcs, pods, sealed, caches>>

ClaimsCreated ==
    /\ pc = "createClaims"
    /\ round.claims = {}
    /\ Continue("planPods", round)
    /\ UNCHANGED <<server, caches, budget>>

PlanPods ==
    /\ pc = "planPods"
    /\ Continue("createPods", [round EXCEPT !.adds = AddedServers(round.old, round.spec),
                                            !.updates = UpdatedServers(round.old, round.spec)])
    /\ UNCHANGED <<server, caches, budget>>

\* The first of the servers in S.
IsNext(x, S) == x \in S /\ \A y \in S : Precedes(x, y)

\* Mutant: a pod that cannot be created is skipped, as a claim is.
CreatePodOrSkip(outcome) ==
    /\ pc = "createPods"
    /\ Charge(outcome)
    /\ \E x \in round.adds :
          LET name == NameOf(round.spec.pools, x)
          IN  /\ IsNext(x, round.adds)
              /\ pods' = IF name \notin DOMAIN pods /\ outcome # "refused"
                         THEN Put(pods, name, PodOf(round.spec, round.spec.pools[x[1]]))
                         ELSE pods
              /\ Continue("createPods", [round EXCEPT !.adds = @ \ {x}])
    /\ UNCHANGED <<minio, cr, svcs, claims, sealed, caches>>

CreatePod(outcome) ==
    /\ pc = "createPods"
    /\ Charge(outcome)
    /\ \E x \in round.adds :
          LET name == NameOf(round.spec.pools, x)
              free == name \notin DOMAIN pods
          IN  /\ IsNext(x, round.adds)
              /\ pods' = IF free /\ outcome # "refused"
                         THEN Put(pods, name, PodOf(round.spec, round.spec.pools[x[1]]))
                         ELSE pods
              /\ IF free /\ outcome = "ok"
                 THEN Continue("createPods", [round EXCEPT !.adds = @ \ {x}])
                 ELSE WriteThen("Failed", "failed", round)
    /\ UNCHANGED <<minio, cr, svcs, claims, sealed, caches>>

PodsCreated ==
    /\ pc = "createPods"
    /\ round.adds = {}
    /\ Continue("updatePods", round)
    /\ UNCHANGED <<server, caches, budget>>

\* The update carries no resourceVersion: it would replace whatever pod has the name.  It
\* is computed from the specification alone: of a pod to which the cluster has added, it
\* takes away what was added, and is refused.
UpdatePod(outcome) ==
    /\ pc = "updatePods"
    /\ Charge(outcome)
    /\ \E x \in round.updates :
          LET name == NameOf(round.old.pools, x)
              new == PodOf(round.spec, round.old.pools[x[1]])
              valid == /\ name \in DOMAIN pods \ sealed
                       /\ ValidPodUpdate(pods[name], new)
          IN  /\ IsNext(x, round.updates)
              /\ pods' = IF valid /\ outcome # "refused" THEN Put(pods, name, new) ELSE pods
              /\ IF valid /\ outcome = "ok"
                 THEN Continue("updatePods", [round EXCEPT !.updates = @ \ {x}])
                 ELSE WriteThen("Failed", "failed", round)
    /\ UNCHANGED <<minio, cr, svcs, claims, sealed, caches>>

PodsUpdated ==
    /\ pc = "updatePods"
    /\ round.updates = {}
    /\ WriteThen("Running", "done", round)
    /\ UNCHANGED <<server, caches, budget>>

Reconcile ==
    \/ SkipRound \/ StartRound \/ WriteStatus
    \/ ClaimsCreated \/ PlanPods \/ PodsCreated \/ PodsUpdated
    \/ \E o \in Outcome :
          \/ GetRevision(o) \/ DeleteRevision(o) \/ CreateRevision(o)
          \/ GetService(o) \/ CreateService(o) \/ UpdateService(o)
          \/ ListClaims(o) \/ CreateClaim(o) \/ CreatePod(o) \/ UpdatePod(o)

-----------------------------------------------------------------------------
(***************************************************************************)
(* What it runs against.                                                   *)
(***************************************************************************)
\* Mutant: the builder filters events by the object's generation, which only a change of
\* the specification increases.
SyncMinIOByGeneration ==
    /\ ~seenCurrent
    /\ seen' = minio /\ seenCurrent' = TRUE
    /\ queued' = (queued \/ seen.spec # minio.spec \/ seen.phase # minio.phase)
    /\ UNCHANGED <<server, crSeen, claimsSeen, pc, round, budget>>

\* The watch delivers the object's latest state, and its handler queues a request.
SyncMinIO ==
    /\ ~seenCurrent
    /\ seen' = minio /\ seenCurrent' = TRUE
    /\ queued' = TRUE
    /\ UNCHANGED <<server, crSeen, claimsSeen, pc, round, budget>>

SyncRevision ==
    /\ crSeen # cr
    /\ crSeen' = cr
    /\ UNCHANGED <<server, seen, seenCurrent, claimsSeen, queued, pc, round, budget>>

SyncClaims ==
    /\ claimsSeen # (claims # {})
    /\ claimsSeen' = (claims # {})
    /\ UNCHANGED <<server, seen, seenCurrent, crSeen, queued, pc, round, budget>>

\* A request without a change of the object: a periodic resync, or an event of the
\* service that has the instance's name.
Resync ==
    /\ ~queued
    /\ queued' = TRUE
    /\ UNCHANGED <<server, caches, pc, round, budget>>

EditSpec ==
    /\ minio.phase = "live"
    /\ Spend("edits")
    /\ \E e \in Edits : /\ e[1] = minio.spec /\ e[1] # e[2]
                        /\ ChangeMinIO([minio EXCEPT !.spec = e[2]], round)
    /\ UNCHANGED <<cr, svcs, claims, pods, sealed, seen, crSeen, claimsSeen, queued, pc>>

\* In the background the object goes at once; in the foreground it stays, with a
\* deletionTimestamp, until what it owns is gone.
DeleteMinIO ==
    /\ minio.phase = "live"
    /\ Spend("deletions")
    /\ \E new \in {GoneMinIO, [minio EXCEPT !.phase = "deleting"]} : ChangeMinIO(new, round)
    /\ UNCHANGED <<cr, svcs, claims, pods, sealed, seen, crSeen, claimsSeen, queued, pc>>

\* The objects with an owner reference; the claims have none.
CollectRevision == cr.exists /\ cr' = NoRevision /\ UNCHANGED <<svcs, pods, sealed>>
CollectService == /\ \E k \in DOMAIN svcs : svcs' = Restrict(svcs, DOMAIN svcs \ {k})
                  /\ UNCHANGED <<cr, pods, sealed>>
CollectPod == /\ \E n \in DOMAIN pods : /\ pods' = Restrict(pods, DOMAIN pods \ {n})
                                        /\ sealed' = sealed \ {n}
              /\ UNCHANGED <<cr, svcs>>

NothingOwned == ~cr.exists /\ DOMAIN svcs = {} /\ DOMAIN pods = {}

GarbageCollect ==
    /\ minio.phase # "live"
    /\ CollectRevision \/ CollectService \/ CollectPod
    /\ UNCHANGED <<minio, claims, caches, queued, pc, round, budget>>

FinishDeletion ==
    /\ minio.phase = "deleting"
    /\ NothingOwned
    /\ ChangeMinIO(GoneMinIO, round)
    /\ UNCHANGED <<cr, svcs, claims, pods, sealed, seen, crSeen, claimsSeen, queued, pc, budget>>

\* Somebody edits a field of a service the operator set.
DriftService ==
    /\ minio.phase = "live"
    /\ Spend("drifts")
    /\ \E k \in DOMAIN svcs : svcs[k].port # "other" /\ svcs' = [svcs EXCEPT ![k].port = "other"]
    /\ UNCHANGED <<minio, cr, claims, pods, sealed, caches, queued, pc, round>>

\* The cluster adds to the specification of a pod: a token volume and a service account
\* when it is created, a node name when it is scheduled.  Only an update looks at that, so
\* it is enough that it happens before the next one, to the pod which that is for.
SealPod ==
    /\ pc = "updatePods"
    /\ \E x \in round.updates :
          LET name == NameOf(round.old.pools, x)
          IN  /\ IsNext(x, round.updates)
              /\ name \in DOMAIN pods \ sealed
              /\ sealed' = sealed \cup {name}
    /\ UNCHANGED <<minio, cr, svcs, claims, pods, caches, queued, pc, round, budget>>

\* Somebody gives the status the arrays that none of the controllers sends for a new
\* instance.
CompleteStatus ==
    /\ minio.phase = "live"
    /\ ~minio.lists
    /\ ChangeMinIO([minio EXCEPT !.lists = TRUE], round)
    /\ UNCHANGED <<cr, svcs, claims, pods, sealed, seen, crSeen, claimsSeen, queued, pc, budget>>

\* The status controller stores a report with its verdict, or the health checker its
\* fields, which leave this status as it is.
ForeignStatusWrite ==
    /\ minio.phase = "live" /\ minio.lists
    /\ Spend("foreign")
    /\ \E s \in {minio.status, "Completed", "Running", "Failed"} :
          ChangeMinIO([minio EXCEPT !.status = s], round)
    /\ UNCHANGED <<cr, svcs, claims, pods, sealed, seen, crSeen, claimsSeen, queued, pc>>

\* The process dies with its queue and caches; the next one lists everything and
\* queues a request for the object if it exists.
Restart ==
    /\ Spend("restarts")
    /\ pc' = "idle" /\ round' = NoRound
    /\ seen' = minio /\ seenCurrent' = TRUE
    /\ crSeen' = cr
    /\ claimsSeen' = (claims # {})
    /\ queued' = (minio.phase # "gone")
    /\ UNCHANGED server

Environment ==
    \/ SyncMinIO \/ SyncRevision \/ SyncClaims \/ Resync
    \/ EditSpec \/ DeleteMinIO \/ GarbageCollect \/ FinishDeletion
    \/ DriftService \/ SealPod \/ CompleteStatus \/ ForeignStatusWrite \/ Restart

Next == Reconcile \/ Environment

Spec == Init /\ [][Next]_vars

\* The worker runs the round it has begun and takes the request that waits, the
\* watches deliver, the garbage collector collects.  Nothing obliges the user, a
\* resync, the cluster, a fault or a crash to happen.
Fairness ==
    /\ WF_vars(Reconcile)
    /\ WF_vars(SyncMinIO) /\ WF_vars(SyncRevision) /\ WF_vars(SyncClaims)
    /\ WF_vars(GarbageCollect) /\ WF_vars(FinishDeletion)

FairSpec == Spec /\ Fairness
=============================================================================
