# minio-operator: a verification project

TLA+ models of the MinIO operator in this repository (`src/`), the TLC runs
that check them on small instances, and proofs that the TLAPS proof system
checks for every value of the constants. Line numbers refer to
`src/controllers/minio_controller.go` unless a file is named.

## 1. Inventory

| Part | State it keeps or changes | Operations |
|---|---|---|
| MinIO reconciler (`controllers/minio_controller.go`) | per round: a copy of the object, the recorded specification, the plan; on the API server: ControllerRevision, three services, claims, pods, `status.status` | `Reconcile`, `updateMinIOStatusWithRetry`, `checkMinIOSvc`, `checkConsoleSvc`, `checkMinIOHLSvc`, `checkPVC` |
| Status reconciler (`controllers/minio_status_controller.go`) | per round: a copy of the object; on the API server: claims, services, pools and `status.status` of the status | `Reconcile`, `updateMinIOStatus`, `nodeIP` |
| Health checker (`controllers/minio_health_checker_controller.go`) | per round: a copy of the object; on the API server: `status.healthStatus` | `Reconcile`, `updateMinIOStatus`, `createTransport` |
| Builders (`utils/*.go`) | none (pure) | services, pods, claims, the two comparisons; the ControllerRevision calls |
| API types (`api/v1alpha1`) | none | names, labels, owner references, the ControllerRevision's contents, the address of the health check |
| Environment parser (`utils/utils.go`) | none; no caller | `ParseRawConfiguration` |
| Start-up (`main.go`) | the manager | registers the MinIO reconciler |

The parts do not call each other. They meet on the API server: a controller
copies the MinIO object from the manager's shared cache, changes its copy in
memory, creates or updates objects, and writes the whole status with the
resourceVersion it has read. Each write is an event that queues a request for
every controller. A round is a sequence of calls; an error ends it and queues
the request again; the process may die between any two calls, and of a round
nothing survives but what is on the API server.

What is hard in this:

* *The record comes before the work.* The difference between the recorded
  specification (ControllerRevision) and the new one decides which pods are
  created and updated, and the new one is recorded first (101-125). Whatever
  stops the round after that decides what is never done.
* *Caches.* The object, the ControllerRevision and the claims are read from
  caches of different ages; services and pods are read and written directly.
* *Status writes.* Optimistic concurrency with a retry that writes back what it
  has read (221-242), from three controllers.
* *Reports of many calls.* The status reconciler lists claims, services and the
  pods of one pool after the other, while they and the instance change, and no
  event tells it of a pod (`controllers/minio_status_controller.go:106, 213`).
* *Partial failure.* A refused call, or one that takes effect although its
  caller sees an error, at every call of the round.
* *Refusals that repeat.* The API server refuses an update of a pod that lacks what
  the cluster has added to it (201), a node port for the headless service (384), and a
  status in which a list the CRD requires is null
  (`config/crd/bases/minio.bob.com_minios.yaml:2457-2463`): each of them every time.
* *Deletion during a round*, which goes on creating objects.
* *Disagreements of the code with itself*: the headless service is compared with
  the console's (374); equal node selectors count as a difference
  (`utils/pod.go:31`); the health check takes the ports with and without TLS the
  other way round (`api/v1alpha1/helper.go:106`).

What makes each part correct: the record agrees with the round that acts on it;
services come one after the other, claims and pods after them, and pods in the order of
their numbers, from the specification that is recorded; a round that reports Running
has done what it planned; pods and services arrive as asked for; a deleted instance leaves nothing that is
owned; writers of the status do not take back each other's fields; a report is of
the instance it is stored with, Completed is backed by it, and in the end it is of
the cluster as it is. The full list
of hazards, each at its line with the properties that cover it or the reason why
none does, is in `PROJECT.json` under `hazards`.

## 2. Modules

| Module | Content |
|---|---|
| `MinIOResources` | The data: specifications, pods, claims, services, and the pure functions of `utils` and `api/v1alpha1` |
| `MinIOReconciler` | One MinIO instance: the reconciler, and the API server, caches, queue, user, garbage collector and process it runs with |
| `MinIOProperties` | Its properties, the inductive strengthenings of the invariants, and the mappings to what it implements |
| `MinIOProofs` | Its invariants, proved |
| `Deployment` | Abstract: what a deployed instance may do, step by step; its order, with the lemma that each step keeps it |
| `MinIORefinement` | `MinIOReconciler` implements `StatusRegister` and `Deployment`, proved |
| `MCMinIOReconciler` | Instances for TLC |
| `StatusRegister` | Abstract: the status as a register that three controllers write, each its own fields |
| `StatusWriters` | The three controllers as they write the status, refining `StatusRegister` |
| `StatusProofs` | The refinement, proved |
| `MCStatusWriters` | Instances for TLC |
| `StatusController` | The status reconciler, call by call, with its aggregation, among the other writers, the user and the cluster, refining `StatusRegister` too |
| `StatusControllerProofs` | Its invariants, what it stores, and the refinement, proved |
| `MCStatusController` | Instances for TLC |

### MinIOReconciler

A step of the reconciler is one call to the API server, or one read of a cache,
with the control flow up to the next call. `pc` names the next call and `round`
holds the local variables of `Reconcile`.

| Actions | Code |
|---|---|
| `SkipRound`, `StartRound` | 79-99: not found or being deleted, or the first status write |
| `WriteStatus` = `WriteAccepted`, `WriteConflict`, `WriteInvalid`, `WriteFailed` | `updateMinIOStatusWithRetry`, 221-242; `round.next` is what follows |
| `GetRevision`, `DeleteRevision`, `CreateRevision` | 101-125 and `utils/controllerrevision.go` |
| `GetService`, `CreateService`, `UpdateService` | the three `check...Svc` functions, one after the other (`round.kind`) |
| `ListClaims`, `CreateClaim`, `ClaimsCreated` | `checkPVC` |
| `PlanPods`, `CreatePod`, `PodsCreated`, `UpdatePod`, `PodsUpdated` | 147-213 |

A call to the API server has an *outcome*: answered; refused without effect; or
lost, with its effect and an error for the caller. What the server refuses by
its own rules (a name that is taken, an object that is not there, an old
resourceVersion, a node port for a headless service, a change of a pod that is not its
image, a status without the required arrays) is computed, as often as it comes, and
costs nothing; other refusals and losses, and failing reads, are taken from a budget of
faults.

A resourceVersion is not a number here: `seenCurrent` and `round.current` say
whether the copy in the cache, or in the round, is of the object's latest
version. Each change of the object makes both false, and a write with an old
copy is a conflict. `WriteAccepted` leaves the round's copy old: the code sends
a deep copy, and only that one learns the new version. This is why all later
writes of that round conflict and are dropped.

The environment: watches (`SyncMinIO`, `SyncRevision`, `SyncClaims`) deliver the
latest state at any time, each on its own; `Resync` queues a request without a
change; the cluster adds to the specification of a pod (`SealPod`); somebody gives the
status of a new instance the arrays (`CompleteStatus`); the user edits (`EditSpec`) and deletes (`DeleteMinIO`, in the
background or the foreground); the garbage collector removes what an owner
reference ties to an instance that is not live; a service is edited by somebody
(`DriftService`); the other controllers write their verdicts, or
fields that only change the version (`ForeignStatusWrite`); the
process dies and comes back with fresh caches (`Restart`).

Abstractions, and what they may hide:

* The fields of a specification are grouped by how `MinioServerNeedToUpdate` compares
  them: the image; `resources` for what else is compared always; `probe` for the
  pointers that are compared when both are set; `rest` for what is not compared. The
  members of a group are treated alike in the code.
* `RoundTrip` is what JSON with `omitempty` does to a specification: a map or slice that
  is present and empty comes back as nil, in the groups `resources` and `rest` and in the
  node selectors of the pools. Pointers survive.
* A pod is its name and what the builder put into it. Of a pod that exists only the image
  may change (`ValidPodUpdate`), and nothing once the cluster has added to it (`sealed`: a
  token volume, a service account, a node name), as the update is sent without that. A
  real cluster adds to every pod within moments. `SealPod` may happen to any pod before
  it is updated, and need not, so that what is proved holds for clusters that add
  nothing as well. A service account that the specification names, and tolerations that
  are only added to, which a server lets pass, are not told apart.
* Of the CRD only the arrays `poolStatus` and `pvcStatus` of the status: `minio.lists`
  says whether the stored status has them. A new instance does not, and the MinIO
  reconciler sends back what it has read: `WriteInvalid` until `CompleteStatus`, for which
  nothing in the program is responsible.
* The caches jump to the latest state instead of passing through each version.
  A round that begins with an intermediate version is one whose cache was synced
  at that moment.
* `UpdateService` compares the content of the service instead of its version.
  With at most one drift in a run the content never comes back to what was read.
* `Get` of an instance that fails for another reason than that it is not there goes on
  with an empty object (80-84); this is left out.
* The order in which claims are created is left open, as an error there is
  logged and passed over.
* Of the message of a failure only that it may be new, which changes the object's
  version (`Changes`). Events and logs are left out.
* One instance; the object is not created again after it is gone.
* `main.go` registers the reconciler without `KubeClient` and `Recorder`, and
  `SetupWithManager` calls `For` three times, which the builder refuses. The
  model is of the controllers as they are when registered with their clients.

### Deployment

What the user of the operator may rely on, without rounds, caches, calls or errors:
five variables (`live`, `recorded`, `services`, `claims`, `pods`) and one action for
each change of them. Records are made when there is none and may be forgotten at any
time; a service is opened after the `Earlier` ones, a claim after all services, a pod
after all services, after the pods `Before` it and from the specification that is
recorded at that moment; of a pod only the image is replaced, by the recorded one or so
that the pod is wholly as a specification has it; objects are taken away only after the
`End`, and claims never. After the `End` a round that is under way may still create
objects, in no order.

`ImplementsDeployment` maps the reconciler to it:

| Deployment | MinIOReconciler |
|---|---|
| `live` | the object is there without a deletionTimestamp (`Live`) |
| `recorded` | `RecordNow`: what the ControllerRevision holds, if it exists |
| `services`, `claims`, `pods` | which services exist; the claims; the pods with their contents |
| `Recordable`, `Volume` | the specifications as they survive JSON; the claims that pools call for |
| `Earlier` | `CheckedBefore`: the order of the three checks (127-140) |
| `Called` | a pod of a server as its specification has it |

What is hard here is that the guards of the abstract actions speak of the cluster as it
is, while the code looks at none of it: a pod is created because a plan says so that was
made from a cached ControllerRevision several calls ago. `ObjectsInOrder` is the order of
the deployment (`InOrder`), read through the same mapping.

### StatusWriters and StatusRegister

Three controllers, each with its own copy of the object. The status has the arrays the
CRD requires, and a report without pods is let through: both are in `StatusController`,
and the writes that this refuses would change nothing. The status has the
deployment's status, one value for all the status reconciler reports of the
pools, and the health. A pod phase for all pods stands for the list of pods, the
empty one for no pod; the status reconciler's list of pods is taken together
with its reading of the object. The rounds of the MinIO reconciler are reduced
to their status writes: `None` at first, `Running` before it creates something,
`Running` or `Failed` in the end. That these are all it does to the status is not taken
for granted: `MinIOReconciler` implements `StatusRegister` too, call by call. `ImplementsRegister == Register!Spec` says that
each step of this is a write of one controller to its own fields, or no change,
and that a verdict on the health is stored only while the stored status is
Completed. The mapping is explicit, `Register == INSTANCE StatusRegister WITH object
<- object, PoolsStatus <- PoolsStatus, Unreported <- ""`: it is the hidden copies,
caches and retries that must not show. A change of the pods (`PodsChange`) queues
nobody, as `For(&corev1.Pod{})` queues the pod's own name; a service named like the
instance, or a periodic resync, may queue a request at any time (`Resync`).

### StatusController

`MinIOStatusReconciler.Reconcile` (`controllers/minio_status_controller.go`, to
which the lines refer here), one action for each call. `pc` is the next call, `copy`
the round's copy of the object with the report as far as it has come.

| Actions | Code |
|---|---|
| `Begin`, `BeginMissing` | 33-39; an object that is gone is an error, and the request comes back |
| `ListClaims`, `ListServices`, `ListPods` | 41-63; 65-102 with `nodeIP` (193-207); 106-145, one pool for each step |
| `Conclude` | 148-157 |
| `ListFails` | 46-49, 67-70, 112-115 |
| `WriteAccepted`, `WriteConflict`, `WriteInvalid`, `WriteFails` | `updateMinIOStatus`, 170-191, and what follows it, 159-167 |

`PoolStatusOf` and `DeployStatusOf` are the aggregation: the pod listed last decides
about a pool, the last pool that is not Completed about the deployment. The other
two controllers are what `StatusWriters` shows them to be, writers of their own
fields: a round of the MinIO reconciler (`BeginMinIO`, then `EndMinIO` or
`EndMinIOUnstored`) has at most one status write that changes the object, since the
round's copy is old after that; the health checker is its accepted writes
(`HealthWrite`), which may come at any moment and never end. A report that lists no
claim, no pool, or a pool without pods is refused by the CRD (`Storable`), and so is, as
in `MinIOReconciler`, any write that sends back the status of a new instance. Around them the user edits, deletes and creates the instance again
under its name (`UserChanges`), claims, services and pods change
(`ClusterChanges`), and the process may die (`Restart`).

To readers of the object this is again `StatusRegister`, with the whole report in
place of the pools' field: `object <- [status |-> minio.status, pools |->
minio.report, health |-> minio.health]`. A round of many calls is one step of it; the
replacement of the instance is its `Replace`.

Abstractions: of a pod only its phase, of the list of claims only that it changes, of
an address whether it is the cluster's, a node's or without a host, so that a change
of a service's port is none of its address. That the nodes have an IPv4 address is
assumed; a list of the nodes that fails is a mishap. The object goes at once when it
is deleted. A new instance may find the claims and, while they are still being collected,
the pods of an earlier one of its name (`Leftovers`): without them its status cannot be
stored at all. The retry after a conflict spins until the cache has the latest object;
its turns before that change nothing and are left out.

## 3. Runs

| Run | Checks | Instance |
|---|---|---|
| `safety` | `TypeOK`, `RevisionRecordsRound`, `RoundApplied`, `UnchangedPoolsApplied`, `ObjectsInOrder`, `ImplementsRegister`, `ImplementsDeployment` | six specifications: one or two pools, TLS, exposed minio, exposed console, empty lists and selectors, a moved pool, two pools of one name; edits forth and back; three disturbances of a fault, two edits, a restart and a foreign write (2.1 million states) |
| `convergence` | `Converges`, `StatusInitialised` | two disturbances of two edits that add a pool and change the image and a foreign write, no faults (250 000 states) |
| `cleanup` | `ImplementsDeployment`, `CleanedUp` | one server with one volume, two disturbances of a deletion, a fault and an edited service (540 000 states) |
| `status` | `TypeOK`, `ImplementsRegister` | one mishap, two changes of the pods' phase |
| `report` | `TypeOK`, `CompletedBacked`, `ImplementsRegister`, `ReportFitsSpec`, `ReportCatchesUp` | two specifications of one and two pools, three lists of pods (none, one pending, a failed one before a running one), with nothing or with claims and pods left behind; two disturbances of a mishap and two changes of the cluster or by the user; health checks without bound (1.3 million states) |
| `lost_pods` | violates `PodsEventuallyExist` | one fault |
| `rollout` | violates `ImageRollout` | one edit |
| `headless` | violates `HeadlessServesMinIO` | no disturbance at all |
| `added_claims` | violates `ClaimsForPods` | two edits |
| `failure_status` | violates `FailureReported` | one fault |
| `status_rest` | violates `StatusSettles` | healthy answers, two changes of the pods' phase |
| `health_address` | violates `HostAddressServed` | no disturbance at all |

What the passing ones show. `RevisionRecordsRound` is the agreement of the
record with the round that acts on it; it holds with any age of the caches
because the code creates after it deletes and stops when the name is taken, and
for a specification that differs from its own record for ever because every round
replaces the record. `RoundApplied` says that what a round reports as Running it has
done; it holds for pools that share a name too, as a pod that is there makes the
creation, and so the round, fail. `UnchangedPoolsApplied` is true for a reason the code does
not state: the comparison of node selectors in `utils/pod.go:31` is the wrong way
round, so that a later round goes to every pod again, and cannot report Running over
one that is missing or of an older image. Corrected, it would report Running over
an interrupted rollout, as the mutant `NeedToUpdateIfMoved` shows. Its premise is that the pools
came back from the ControllerRevision as they are: an empty node selector does not, its
pool is then compared as moved, and `Twin` in the run is such a specification.
`ObjectsInOrder` and `ImplementsDeployment` hold over rounds, not only inside one. The
latter is checked with edits, faults and a restart in `safety`, and with the deletion at
every call of a round and an edited service in `cleanup`; its mutants let a round skip
the headless service, and keep an old record over a new specification.
`ImplementsRegister` in `safety` is about the status field alone; the replacement of the
instance by its deletion is left to the theorem.

`Converges` says what comes of an instance without faults: its pods exist, with
whatever image, and its services are as asked for. It is conditional on three things
that the code does not bring about. A fault may cost the instance its pods
(`lost_pods`), so that there must be none (`Calm`). No status of a new instance can be
stored, and no round passes line 97, until somebody has given it the arrays (`lists`).
With the console exposed no round passes the headless service. That pods refuse updates
does no harm to it; with images it is `rollout`. `StatusInitialised` says that the first write is
not lost for good, although the one that is dropped on a conflict returns no error: the
write it conflicts with is an event that starts another round (mutant
`SyncMinIOByGeneration`). `CleanedUp` covers a deletion between any two calls of a round;
the claims are not part of it, as they have no owner.

`ReportFitsSpec` holds although a round may read the object from an old cache and the
instance may be replaced under it, because the write carries the resourceVersion of
what was read and the retry drops the report (mutant `AcceptedUnchecked`).
`CompletedBacked` is what Completed is worth: there are pools, each has pods, and the one
listed last was running. Nothing more holds: `[Failed, Running]` is Completed. That a
pool without pods is not, is the merit of the CRD alone: for the code such a pool does not
count against Completed, but its list of servers goes out as null.
`ReportCatchesUp` is the reason for the requeue of every round that is not Completed: no
event of a pod reaches the reconciler. After a Completed round it is the MinIO
reconciler's answer to the write, `Running`, that starts the next one, so that the same
unrest that `status_rest` complains of keeps the report up to date. The property is
conditional in two ways. A report the CRD refuses is not asked for (`Storable`). And the
health checker's writes, which never end, may make the copy of every round old before it is
written, so that the report is starved: nothing in the code excludes this, and
`WinsRaces`, a premise of the property, does. It says that of infinitely many writes of
reports infinitely many meet no conflict and that no retry spins for ever.

Bounds. A pool of two servers is the least in which a round can stop between two
pods, two pools the least in which the plan has an added and an updated pool; one
volume per server suffices, as claims are created independently. Two edits allow
an edit to be taken back while a cache shows the first. One fault and one restart
reach each call, at each state of the caches; what more of them do to the
invariants is left to the proofs. `Budget["all"]` bounds the number of disturbances of
all kinds together (two or three). What is not a disturbance has no bound: rounds,
resyncs, refusals by rule, the watches, `SealPod`, the health checker's writes in `report`. The
proofs in section 5 do not depend on any of these bounds. `status` with one mishap has
three controllers, each at any point of a round, with caches of any age. `report` with
two disturbances has each pair of them at each call of a round; a change of the pods
between the lists of two pools, and a deletion and a new instance during one round, are
among them. Deadlock is checked in every run: with `Resync`, and with requeues, the
system always has a step.

Fairness. `WF_vars(Reconcile)`: a worker runs its round to the end and takes a
request that waits, which the work queue of controller-runtime guarantees. The
three caches and the garbage collector are weakly fair each, as the watches of
Kubernetes are eventually delivered. Nothing is assumed of the user, of faults,
crashes or periodic resyncs, nor that the cluster adds to a pod; the liveness properties
must hold if none of this comes. In `StatusWriters` every controller has its own worker,
hence `WF_vars(Step(c))` for each. In `StatusController` there are three: the worker of
the status reconciler, that of the MinIO reconciler, and the watch that brings the
object into the shared cache. Of the health checker nothing is assumed: it may write
always or never.

## 4. Where the code and its documentation disagree

Seven runs end in a counterexample; `PROJECT.json` quotes the lines under
`findings`.

1. `lost_pods`: a round that stops after it has recorded the specification and
   before it has created the pods is never made up for.
2. `headless`: the headless service is turned into one with the console's port
   in the round that creates it.
3. `added_claims`: pods of an added pool get no claims.
4. `failure_status`: `Failed` is not stored when the round has changed the status
   before, and the write reports success.
5. `status_rest`: the status changes for ever with nothing changing in the
   cluster.
6. `health_address`: the health check connects to the port 80 with TLS and to 443
   without, the service offers the other, and no instance is ever reported Health.

7. `rollout`: pods that the cluster has added to refuse every update, and keep the old
   image for ever.

Three more disagreements have no run. The code sends null for the lists of a status that
has no claims or pools yet, and the CRD of the repository requires arrays
(`config/crd/bases/minio.bob.com_minios.yaml:2457-2463`): the first write of a new
instance is refused in every round, which ends there. The models have this as
`WriteInvalid`; what comes after line 97 is reached only with `CompleteStatus`, and the
properties about it are of such instances. The console's service does not carry
`MinIOLable`, by which the status reconciler lists the services: the console's
address is never reported (`AddressOf`). With TLS the servers' console listens on
9443, while the service's target port stays 9090 (`utils/pod.go:117`); target ports
are not in the model.

## 5. Proofs

The modules `MinIOProofs`, `MinIORefinement`, `StatusProofs` and `StatusControllerProofs` prove, for all sets of specifications, of lists of pods and of
claims, all edits, all budgets and all numbers of mishaps (`Deployment` has one lemma, so
that it can be cited through the instance):

| Theorem | Statement | Argument |
|---|---|---|
| `TypeCorrect` | `Spec => []TypeOK` | `TypeOK` is inductive as it stands; its part `RoundOK` (the planned servers are servers of the specification they are taken from) needs `Unplanned`: a round that may still replace `round.old` has planned no update |
| `RevisionRecorded` | `Spec => []RevisionRecordsRound` | inductive relative to `TypeOK`; the round is past the ControllerRevision only by the steps that recorded it, and nothing else changes it while the instance lives (`EnvironmentStep`, `WriteStep`) |
| `RoundsApplied` | `Spec => []RoundApplied` | strengthened to `PlanInv`: what has left the plan has been applied. A creation replaces no pod, as it needs the name to be free; an update over a pod that the round has applied before, for another pool of that name, is refused or changes nothing, as only the image may change and both have the same one (`UpdateOfApplied`) |
| `UnchangedPoolsAreApplied` | `Spec => []UnchangedPoolsApplied` | follows from `RoundApplied`: between specifications with the same pools every server needs an update (`SamePoolsUpdated`) |
| `MinIOImplementsRegister` | `Spec => ImplementsRegister` of `MinIOReconciler` | with `FirstStatusInv`: a copy of the latest version agrees with the object, and None is to be written with such a copy only if the object has no status. `WriteEffect` and `OtherCalls` reduce the reconciler's steps to the write that is accepted and those that leave the object alone |
| `MinIOImplementsDeployment` | `Spec => ImplementsDeployment` | each call that changes an object is matched with one abstract action (`RecordRefines`, `ServiceRefines`, `ClaimRefines`, `CreateRefines`, `UpdateRefines`), the environment's deletion with `End`, the collector's with `Forget` and `Collect`, all else is a stutter. The abstract guards come from the invariants: that the services are there from `ServicesInv`; that the record is the round's from `RevisionRecordsRound`, as something to add means that there was a difference (`AddedIsRecorded`); that the pods before one are there from `PlanInv` (`PredecessorsApplied`); and that only specifications the instance has taken are recorded and built from, with their own claims, from `OriginInv` |
| `ObjectsAreInOrder` | `Spec => []ObjectsInOrder` | not proved on the reconciler at all: `OrderStep`, instantiated by the mapping, and the refinement |
| `StatusTypeCorrect` | `Spec => []TypeOK` of `StatusWriters` | inductive as it stands |
| `WritersImplementRegister` | `Spec => ImplementsRegister` | with `CopiesInv`: a copy that is of the object's latest version differs from it in its controller's fields alone, and as far as the round has come; the other copies do not matter, as they are never stored (`WriteStep`). This is what makes optimistic concurrency enough, and why the retry must not write the caller's copy (mutant `WriteConflictOver`) |
| `ControllerTypeCorrect` | `Spec => []TypeOK` of `StatusController` | inductive as it stands, with two lemmas on the aggregation: the running pods of a list can be counted (`RunningPods`), and the last pool that is not Completed exists (`LastIndex`, by the well-foundedness of strict inclusion of finite sets, since induction with an operator parameter is out of reach) |
| `CompletedIsBacked` | `Spec => []CompletedBacked` | with `ReportsInv`: stored and unfinished reports count what they list, at the write the copy's status is that of its report, a report with an empty list is not stored, and no other controller writes Completed |
| `ReportsFitTheSpec` | `Spec => ReportFitsSpec` | with `CopyInv`: a copy of the latest version has the object's specification, and the pools listed so far are the first ones of it |
| `ControllerImplementsRegister` | `Spec => ImplementsRegister` | with both; the steps of a round before its write are stutters of the register, an edit is one as well, a deletion is its `Replace` |

Assumptions: `ValueAssumption`, `SpecsAssumption`, `ListsAssumption`, `BudgetAssumption`
(types of the constants), and no more: pools may share their names, as the code and the
CRD let them; `Deployment` assumes nothing of its constants. TLC evaluates
the assumptions in each run. The strengthenings were checked by TLC as invariants of the `safety`, `cleanup`, `status` and `report` instances
before they were proved. A proof of a step goes by the stage of the round, with the facts common
to all steps (`LiveStep`, `EnvironmentStep`, `WriteStep`) as lemmas.

Only model-checked: the liveness properties `StatusInitialised`, `Converges`, `CleanedUp` and `ReportCatchesUp`, whose proofs need fairness and ENABLED,
which are out of the prover's reach; all invariants, action properties and refinements
that a passing run checks are proved. No module has a recursive definition.

## 6. What is left

Done: the MinIO reconciler, its abstract deployment, the three status writers and the
status reconciler, with their runs, refinements and theorems; the address of the health
check.

Worth adding:

* pods of a living instance that are evicted or deleted, in `MinIOReconciler`, where
  nothing creates them again and updates stop at the first missing one;
* two instances in one namespace, whose names of pods and services may collide, and
  an instance created again over its old claims;
* the CRD's required arrays in `StatusWriters`.

Not modelled, and why: the HTTP transport and the admin client's calls (I/O); the
credentials and the admin client of `helper.go` and the parser of `utils/utils.go`,
which nothing in the program calls; the start-up (once, sequential); generated deep
copies; manifests; the test suite (it starts an API server and tests no
controller).
