---------------------------- MODULE StatusWriters ----------------------------
(***************************************************************************)
(* The three controllers of src/controllers as writers of one status       *)
(* subresource.  Each copies the object from the shared cache, changes its *)
(* copy in memory and sends the whole of it with the resourceVersion it    *)
(* has read; on a conflict it reads the object again and writes back what  *)
(* it read.  The object is not deleted here: MinIOReconciler does that.    *)
(* Its status has the arrays the CRD requires, and a report without pods   *)
(* is let through: that both may be refused is in StatusController.        *)
(*                                                                         *)
(* Of the status this module keeps the deployment's status, the pools'     *)
(* (for everything the status reconciler alone writes) and the health.     *)
(***************************************************************************)
EXTENDS Naturals, FiniteSets

CONSTANTS
    Verdicts,       \* the answers a health check may get, TRUE if healthy
    MaxMishaps,     \* how often the process may die, or a write be refused or
                    \* applied without an answer
    MaxPodChanges   \* how often the phase of the pods changes

ASSUME VerdictsAssumption == Verdicts \subseteq BOOLEAN
ASSUME BoundsAssumption == {MaxMishaps, MaxPodChanges} \subseteq Nat

VARIABLES
    object,         \* API server: the status of the MinIO object
    podPhase,       \* API server: the phase of the pods, "" if there are none
    seen,           \* the shared cache's copy of the object
    seenCurrent,    \* the cache's copy has the object's resourceVersion
    queued,         \* the controllers with a waiting request
    pc,             \* what each controller does next
    copy,           \* each controller's copy of the object, changed in memory
    current,        \* the copies that have the object's resourceVersion
    mishaps, podChanges  \* what has happened so far

budgets == <<mishaps, podChanges>>
vars == <<object, podPhase, seen, seenCurrent, queued, pc, copy, current, budgets>>

PoolsStatus == {"", "Completed", "Running", "Failed"}

Register == INSTANCE StatusRegister WITH
    object <- object, PoolsStatus <- PoolsStatus, Unreported <- ""

Controller == {"minio", "status", "health"}
PodPhase == {"", "Pending", "Running", "Failed"}
Blank == [status |-> "", pools |-> "", health |-> ""]

\* "None", "mid", "final": writes of the MinIO reconciler; "report": of the status
\* reconciler; "unknown", "verdict": of the health checker.
Writing == {"none", "mid", "final", "report", "unknown", "verdict"}
PC == {"idle", "work", "check"} \cup Writing

Init ==
    /\ object = Blank /\ podPhase = ""
    /\ seen = Blank /\ seenCurrent = TRUE
    /\ queued = Controller
    /\ pc = [c \in Controller |-> "idle"]
    /\ copy = [c \in Controller |-> Blank]
    /\ current = {}
    /\ mishaps = 0 /\ podChanges = 0

-----------------------------------------------------------------------------
(***************************************************************************)
(* Control flow and the write that all three share.                        *)
(***************************************************************************)
\* c goes on with stage and with m as its copy.
Goto(c, stage, m) == pc' = [pc EXCEPT ![c] = stage] /\ copy' = [copy EXCEPT ![c] = m]

\* c returns; again: with an error or Requeue.
Return(c, again) ==
    /\ Goto(c, "idle", Blank)
    /\ queued' = IF again THEN queued \cup {c} ELSE queued

\* c begins a round: it takes the request and copies the object from the cache.
Begin(c, stage, m) ==
    /\ pc[c] = "idle" /\ c \in queued
    /\ queued' = queued \ {c}
    /\ Goto(c, stage, m)
    /\ current' = IF seenCurrent THEN current \cup {c} ELSE current \ {c}
    /\ UNCHANGED <<object, podPhase, seen, seenCurrent, budgets>>

\* What each write is followed by.
AfterWrite(c, stage) ==
    CASE stage \in {"none", "mid"} -> Goto(c, "work", copy[c]) /\ UNCHANGED queued
      [] stage = "final" -> Return(c, copy[c].status = "Failed")
      [] stage = "report" -> Return(c, copy[c].status # "Completed")
      [] stage = "unknown" /\ copy[c].status = "Completed" ->
             Goto(c, "check", copy[c]) /\ UNCHANGED queued
      [] stage = "unknown" /\ copy[c].status # "Completed" -> Return(c, TRUE)
      [] stage = "verdict" -> Return(c, copy[c].health # "Health")

\* The API server replaces the whole status by the copy.
Store(c) ==
    IF object = copy[c]
    THEN UNCHANGED <<object, seenCurrent, current>>
    ELSE object' = copy[c] /\ seenCurrent' = FALSE /\ current' = {}

\* The object has not changed since it was read.
MayStore(c) == c \in current

WriteAccepted(c) ==
    /\ pc[c] \in Writing /\ MayStore(c)
    /\ Store(c)
    /\ AfterWrite(c, pc[c])
    /\ UNCHANGED <<podPhase, seen, budgets>>

\* Mutant: the retry writes what the caller wanted to write over what it has read.
WriteConflictOver(c) ==
    /\ pc[c] \in Writing /\ c \notin current
    /\ seenCurrent
    /\ Store(c)
    /\ AfterWrite(c, pc[c])
    /\ UNCHANGED <<podPhase, seen, budgets>>

\* The write that is accepted after a conflict changes nothing; until the cache has
\* caught up there is conflict after conflict.
WriteConflict(c) ==
    /\ pc[c] \in Writing /\ c \notin current
    /\ seenCurrent
    /\ AfterWrite(c, pc[c])
    /\ UNCHANGED <<object, podPhase, seen, seenCurrent, current, budgets>>

\* The write fails, or is stored and the answer is lost.
WriteFault(c) ==
    /\ pc[c] \in Writing
    /\ mishaps < MaxMishaps /\ mishaps' = mishaps + 1
    /\ \/ UNCHANGED <<object, seenCurrent, current>>
       \/ MayStore(c) /\ Store(c)
    /\ Return(c, TRUE)
    /\ UNCHANGED <<podPhase, seen, podChanges>>

-----------------------------------------------------------------------------
(***************************************************************************)
(* MinIOReconciler: None for a new object, Running before it creates       *)
(* something, Running or Failed in the end.  A second Running in a round   *)
(* stores nothing and is left out.                                         *)
(***************************************************************************)
BeginMinIO ==
    Begin("minio", IF seen.status = "" THEN "none" ELSE "work",
          IF seen.status = "" THEN [seen EXCEPT !.status = "None"] ELSE seen)

Work ==
    /\ pc["minio"] = "work"
    /\ \/ /\ copy["minio"].status # "Running"
          /\ Goto("minio", "mid", [copy["minio"] EXCEPT !.status = "Running"])
       \/ \E s \in {"Running", "Failed"} :
             Goto("minio", "final", [copy["minio"] EXCEPT !.status = s])
    /\ UNCHANGED <<object, podPhase, seen, seenCurrent, queued, current, budgets>>

(***************************************************************************)
(* MinIOStatusReconciler: the pools as their pods are, which it lists from *)
(* the server; no pod at all leaves the pool's status empty and does not   *)
(* count against Completed.                                                *)
(***************************************************************************)
\* Mutant: the phase of the pods is taken for the pool's status.
PhaseAsStatus(phase) == phase

PoolsOf(phase) ==
    CASE phase = "" -> "" [] phase = "Running" -> "Completed"
      [] phase = "Pending" -> "Running" [] OTHER -> "Failed"

DeployOf(pools) == IF pools \in {"Failed", "Running"} THEN pools ELSE "Completed"

BeginStatus ==
    Begin("status", "report", [seen EXCEPT !.pools = PoolsOf(podPhase),
                                           !.status = DeployOf(PoolsOf(podPhase))])

(***************************************************************************)
(* MinIOHealthCheckerReconciler: Unknown first, and a verdict if the copy  *)
(* it began with says that the deployment is complete.                     *)
(***************************************************************************)
BeginHealth == Begin("health", "unknown", [seen EXCEPT !.health = "Unknown"])

Check ==
    /\ pc["health"] = "check"
    /\ \E healthy \in Verdicts :
          Goto("health", "verdict",
               [copy["health"] EXCEPT !.health = IF healthy THEN "Health" ELSE "UnHealth"])
    /\ UNCHANGED <<object, podPhase, seen, seenCurrent, queued, current, budgets>>

-----------------------------------------------------------------------------
\* The watch: the cache has the latest object, and every controller is told.
Sync ==
    /\ ~seenCurrent
    /\ seen' = object /\ seenCurrent' = TRUE
    /\ queued' = Controller
    /\ UNCHANGED <<object, podPhase, pc, copy, current, budgets>>

\* The pods change.  Their events queue requests for the names of the pods, not of the
\* instance.
PodsChange ==
    /\ podChanges < MaxPodChanges /\ podChanges' = podChanges + 1
    /\ podPhase' \in PodPhase \ {podPhase}
    /\ UNCHANGED <<object, queued, seen, seenCurrent, pc, copy, current, mishaps>>

\* An event of the service that has the instance's name, or a periodic resync.
Resync ==
    /\ queued' \in {queued \cup {c} : c \in Controller}
    /\ queued' # queued
    /\ UNCHANGED <<object, podPhase, seen, seenCurrent, pc, copy, current, budgets>>

\* The process dies; the next one lists the object.
Restart ==
    /\ mishaps < MaxMishaps /\ mishaps' = mishaps + 1
    /\ pc' = [c \in Controller |-> "idle"]
    /\ copy' = [c \in Controller |-> Blank]
    /\ current' = {}
    /\ seen' = object /\ seenCurrent' = TRUE
    /\ queued' = Controller
    /\ UNCHANGED <<object, podPhase, podChanges>>

Step(c) ==
    \/ WriteAccepted(c) \/ WriteConflict(c) \/ WriteFault(c)
    \/ c = "minio" /\ (BeginMinIO \/ Work)
    \/ c = "status" /\ BeginStatus
    \/ c = "health" /\ (BeginHealth \/ Check)

Next == (\E c \in Controller : Step(c)) \/ Sync \/ PodsChange \/ Resync \/ Restart

Spec == Init /\ [][Next]_vars

\* Each controller has a worker of its own, and the watch delivers.
FairSpec == Spec /\ (\A c \in Controller : WF_vars(Step(c))) /\ WF_vars(Sync)

-----------------------------------------------------------------------------
(***************************************************************************)
(* Properties.                                                             *)
(***************************************************************************)
\* The types of the state.
TypeOK ==
    /\ object \in Register!MinIOStatus /\ seen \in Register!MinIOStatus
    /\ copy \in [Controller -> Register!MinIOStatus]
    /\ pc \in [Controller -> PC]
    /\ podPhase \in PodPhase /\ seenCurrent \in BOOLEAN
    /\ queued \subseteq Controller /\ current \subseteq Controller
    /\ mishaps \in Nat /\ podChanges \in Nat

\* The three updateMinIOStatus functions together: full-object writes from stale caches,
\* retried after conflicts, never take back what another controller wrote, None never
\* replaces a later status, and a health verdict is stored only while the stored status
\* is Completed, although the checker looks at a copy it took before the check
\* (minio_health_checker_controller.go:36-55; minio_status_controller.go:170-191;
\* minio_controller.go:221-242).
ImplementsRegister == Register!Spec

\* The reconcilers synchronise "until the desired state is reached" (README.md, "How it
\* works"): once all pods run and nothing changes in the cluster, the status comes to rest.
StatusSettles == <>[](podPhase = "Running") => <>[][UNCHANGED object]_vars
=============================================================================
