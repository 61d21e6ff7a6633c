----------------------------- MODULE StatusProofs -----------------------------
(***************************************************************************)
(* The three controllers implement the status register, for every set of   *)
(* verdicts and every number of mishaps and of changes of the pods.        *)
(***************************************************************************)
EXTENDS StatusWriters, TLAPS

(***************************************************************************)
(* The invariant: a copy that is of the object's latest version differs    *)
(* from the object in the fields of its controller alone, as far as the    *)
(* round has come.                                                         *)
(***************************************************************************)
\* The stages of each controller's rounds.
StagesOf(c) ==
    CASE c = "minio"  -> {"idle", "work", "none", "mid", "final"}
      [] c = "status" -> {"idle", "report"}
      [] c = "health" -> {"idle", "check", "unknown", "verdict"}

MinIOCopyOK ==
    "minio" \in current /\ pc["minio"] # "idle" =>
        /\ copy["minio"].pools = object.pools /\ copy["minio"].health = object.health
        /\ pc["minio"] = "none" => object.status = "" /\ copy["minio"].status = "None"
        /\ pc["minio"] \in {"mid", "final"} => copy["minio"].status \in {"Running", "Failed"}

StatusCopyOK ==
    "status" \in current /\ pc["status"] # "idle" =>
        /\ copy["status"].health = object.health
        /\ copy["status"].status \in {"Completed", "Running", "Failed"}

HealthCopyOK ==
    "health" \in current /\ pc["health"] # "idle" =>
        /\ copy["health"].status = object.status /\ copy["health"].pools = object.pools
        /\ pc["health"] = "unknown" => copy["health"].health = "Unknown"
        /\ pc["health"] \in {"check", "verdict"} => copy["health"].status = "Completed"
        /\ pc["health"] = "verdict" => copy["health"].health \in {"Health", "UnHealth"}

CopiesInv ==
    /\ \A c \in Controller : pc[c] \in StagesOf(c)
    /\ seenCurrent => seen = object
    /\ MinIOCopyOK /\ StatusCopyOK /\ HealthCopyOK

-----------------------------------------------------------------------------
(***************************************************************************)
(* What a step of a controller does.                                       *)
(***************************************************************************)
\* An empty status is a status.
LEMMA BlankType == Blank \in Register!MinIOStatus
  BY DEF Blank, Register!MinIOStatus, Register!DeployStatus, PoolsStatus,
         Register!HealthStatus

\* A write is followed by the end of the round; by the rest of it, with the copy as it was
\* (MinIO reconciler); or by the check, if the copy says Completed (health checker).
LEMMA AfterWriteStep ==
    ASSUME TypeOK, NEW c \in Controller, pc[c] \in Writing, AfterWrite(c, pc[c])
    PROVE  /\ queued' \subseteq Controller
           /\ \/ Goto(c, "idle", Blank)
              \/ pc[c] \in {"none", "mid"} /\ Goto(c, "work", copy[c])
              \/ pc[c] = "unknown" /\ copy[c].status = "Completed" /\ Goto(c, "check", copy[c])
  BY DEF AfterWrite, Writing, Return, TypeOK

\* A step that writes: what it stores, and what it leaves alone.
Write(c) == WriteAccepted(c) \/ WriteConflict(c) \/ WriteFault(c)

\* A write stores nothing, or the copy of a controller whose copy is of the latest version
\* (the three updateMinIOStatus functions).
LEMMA WriteStep ==
    ASSUME TypeOK, NEW c \in Controller, Write(c)
    PROVE  /\ pc[c] \in Writing
           /\ \/ UNCHANGED <<object, seenCurrent, current>>
              \/ c \in current /\ object' = copy[c] /\ seenCurrent' = FALSE /\ current' = {}
           /\ seen' = seen /\ podPhase' = podPhase /\ queued' \subseteq Controller
           /\ mishaps' \in Nat /\ podChanges' \in Nat
           /\ \/ Goto(c, "idle", Blank)
              \/ pc[c] \in {"none", "mid"} /\ Goto(c, "work", copy[c])
              \/ pc[c] = "unknown" /\ copy[c].status = "Completed" /\ Goto(c, "check", copy[c])
  <1>1. CASE WriteAccepted(c)
    BY <1>1, AfterWriteStep DEF WriteAccepted, MayStore, Store, TypeOK, budgets
  <1>2. CASE WriteConflict(c)
    BY <1>2, AfterWriteStep DEF WriteConflict, TypeOK, budgets
  <1>3. CASE WriteFault(c)
    BY <1>3 DEF WriteFault, MayStore, Store, Return, TypeOK
  <1> QED  BY <1>1, <1>2, <1>3 DEF Write

\* A controller goes on without writing: it begins, it works or it checks.
Compute(c) ==
    \/ c = "minio" /\ (BeginMinIO \/ Work)
    \/ c = "status" /\ BeginStatus
    \/ c = "health" /\ (BeginHealth \/ Check)

\* The next state has the types of the state when c goes on with a status as its copy.
LEMMA GotoType ==
    ASSUME TypeOK, NEW c \in Controller, NEW stage \in PC, NEW m \in Register!MinIOStatus,
           Goto(c, stage, m)
    PROVE  copy' \in [Controller -> Register!MinIOStatus] /\ pc' \in [Controller -> PC]
  BY DEF Goto, TypeOK

\* A controller that does not write keeps to the types of the state.
LEMMA ComputeType ==
    ASSUME TypeOK, NEW c \in Controller, Compute(c)
    PROVE  TypeOK'
  <1>0. /\ Controller = {"minio", "status", "health"}
        /\ {"idle", "work", "none", "mid", "final", "report", "check", "unknown", "verdict"}
              \subseteq PC
    BY DEF Controller, PC, Writing
  <1>1. ASSUME NEW d \in Controller, NEW stage \in PC, NEW m \in Register!MinIOStatus,
               Begin(d, stage, m)
        PROVE  TypeOK'
    <2>1. copy' \in [Controller -> Register!MinIOStatus] /\ pc' \in [Controller -> PC]
      BY <1>1, GotoType DEF Begin
    <2> QED  BY <1>1, <2>1 DEF Begin, TypeOK, budgets
  <1> USE DEF Register!MinIOStatus, Register!DeployStatus, PoolsStatus,
              Register!HealthStatus
  <1>2. CASE BeginMinIO
    <2>1. /\ [seen EXCEPT !.status = "None"] \in Register!MinIOStatus
          /\ seen \in Register!MinIOStatus
      BY DEF TypeOK
    <2> QED  BY <1>0, <1>1, <1>2, <2>1 DEF BeginMinIO
  <1>3. CASE Work
    <2>1. ASSUME NEW s \in {"Running", "Failed"}
          PROVE  [copy["minio"] EXCEPT !.status = s] \in Register!MinIOStatus
      BY <1>0 DEF TypeOK
    <2> HIDE DEF Register!MinIOStatus
    <2>2. PICK stage \in {"mid", "final"}, s \in {"Running", "Failed"} :
             Goto("minio", stage, [copy["minio"] EXCEPT !.status = s])
      BY <1>3 DEF Work
    <2>3. copy' \in [Controller -> Register!MinIOStatus] /\ pc' \in [Controller -> PC]
      BY <1>0, <2>1, <2>2, GotoType
    <2> QED  BY <1>3, <2>3 DEF Work, TypeOK, budgets
  <1>4. CASE BeginStatus
    <2> DEFINE p == PoolsOf(podPhase)
               m == [seen EXCEPT !.pools = p, !.status = DeployOf(p)]
    <2>1. p \in PoolsStatus /\ DeployOf(p) \in Register!DeployStatus
      BY DEF PoolsOf, DeployOf
    <2>2. m \in Register!MinIOStatus
      BY <2>1 DEF TypeOK
    <2>3. Begin("status", "report", m)
      BY <1>4 DEF BeginStatus
    <2> HIDE DEF m
    <2> QED  BY <1>0, <1>1, <2>2, <2>3
  <1>5. CASE BeginHealth
    <2>1. [seen EXCEPT !.health = "Unknown"] \in Register!MinIOStatus
      BY DEF TypeOK
    <2> QED  BY <1>0, <1>1, <1>5, <2>1 DEF BeginHealth
  <1>6. CASE Check
    <2>1. ASSUME NEW h \in {"Health", "UnHealth"}
          PROVE  [copy["health"] EXCEPT !.health = h] \in Register!MinIOStatus
      BY <1>0 DEF TypeOK
    <2> HIDE DEF Register!MinIOStatus
    <2>2. PICK h \in {"Health", "UnHealth"} :
             Goto("health", "verdict", [copy["health"] EXCEPT !.health = h])
      BY <1>6 DEF Check
    <2>3. copy' \in [Controller -> Register!MinIOStatus] /\ pc' \in [Controller -> PC]
      BY <1>0, <2>1, <2>2, GotoType
    <2> QED  BY <1>6, <2>3 DEF Check, TypeOK, budgets
  <1> QED  BY <1>2, <1>3, <1>4, <1>5, <1>6 DEF Compute

\* Every step keeps to the types of the state.
LEMMA TypeStep ==
    ASSUME TypeOK, [Next]_vars
    PROVE  TypeOK'
  <1>1. ASSUME NEW c \in Controller, Write(c) PROVE TypeOK'
    <2>1. {"idle", "work", "check"} \subseteq PC /\ copy[c] \in Register!MinIOStatus
      BY DEF PC, TypeOK
    <2>2. copy' \in [Controller -> Register!MinIOStatus] /\ pc' \in [Controller -> PC]
      BY <1>1, <2>1, WriteStep, BlankType, GotoType
    <2> QED  BY <1>1, <2>1, <2>2, WriteStep DEF TypeOK
  <1>2. CASE Sync
    BY <1>2 DEF Sync, TypeOK, budgets
  <1>3. CASE PodsChange \/ Resync
    BY <1>3 DEF PodsChange, Resync, TypeOK, budgets
  <1>4. CASE Restart
    BY <1>4, BlankType DEF Restart, TypeOK, PC
  <1>5. CASE UNCHANGED vars
    BY <1>5 DEF vars, budgets, TypeOK
  <1> QED  BY <1>1, <1>2, <1>3, <1>4, <1>5, ComputeType DEF Next, Step, Write, Compute

\* Every reachable state of the three writers is well typed.
THEOREM StatusTypeCorrect == Spec => []TypeOK
  <1>1. Init => TypeOK
    <2>1. "idle" \in PC /\ "" \in PodPhase
      BY DEF PC, PodPhase
    <2>2. ASSUME Init
          PROVE  /\ copy \in [Controller -> Register!MinIOStatus]
                 /\ pc \in [Controller -> PC]
      BY <2>1, <2>2, BlankType DEF Init
    <2>3. ASSUME Init
          PROVE  /\ object \in Register!MinIOStatus /\ seen \in Register!MinIOStatus
                 /\ podPhase \in PodPhase /\ seenCurrent \in BOOLEAN
                 /\ queued \subseteq Controller /\ current \subseteq Controller
                 /\ mishaps \in Nat /\ podChanges \in Nat
      BY <2>1, <2>3, BlankType DEF Init
    <2> QED  BY <2>2, <2>3 DEF TypeOK
  <1> QED  BY <1>1, TypeStep, PTL DEF Spec

-----------------------------------------------------------------------------
(***************************************************************************)
(* Copies of the latest version differ in their controller's fields only.  *)
(***************************************************************************)
\* A write keeps the invariant: either it changes the object, and then no copy is of the
\* latest version, or it does not, and the round goes on with the copy it had.
LEMMA WriteCopies ==
    ASSUME TypeOK, CopiesInv, NEW c \in Controller, Write(c)
    PROVE  CopiesInv'
  <1>0. /\ Controller = {"minio", "status", "health"} /\ pc[c] \in Writing
        /\ pc \in [Controller -> PC] /\ copy \in [Controller -> Register!MinIOStatus]
    BY WriteStep DEF Controller, TypeOK
  <1>1. seenCurrent' => seen' = object'
    BY WriteStep DEF CopiesInv
  <1>2. /\ \A d \in Controller \ {c} : pc'[d] = pc[d] /\ copy'[d] = copy[d]
        /\ \/ pc'[c] = "idle"
           \/ /\ pc[c] \in {"none", "mid"} /\ pc'[c] = "work" /\ copy'[c] = copy[c]
           \/ /\ pc[c] = "unknown" /\ copy[c].status = "Completed"
              /\ pc'[c] = "check" /\ copy'[c] = copy[c]
    <2>1. ASSUME NEW stage, NEW m, Goto(c, stage, m)
          PROVE  /\ pc'[c] = stage /\ copy'[c] = m
                 /\ \A d \in Controller \ {c} : pc'[d] = pc[d] /\ copy'[d] = copy[d]
      BY <1>0, <2>1 DEF Goto
    <2>2. CASE Goto(c, "idle", Blank)
      BY <2>1, <2>2
    <2>3. CASE pc[c] \in {"none", "mid"} /\ Goto(c, "work", copy[c])
      BY <2>1, <2>3
    <2>4. CASE pc[c] = "unknown" /\ copy[c].status = "Completed" /\ Goto(c, "check", copy[c])
      BY <2>1, <2>4
    <2> QED  BY <2>2, <2>3, <2>4, WriteStep
  <1>3. \A d \in Controller : pc'[d] \in StagesOf(d)
    BY <1>0, <1>2 DEF CopiesInv, StagesOf
  <1>4. CASE current' = {}
    BY <1>1, <1>3, <1>4 DEF CopiesInv, MinIOCopyOK, StatusCopyOK, HealthCopyOK
  <1>5. CASE UNCHANGED <<object, seenCurrent, current>>
    <2>1. MinIOCopyOK'
      BY <1>0, <1>2, <1>5 DEF CopiesInv, MinIOCopyOK, StagesOf
    <2>2. StatusCopyOK'
      BY <1>0, <1>2, <1>5 DEF CopiesInv, StatusCopyOK, StagesOf
    <2>3. HealthCopyOK'
      BY <1>0, <1>2, <1>5 DEF CopiesInv, HealthCopyOK, StagesOf
    <2> QED  BY <1>1, <1>3, <2>1, <2>2, <2>3 DEF CopiesInv
  <1> QED  BY <1>4, <1>5, WriteStep

\* A round that begins with the cache's copy, or goes on with its own, changes the fields of
\* its controller alone.
LEMMA ComputeCopies ==
    ASSUME TypeOK, CopiesInv, NEW c \in Controller, Compute(c)
    PROVE  CopiesInv'
  <1>0. /\ Controller = {"minio", "status", "health"}
        /\ pc \in [Controller -> PC] /\ copy \in [Controller -> Register!MinIOStatus]
        /\ seen \in Register!MinIOStatus
        /\ seenCurrent => seen = object
    BY DEF Controller, TypeOK, CopiesInv
  <1>1. object' = object /\ seen' = seen /\ seenCurrent' = seenCurrent
    BY DEF Compute, BeginMinIO, Work, BeginStatus, BeginHealth, Check, Begin
  <1>2. ASSUME NEW d \in Controller, NEW stage, NEW m, Goto(d, stage, m)
        PROVE  /\ pc'[d] = stage /\ copy'[d] = m
               /\ \A e \in Controller \ {d} : pc'[e] = pc[e] /\ copy'[e] = copy[e]
    BY <1>0, <1>2 DEF Goto
  <1>3. ASSUME NEW d \in Controller, NEW stage, NEW m, Begin(d, stage, m)
        PROVE  /\ pc'[d] = stage /\ copy'[d] = m
               /\ \A e \in Controller \ {d} :
                     pc'[e] = pc[e] /\ copy'[e] = copy[e] /\ (e \in current' <=> e \in current)
               /\ d \in current' => seenCurrent
    BY <1>2, <1>3 DEF Begin
  <1>4. CASE BeginMinIO
    <2> DEFINE m == IF seen.status = "" THEN [seen EXCEPT !.status = "None"] ELSE seen
               stage == IF seen.status = "" THEN "none" ELSE "work"
    <2>1. /\ pc'["minio"] = stage /\ copy'["minio"] = m
          /\ \A e \in Controller \ {"minio"} :
                pc'[e] = pc[e] /\ copy'[e] = copy[e] /\ (e \in current' <=> e \in current)
          /\ "minio" \in current' => seenCurrent
      <3>1. Begin("minio", stage, m) /\ "minio" \in Controller
        BY <1>0, <1>4 DEF BeginMinIO
      <3> HIDE DEF m, stage
      <3> QED  BY <1>3, <3>1
    <2>2. /\ m.pools = seen.pools /\ m.health = seen.health
          /\ stage = "none" => seen.status = "" /\ m.status = "None"
          /\ stage \in {"none", "work"}
      BY <1>0 DEF Register!MinIOStatus
    <2> HIDE DEF m, stage
    <2>3. MinIOCopyOK'
      BY <1>0, <1>1, <2>1, <2>2 DEF MinIOCopyOK
    <2>4. StatusCopyOK' /\ HealthCopyOK'
      BY <1>0, <1>1, <2>1 DEF CopiesInv, StatusCopyOK, HealthCopyOK
    <2>5. \A e \in Controller : pc'[e] \in StagesOf(e)
      BY <1>0, <2>1, <2>2 DEF CopiesInv, StagesOf
    <2> QED  BY <1>0, <1>1, <2>3, <2>4, <2>5 DEF CopiesInv
  <1>5. CASE Work
    <2>1. PICK stage \in {"mid", "final"}, s \in {"Running", "Failed"} :
             Goto("minio", stage, [copy["minio"] EXCEPT !.status = s])
      BY <1>5 DEF Work
    <2> DEFINE m == [copy["minio"] EXCEPT !.status = s]
    <2>2. m.pools = copy["minio"].pools /\ m.health = copy["minio"].health /\ m.status = s
      BY <1>0 DEF Register!MinIOStatus
    <2>3. /\ pc'["minio"] = stage /\ copy'["minio"] = m
          /\ \A e \in Controller \ {"minio"} : pc'[e] = pc[e] /\ copy'[e] = copy[e]
      BY <1>0, <1>2, <2>1
    <2>4. pc["minio"] = "work" /\ current' = current
      BY <1>5 DEF Work
    <2> HIDE DEF m
    <2>5. MinIOCopyOK'
      BY <1>0, <1>1, <2>2, <2>3, <2>4 DEF CopiesInv, MinIOCopyOK
    <2>6. StatusCopyOK' /\ HealthCopyOK'
      BY <1>0, <1>1, <2>3, <2>4 DEF CopiesInv, StatusCopyOK, HealthCopyOK
    <2>7. \A e \in Controller : pc'[e] \in StagesOf(e)
      BY <1>0, <2>3 DEF CopiesInv, StagesOf
    <2> QED  BY <1>0, <1>1, <2>5, <2>6, <2>7 DEF CopiesInv
  <1>6. CASE BeginStatus
    <2> DEFINE p == PoolsOf(podPhase)
               m == [seen EXCEPT !.pools = p, !.status = DeployOf(p)]
    <2>1. /\ pc'["status"] = "report" /\ copy'["status"] = m
          /\ \A e \in Controller \ {"status"} :
                pc'[e] = pc[e] /\ copy'[e] = copy[e] /\ (e \in current' <=> e \in current)
          /\ "status" \in current' => seenCurrent
      BY <1>0, <1>3, <1>6 DEF BeginStatus
    <2>2. m.health = seen.health /\ m.status \in {"Completed", "Running", "Failed"}
      BY <1>0 DEF Register!MinIOStatus, DeployOf
    <2> HIDE DEF m
    <2>3. StatusCopyOK'
      BY <1>0, <1>1, <2>1, <2>2 DEF StatusCopyOK
    <2>4. MinIOCopyOK' /\ HealthCopyOK'
      BY <1>0, <1>1, <2>1 DEF CopiesInv, MinIOCopyOK, HealthCopyOK
    <2>5. \A e \in Controller : pc'[e] \in StagesOf(e)
      BY <1>0, <2>1 DEF CopiesInv, StagesOf
    <2> QED  BY <1>0, <1>1, <2>3, <2>4, <2>5 DEF CopiesInv
  <1>7. CASE BeginHealth
    <2> DEFINE m == [seen EXCEPT !.health = "Unknown"]
    <2>1. /\ pc'["health"] = "unknown" /\ copy'["health"] = m
          /\ \A e \in Controller \ {"health"} :
                pc'[e] = pc[e] /\ copy'[e] = copy[e] /\ (e \in current' <=> e \in current)
          /\ "health" \in current' => seenCurrent
      BY <1>0, <1>3, <1>7 DEF BeginHealth
    <2>2. m.status = seen.status /\ m.pools = seen.pools /\ m.health = "Unknown"
      BY <1>0 DEF Register!MinIOStatus
    <2> HIDE DEF m
    <2>3. HealthCopyOK'
      BY <1>0, <1>1, <2>1, <2>2 DEF HealthCopyOK
    <2>4. MinIOCopyOK' /\ StatusCopyOK'
      BY <1>0, <1>1, <2>1 DEF CopiesInv, MinIOCopyOK, StatusCopyOK
    <2>5. \A e \in Controller : pc'[e] \in StagesOf(e)
      BY <1>0, <2>1 DEF CopiesInv, StagesOf
    <2> QED  BY <1>0, <1>1, <2>3, <2>4, <2>5 DEF CopiesInv
  <1>8. CASE Check
    <2>1. PICK h \in {"Health", "UnHealth"} :
             Goto("health", "verdict", [copy["health"] EXCEPT !.health = h])
      BY <1>8 DEF Check
    <2> DEFINE m == [copy["health"] EXCEPT !.health = h]
    <2>2. m.status = copy["health"].status /\ m.pools = copy["health"].pools /\ m.health = h
      BY <1>0 DEF Register!MinIOStatus
    <2>3. /\ pc'["health"] = "verdict" /\ copy'["health"] = m
          /\ \A e \in Controller \ {"health"} : pc'[e] = pc[e] /\ copy'[e] = copy[e]
      BY <1>0, <1>2, <2>1
    <2>4. pc["health"] = "check" /\ current' = current
      BY <1>8 DEF Check
    <2> HIDE DEF m
    <2>5. HealthCopyOK'
      BY <1>0, <1>1, <2>2, <2>3, <2>4 DEF CopiesInv, HealthCopyOK
    <2>6. MinIOCopyOK' /\ StatusCopyOK'
      BY <1>0, <1>1, <2>3, <2>4 DEF CopiesInv, MinIOCopyOK, StatusCopyOK
    <2>7. \A e \in Controller : pc'[e] \in StagesOf(e)
      BY <1>0, <2>3 DEF CopiesInv, StagesOf
    <2> QED  BY <1>0, <1>1, <2>5, <2>6, <2>7 DEF CopiesInv
  <1> QED  BY <1>4, <1>5, <1>6, <1>7, <1>8 DEF Compute

\* Every step keeps the invariant of the copies.
LEMMA CopiesStep ==
    ASSUME TypeOK, CopiesInv, [Next]_vars
    PROVE  CopiesInv'
  <1> USE DEF CopiesInv, MinIOCopyOK, StatusCopyOK, HealthCopyOK
  <1>1. CASE Sync
    BY <1>1 DEF Sync
  <1>2. CASE PodsChange \/ Resync
    <2>1. UNCHANGED <<object, seen, seenCurrent, pc, copy, current>>
      BY <1>2 DEF PodsChange, Resync
    <2> QED  BY <2>1
  <1>3. CASE Restart
    BY <1>3 DEF Restart, StagesOf, Controller
  <1>4. CASE UNCHANGED vars
    BY <1>4 DEF vars
  <1>5. ASSUME NEW c \in Controller, Step(c)
        PROVE  Write(c) \/ Compute(c)
    BY <1>5 DEF Step, Write, Compute
  <1> QED  BY <1>1, <1>2, <1>3, <1>4, <1>5, WriteCopies, ComputeCopies DEF Next

-----------------------------------------------------------------------------
(***************************************************************************)
(* The refinement.                                                         *)
(***************************************************************************)
\* A step of the three controllers is a step of the register, or leaves it alone.
LEMMA RegisterStep ==
    ASSUME TypeOK, CopiesInv, [Next]_vars
    PROVE  [Register!Next]_object
  <1> SUFFICES ASSUME object' # object
               PROVE  Register!Next
    OBVIOUS
  <1>1. PICK c \in Controller : Write(c)
    BY DEF Next, Step, Write, Sync, PodsChange, Resync, Restart, BeginMinIO, Work, BeginStatus,
       BeginHealth, Check, Begin, vars
  <1>2. /\ c \in current /\ object' = copy[c] /\ pc[c] \in Writing
        /\ object \in Register!MinIOStatus /\ copy[c] \in Register!MinIOStatus
        /\ pc[c] \in StagesOf(c) /\ pc[c] # "idle"
    BY <1>1, WriteStep DEF TypeOK, CopiesInv, Writing
  <1>3. CASE c = "minio"
    <2>1. object' = [object EXCEPT !.status = copy[c].status]
      BY <1>2, <1>3 DEF CopiesInv, MinIOCopyOK, Register!MinIOStatus
    <2>2. /\ copy[c].status \in {"None", "Running", "Failed"}
          /\ copy[c].status = "None" => object.status = ""
      BY <1>2, <1>3 DEF CopiesInv, MinIOCopyOK, StagesOf, Writing
    <2> QED  BY <2>1, <2>2 DEF Register!Next, Register!MinIOWrites
  <1>4. CASE c = "status"
    <2>1. object' = [object EXCEPT !.status = copy[c].status, !.pools = copy[c].pools]
      BY <1>2, <1>4 DEF CopiesInv, StatusCopyOK, Register!MinIOStatus
    <2>2. /\ copy[c].status \in {"Completed", "Running", "Failed"}
          /\ copy[c].pools \in PoolsStatus
      BY <1>2, <1>4 DEF CopiesInv, StatusCopyOK, Register!MinIOStatus
    <2>3. object'.pools = copy[c].pools
      BY <1>2
    <2> QED  BY <2>1, <2>2, <2>3 DEF Register!Next, Register!StatusWrites
  <1>5. CASE c = "health"
    <2>1. object' = [object EXCEPT !.health = copy[c].health]
      BY <1>2, <1>5 DEF CopiesInv, HealthCopyOK, Register!MinIOStatus
    <2>2. /\ copy[c].health \in {"Unknown", "Health", "UnHealth"}
          /\ copy[c].health # "Unknown" => object.status = "Completed"
      BY <1>2, <1>5 DEF CopiesInv, HealthCopyOK, StagesOf, Writing
    <2> QED  BY <2>1, <2>2 DEF Register!Next, Register!HealthWrites
  <1> QED  BY <1>3, <1>4, <1>5 DEF Controller

\* The three updateMinIOStatus functions, with their caches, conflicts, retries and lost
\* answers, implement the register: no controller takes back what another has stored, None
\* never replaces a later status, and a verdict is stored only on a completed deployment
\* (minio_controller.go:221-242, minio_status_controller.go:170-191,
\* minio_health_checker_controller.go:36-86).
THEOREM WritersImplementRegister == Spec => ImplementsRegister
  <1>1. Init => Register!Init
    BY DEF Init, Register!Init, Register!Blank, Blank
  <1>2. Init => CopiesInv
    BY DEF Init, CopiesInv, MinIOCopyOK, StatusCopyOK, HealthCopyOK, StagesOf, Controller
  <1>3. TypeOK /\ CopiesInv /\ [Next]_vars => CopiesInv'
    BY CopiesStep
  <1>4. TypeOK /\ CopiesInv /\ [Next]_vars => [Register!Next]_object
    BY RegisterStep
  <1> QED  BY <1>1, <1>2, <1>3, <1>4, StatusTypeCorrect, PTL
           DEF Spec, ImplementsRegister, Register!Spec

=============================================================================
