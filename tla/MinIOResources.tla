--------------------------- MODULE MinIOResources ---------------------------
(***************************************************************************)
(* The data of the operator: the specification of a MinIO instance and the *)
(* pure functions of src/utils and src/api/v1alpha1 that turn it into the  *)
(* objects the controllers create.  Nothing here has state.                *)
(*                                                                         *)
(* What is kept of an object is what the code compares, or what another    *)
(* object refers to:                                                       *)
(*   image      of the container: all that may be changed in a pod that    *)
(*              exists                                                     *)
(*   resources  stands for the other fields MinioServerNeedToUpdate        *)
(*              compares unconditionally (resources, pull policy, pull     *)
(*              secret)                                                    *)
(*   probe      stands for the pointers it compares only when both are set *)
(*              (liveness, readiness, startup, affinity)                   *)
(*   rest       stands for the fields it does not compare (env, mount      *)
(*              path, tolerations, lifecycle, service account, ...)        *)
(***************************************************************************)
EXTENDS Integers, Sequences

CONSTANTS
    PoolName,       \* the names of pools
    Value           \* the values of the fields that are only copied and compared

Unset == "unset"      \* a nil pointer, map or slice
Empty == "empty"      \* a map or slice that is present and has no element

ASSUME ValueAssumption == {"", Unset, Empty} \subseteq Value

(***************************************************************************)
(* The specification of a MinIO instance.                                  *)
(***************************************************************************)
Pool == [name : PoolName, servers : Nat, volumesPerServer : Nat, nodeSelector : Value]

MinIOSpec == [pools      : Seq(Pool),
              image      : Value,
              resources  : Value,
              probe      : Value,
              rest       : Value,
              enableCert : BOOLEAN,
              expose     : SUBSET {"minio", "console"},
              reclaim    : BOOLEAN]

\* The zero value: oldMinio.Spec when no ControllerRevision was read.
EmptySpec == [pools |-> << >>, image |-> "", resources |-> Unset, probe |-> Unset,
              rest |-> Unset, enableCert |-> FALSE, expose |-> {}, reclaim |-> FALSE]

\* What JSON gives back of a map or slice: omitempty does not write an empty one.
Marshalled(v) == IF v = Empty THEN Unset ELSE v

MarshalledPool(pool) == [pool EXCEPT !.nodeSelector = Marshalled(@)]

\* What a ControllerRevision gives back of a specification.  The probes are pointers,
\* which omitempty writes when they are set.
RoundTrip(spec) ==
    [spec EXCEPT !.pools     = [k \in DOMAIN spec.pools |-> MarshalledPool(spec.pools[k])],
                 !.resources = Marshalled(@),
                 !.rest      = Marshalled(@)]

(***************************************************************************)
(* Pods and volume claims.  The servers of a specification are the pairs   *)
(* <<k, i>> of a pool's index and a server's number.  A pod is named       *)
(* <<pool, i>>, a claim <<pool, i, j>>; the pod refers to its claims by    *)
(* name.                                                                   *)
(***************************************************************************)
\* Mutant: servers numbered from one too low.
ServersFromMinusOne(pools) ==
    UNION {{<<k, i - 1>> : i \in 0..pools[k].servers - 1} : k \in DOMAIN pools}

Servers(pools) ==
    UNION {{<<k, i>> : i \in 0..pools[k].servers - 1} : k \in DOMAIN pools}

\* The code goes through the pools in order, and through the servers of each.
Precedes(x, y) == x[1] < y[1] \/ (x[1] = y[1] /\ x[2] <= y[2])

PodName == PoolName \X Nat
PodContent == [image : Value, resources : Value, probe : Value, rest : Value,
               nodeSelector : Value, volumes : Nat, tls : BOOLEAN]

NameOf(pools, x) == <<pools[x[1]].name, x[2]>>

\* The pod as it is sent, which is again without empty maps and slices.
PodOf(spec, pool) ==
    [image |-> spec.image, resources |-> Marshalled(spec.resources), probe |-> spec.probe,
     rest |-> Marshalled(spec.rest), nodeSelector |-> Marshalled(pool.nodeSelector),
     volumes |-> pool.volumesPerServer, tls |-> spec.enableCert]

\* The API server's validation of an update: of a pod that exists only the image changes.
ValidPodUpdate(old, new) == new = [old EXCEPT !.image = new.image]

ClaimName == PoolName \X Nat \X Nat

\* The claims the pod of that name refers to.
ClaimsOf(name, pod) == {<<name[1], name[2], j>> : j \in 0..pod.volumes - 1}

NewClaims(pools) ==
    UNION {{<<pools[x[1]].name, x[2], j>> : j \in 0..pools[x[1]].volumesPerServer - 1} :
              x \in Servers(pools)}

(***************************************************************************)
(* The difference between the recorded specification and the new one.      *)
(***************************************************************************)
\* Mutant: a node selector counts when it differs.
NeedToUpdateIfMoved(old, new, oldPool, newPool) ==
    \/ old.image # new.image
    \/ old.resources # new.resources
    \/ old.probe # Unset /\ new.probe # Unset /\ old.probe # new.probe
    \/ oldPool.nodeSelector # newPool.nodeSelector

NeedToUpdate(old, new, oldPool, newPool) ==
    \/ old.image # new.image
    \/ old.resources # new.resources
    \/ old.probe # Unset /\ new.probe # Unset /\ old.probe # new.probe
    \/ oldPool.nodeSelector = newPool.nodeSelector

\* Mutant: pools are created with the first deployment only.
AddedAtFirst(old, new) == IF old.pools = << >> THEN Servers(new.pools) ELSE {}

\* The servers of the new pools whose name is new.
AddedServers(old, new) ==
    {x \in Servers(new.pools) :
        \A k \in DOMAIN old.pools : old.pools[k].name # new.pools[x[1]].name}

\* The servers of the pools to update as they were: updatePools has the old pools.
UpdatedServers(old, new) ==
    {x \in Servers(old.pools) :
        \E k \in DOMAIN new.pools :
            /\ new.pools[k].name = old.pools[x[1]].name
            /\ NeedToUpdate(old, new, old.pools[x[1]], new.pools[k])}

(***************************************************************************)
(* Services.  "ci" is named like the instance, "console" and "hl" have a   *)
(* suffix.  Annotations are always nil and the selector is always the      *)
(* instance's label, so neither is kept.                                   *)
(***************************************************************************)
ServiceKind == {"ci", "console", "hl"}

ServiceContent == [port : {"http-minio", "https-minio", "http-console", "http-minio-9000",
                           "https-minio-9000", "other"},
                   labelled : BOOLEAN,
                   headless : BOOLEAN,
                   nodePort : BOOLEAN]

\* ServiceContent for a service that is not there.
NoService == [port |-> "other", labelled |-> FALSE, headless |-> FALSE, nodePort |-> FALSE]

NewServiceForMinIO(spec) ==
    [port     |-> IF spec.enableCert THEN "https-minio" ELSE "http-minio",
     labelled |-> TRUE,
     headless |-> FALSE,
     nodePort |-> "minio" \in spec.expose]

NewConsoleServiceForMinIO(spec) ==
    [port |-> "http-console", labelled |-> FALSE, headless |-> FALSE,
     nodePort |-> "console" \in spec.expose]

NewHeadlessServiceForMinIO(spec) ==
    [port     |-> IF spec.enableCert THEN "https-minio-9000" ELSE "http-minio-9000",
     labelled |-> TRUE,
     headless |-> TRUE,
     nodePort |-> FALSE]

(***************************************************************************)
(* Where clients look for the services.                                    *)
(***************************************************************************)
MinIOPort == 9000
MinIOPortSVC == 80
MinIOTLSPortSVC == 443
ConsolePort == 9090

\* The port under which a service is reached; none of these for an edited one.
PortOf(svc) ==
    CASE svc.port = "http-minio"   -> MinIOPortSVC
      [] svc.port = "https-minio"  -> MinIOTLSPortSVC
      [] svc.port = "http-console" -> ConsolePort
      [] svc.port \in {"http-minio-9000", "https-minio-9000"} -> MinIOPort
      [] svc.port = "other"        -> 0

\* The service and the port the health check connects to.
MinIOServerHostAddress(spec) ==
    [kind |-> "ci", port |-> IF spec.enableCert THEN MinIOPortSVC ELSE MinIOTLSPortSVC]

\* The service each check creates when it is missing.
CreatedService(kind, spec) ==
    CASE kind = "ci"      -> NewServiceForMinIO(spec)
      [] kind = "console" -> NewConsoleServiceForMinIO(spec)
      [] kind = "hl"      -> NewHeadlessServiceForMinIO(spec)

\* The service each check compares with: checkMinIOHLSvc takes the console's.
ExpectedService(kind, spec) ==
    IF kind = "ci" THEN NewServiceForMinIO(spec) ELSE NewConsoleServiceForMinIO(spec)

\* Labels of svc that are not expected are no mismatch, and clusterIP is not compared.
MatchesSpecification(svc, expected) ==
    /\ expected.labelled => svc.labelled
    /\ svc.port = expected.port
    /\ svc.nodePort = expected.nodePort

\* What the API server stores for an update without a clusterIP: the allocated one,
\* "None" included, is carried over.
StoredService(read, expected) == [expected EXCEPT !.headless = read.headless]

\* The API server's validation: a service without a clusterIP has no node port.
ValidService(svc) == ~(svc.headless /\ svc.nodePort)
=============================================================================
