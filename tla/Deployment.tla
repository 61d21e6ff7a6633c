------------------------------ MODULE Deployment ------------------------------
(***************************************************************************)
(* The deployment of a MinIO instance as its user may think of it: what is *)
(* deployed is recorded, three services are created one after the other,   *)
(* then claims and pods, the pods of a pool in the order of their numbers  *)
(* and as the record has them; nothing but the record is taken away before *)
(* the instance ends, and the claims not even then.                        *)
(***************************************************************************)
EXTENDS Naturals

CONSTANTS
    Recordable,     \* the specifications as they are recorded
    Service,        \* the services
    Earlier,        \* Earlier[k]: the services that come before k
    Volume,         \* the volumes that may be claimed
    Called          \* <<s, n, c>>: s calls for a pod n of the content c

VARIABLES
    live,           \* the instance is there and is not being deleted
    recorded,       \* the specification that is recorded, if there is one
    services,
    claims,
    pods            \* the content of each pod, by name <<pool, number>>

vars == <<live, recorded, services, claims, pods>>

Init ==
    /\ live = TRUE
    /\ recorded = {}
    /\ services = {} /\ claims = {}
    /\ pods = << >>

-----------------------------------------------------------------------------
Record ==
    /\ recorded = {}
    /\ \E s \in Recordable : recorded' = {s}
    /\ UNCHANGED <<live, services, claims, pods>>

Forget ==
    /\ recorded' = {}
    /\ UNCHANGED <<live, services, claims, pods>>

OpenService ==
    /\ \E k \in Service : /\ live => Earlier[k] \subseteq services
                          /\ services' = services \cup {k}
    /\ UNCHANGED <<live, recorded, claims, pods>>

ClaimVolume ==
    /\ live => services = Service
    /\ \E v \in Volume : claims' = claims \cup {v}
    /\ UNCHANGED <<live, recorded, services, pods>>

\* The pods of the same pool with lower numbers.
Before(n) == {<<n[1], i>> : i \in 0..n[2] - 1}

CreatePod ==
    /\ \E call \in Called :
          LET n == call[2]
          IN  /\ n \notin DOMAIN pods
              /\ live => /\ recorded = {call[1]}
                         /\ services = Service
                         /\ Before(n) \subseteq DOMAIN pods
              /\ pods' = [m \in DOMAIN pods \cup {n} |-> IF m = n THEN call[3] ELSE pods[m]]
    /\ UNCHANGED <<live, recorded, services, claims>>

\* Of a pod only the image is replaced, by the one that is recorded or so that the pod is
\* wholly as some specification calls for it.
UpdatePod ==
    /\ \E n \in DOMAIN pods, s \in Recordable :
          LET new == [pods[n] EXCEPT !.image = s.image]
          IN  /\ live => recorded = {s} \/ <<s, n, new>> \in Called
              /\ pods' = [pods EXCEPT ![n] = new]
    /\ UNCHANGED <<live, recorded, services, claims>>

End ==
    /\ live /\ live' = FALSE
    /\ UNCHANGED <<recorded, services, claims, pods>>

\* Of an instance that has ended, everything goes but its claims.
Collect ==
    /\ ~live
    /\ \/ UNCHANGED pods /\ \E k \in services : services' = services \ {k}
       \/ UNCHANGED services /\ \E n \in DOMAIN pods :
             pods' = [m \in DOMAIN pods \ {n} |-> pods[m]]
    /\ UNCHANGED <<live, recorded, claims>>

Next ==
    \/ Record \/ Forget
    \/ OpenService \/ ClaimVolume \/ CreatePod \/ UpdatePod
    \/ End \/ Collect

Spec == Init /\ [][Next]_vars

-----------------------------------------------------------------------------
\* What a living instance has is closed under what comes before it.
InOrder ==
    live =>
        /\ \A k \in services : Earlier[k] \subseteq services
        /\ claims # {} \/ DOMAIN pods # {} => services = Service
        /\ \A n \in DOMAIN pods : Before(n) \subseteq DOMAIN pods

\* Every step of a deployment keeps its order: what is added comes after what it relies on,
\* and nothing is taken from a living instance (Reconcile, minio_controller.go:127-192).
LEMMA OrderStep ==
    ASSUME InOrder, [Next]_vars
    PROVE  InOrder'
  <1> SUFFICES ASSUME live'
               PROVE  /\ \A k \in services' : Earlier[k] \subseteq services'
                      /\ claims' # {} \/ DOMAIN pods' # {} => services' = Service
                      /\ \A n \in DOMAIN pods' : Before(n) \subseteq DOMAIN pods'
    BY DEF InOrder, Before
  <1>1. CASE Record \/ Forget
    BY <1>1 DEF Record, Forget, InOrder
  <1>2. CASE OpenService
    BY <1>2 DEF OpenService, InOrder
  <1>3. CASE ClaimVolume
    BY <1>3 DEF ClaimVolume, InOrder
  <1>4. CASE CreatePod
    <2>1. PICK call \in Called :
            /\ services = Service /\ Before(call[2]) \subseteq DOMAIN pods
            /\ pods' = [m \in DOMAIN pods \cup {call[2]} |->
                           IF m = call[2] THEN call[3] ELSE pods[m]]
      BY <1>4 DEF CreatePod
    <2>2. DOMAIN pods' = DOMAIN pods \cup {call[2]}
      BY <2>1
    <2> QED  BY <1>4, <2>1, <2>2 DEF CreatePod, InOrder
  <1>5. CASE UpdatePod
    <2>1. DOMAIN pods' = DOMAIN pods
      BY <1>5 DEF UpdatePod
    <2> QED  BY <1>5, <2>1 DEF UpdatePod, InOrder
  <1>6. CASE End \/ Collect
    BY <1>6 DEF End, Collect
  <1>7. CASE UNCHANGED vars
    BY <1>7 DEF vars, InOrder
  <1> QED  BY <1>1, <1>2, <1>3, <1>4, <1>5, <1>6, <1>7 DEF Next
=============================================================================
