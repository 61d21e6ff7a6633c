-------------------------- MODULE MCMinIOReconciler --------------------------
(***************************************************************************)
(* Instances of MinIOReconciler for TLC.                                   *)
(***************************************************************************)
EXTENDS MinIOProperties

MCPoolName == {"a", "b"}
MCValue == {"", Unset, Empty, "v1", "v2", "v3", "p", "zone"}

MCPool(name, servers) ==
    [name |-> name, servers |-> servers, volumesPerServer |-> 1, nodeSelector |-> Unset]

MCSpec(pools, image) ==
    [EmptySpec EXCEPT !.pools = pools, !.image = image]

A == MCPool("a", 2)
B == MCPool("b", 1)

OneV1 == MCSpec(<<A>>, "v1")
OneV2 == MCSpec(<<A>>, "v2")
TwoV1 == MCSpec(<<A, B>>, "v1")
TwoV2 == MCSpec(<<A, B>>, "v2")

\* Certificates, a node port for MinIO, an empty list that does not survive the
\* ControllerRevision; then a new node selector and probe as well.
Rich == [MCSpec(<<B>>, "v1") EXCEPT !.enableCert = TRUE, !.expose = {"minio"},
                                    !.rest = Empty, !.probe = "p"]
Moved == [Rich EXCEPT !.pools = <<[B EXCEPT !.nodeSelector = "zone"], [A EXCEPT !.servers = 1]>>,
                      !.probe = Unset]

\* Two pools of one name, the second with an empty node selector, and resources that come
\* back from the ControllerRevision in another form.
Twin == [MCSpec(<<B, [B EXCEPT !.nodeSelector = Empty]>>, "v1") EXCEPT !.resources = Empty]

MCInitial == {OneV1}
UpgradeSpecs == {OneV1, OneV2}
UpgradeEdits == {<<OneV1, OneV2>>}

\* The smallest instance with a claim and a pod.
SmallSpecs == {MCSpec(<<B>>, "v1")}
NoEdits == {}

GrowSpecs == {OneV1, TwoV1, TwoV2}
GrowEdits == {<<OneV1, TwoV1>>, <<OneV1, TwoV2>>, <<TwoV1, TwoV2>>}

\* The console on a node port: the headless service is refused one, and no round succeeds.
Exposed == [OneV1 EXCEPT !.expose = {"console"}]

\* An edit may be taken back while a cache still shows what was before it.
SafetySpecs == {OneV1, TwoV2, Rich, Moved, Exposed, Twin}
SafetyInitial == {OneV1, Rich, Exposed, Twin}
SafetyEdits == {<<OneV1, TwoV2>>, <<TwoV2, OneV1>>, <<Rich, Moved>>}

\* The disturbances of a run: each kind so often, and so many in all.
Disturbed(kinds, all) ==
    [d \in Disturbance |-> IF d = "all" THEN all ELSE IF d \in DOMAIN kinds THEN kinds[d] ELSE 0]

SafetyBudget == Disturbed([faults |-> 1, edits |-> 2, restarts |-> 1, foreign |-> 1], 3)
RolloutBudget == Disturbed([edits |-> 1], 1)
GrowBudget == Disturbed([edits |-> 2], 2)
ConvergenceBudget == Disturbed([edits |-> 2, foreign |-> 1], 2)
CleanupBudget == Disturbed([faults |-> 1, deletions |-> 1, drifts |-> 1], 2)
OneFault == Disturbed([faults |-> 1], 1)
Undisturbed == Disturbed(<< >>, 0)
=============================================================================
