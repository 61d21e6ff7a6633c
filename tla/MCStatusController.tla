-------------------------- MODULE MCStatusController --------------------------
(***************************************************************************)
(* Instances of StatusController for TLC.                                  *)
(***************************************************************************)
EXTENDS StatusController

MCPoolName == {"a", "b"}
MCValue == {"", Unset, Empty, "v1"}

MCPool(name, servers) ==
    [name |-> name, servers |-> servers, volumesPerServer |-> 1, nodeSelector |-> Unset]

One == [EmptySpec EXCEPT !.pools = <<MCPool("a", 2)>>, !.image = "v1", !.expose = {"minio"}]
Two == [One EXCEPT !.pools = <<MCPool("b", 1), MCPool("a", 2)>>, !.expose = {}]
MCSpecs == {One, Two}

MCPodLists == {<< >>, <<"Pending">>, <<"Failed", "Running">>}
MCLeftovers == {[claims |-> "",      pods |-> [p \in MCPoolName |-> << >>]],
                [claims |-> "bound", pods |-> [p \in MCPoolName |-> <<"Pending">>]]}
MCClaimLists == {"", "bound"}

MCBudget == [mishaps |-> 1, changes |-> 2, all |-> 2]
=============================================================================
