---------------------------- MODULE MCDagaAuth ----------------------------
(***************************************************************************)
(* Instances of DagaAuth for TLC.                                          *)
(***************************************************************************)
EXTENDS DagaAuth

(* A roster in the order of the context, and one where it is not for the   *)
(* last two servers.                                                       *)
SameIndices == [n \in Nodes |-> n]
SwappedIndices == [n \in Nodes |-> IF n = N - 1 THEN N - 2
                                   ELSE IF n = N - 2 THEN N - 1 ELSE n]

AllNodes == Nodes
GoodRequest == [proof |-> TRUE, wrong |-> {}]
(* A bad proof, and commitments that some of the servers find wrong.       *)
AllRequests == {GoodRequest, [proof |-> FALSE, wrong |-> {}]}
                 \cup {[proof |-> TRUE, wrong |-> w] : w \in (SUBSET Indices) \ {{}}}
(* The second commitment replaced, as client_test.go does.                 *)
MisbehavingRequest == [proof |-> TRUE, wrong |-> {0, 1}]

Scenario(mayRefuse, faulty, mayCrash, requests) ==
    [mayRefuse |-> mayRefuse, faulty |-> faulty, mayCrash |-> mayCrash,
     requests |-> requests]

(* No faults, or nodes that may stop and one that may refuse, for any      *)
(* client; one or two servers that deviate.                                *)
MCFaultScenarios ==
         {Scenario({}, {}, {}, {GoodRequest}), Scenario({0}, {}, Nodes, AllRequests)}
    \cup {Scenario({}, {m, n}, {}, AllRequests) : m, n \in Nodes}

MisbehavingClient == {Scenario({}, {}, {}, {MisbehavingRequest})}
=============================================================================
