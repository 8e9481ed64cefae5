----------------------- MODULE MCChallengeGeneration -----------------------
(***************************************************************************)
(* Instances of ChallengeGeneration for TLC.                               *)
(***************************************************************************)
EXTENDS ChallengeGeneration

(* A roster in the order of the context but for the last two servers.      *)
SwappedIndices == [n \in Nodes |-> IF n = N - 1 THEN N - 2
                                   ELSE IF n = N - 2 THEN N - 1 ELSE n]

(* No faults; nodes that may stop or refuse; and on top of that two that   *)
(* may send wrong values.                                                  *)
Scenarios ==
    {[mayRefuse |-> {}, faulty |-> {}, mayCrash |-> {}],
     [mayRefuse |-> {2}, faulty |-> {}, mayCrash |-> Nodes],
     [mayRefuse |-> {2}, faulty |-> {0, 3}, mayCrash |-> Nodes]}
=============================================================================
