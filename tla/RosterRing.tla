---------------------------- MODULE RosterRing ----------------------------
(***************************************************************************)
(* The servers of one context.  A node is named by its position in the     *)
(* context's roster; the index of its daga.Server in the context may       *)
(* differ.  The ring of the challenge generation and of the                *)
(* authentication follows the roster, everything else the index.           *)
(***************************************************************************)
EXTENDS PointSlices, FiniteSets

CONSTANTS N,            \* number of servers of the context
          ServerIndex   \* the index in the context of each node

Nodes == 0 .. N - 1
Indices == Nodes

ASSUME NAssumption == N \in Nat \ {0}
ASSUME ServerIndexAssumption ==
    /\ ServerIndex \in [Nodes -> Indices]
    /\ \A m, n \in Nodes : ServerIndex[m] = ServerIndex[n] => m = n
    /\ \A i \in Indices : \E n \in Nodes : ServerIndex[n] = i

NoNode == -1

(* context.Roster.Publics(), the keys named by the nodes.                  *)
Roster == [i \in 1 .. N |-> i - 1]

(* (<name>_<mistake>: a mistake a change of the code could make.)          *)
(* The own index in the context taken for the position in the roster.      *)
NextServer_ByIndex(n) == NextNode(ServerIndex[n], Roster, Roster, NoNode)

(* sendToNextServer's choice of the next server.                           *)
NextServer(n) == NextNode(IndexOf(Roster, n), Roster, Roster, NoNode)
=============================================================================
