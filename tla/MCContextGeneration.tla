------------------------ MODULE MCContextGeneration ------------------------
(***************************************************************************)
(* Instances of ContextGeneration for TLC.                                 *)
(***************************************************************************)
EXTENDS ContextGeneration

CONSTANTS x, y, z       \* client keys

MCClients == {x, y, z}
TwoSubscribers == <<x, y>>

(* Another member, a member less, one member twice, another order.         *)
MCOtherGroups == {<<x, z>>, <<x>>, <<x, x>>, <<y, x>>}
=============================================================================
