--------------------------- MODULE MCClientProof ---------------------------
(***************************************************************************)
(* Instances of ClientProof for TLC.                                       *)
(***************************************************************************)
EXTENDS ClientProof

(* A context with one client, which both sides refuse, and two others.     *)
MCSizes == 1 .. 3
=============================================================================
