---------------------------- MODULE MCWebLogin ----------------------------
(***************************************************************************)
(* An instance of WebLogin for TLC.                                        *)
(***************************************************************************)
EXTENDS WebLogin

CONSTANTS c1, k1, k2, t1, t2

(* Two members: users that can be told apart.                              *)
AllMembers == [c \in Contexts |-> {k1, k2}]
AllTags == Contexts \X Clients
=============================================================================
