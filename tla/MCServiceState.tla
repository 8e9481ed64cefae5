-------------------------- MODULE MCServiceState --------------------------
(***************************************************************************)
(* Instances of ServiceState for TLC.                                      *)
(***************************************************************************)
EXTENDS ServiceState

CONSTANTS c1, c2, c3, r1, r2, s1, s2

(* c1 and c2 create contexts of the same service.                          *)
MCServiceOf == [g \in Creators |-> IF g = c3 THEN s2 ELSE s1]
MCAsked == [r \in Requesters |-> IF r = r1 THEN c1 ELSE c2]
=============================================================================
