--------------------------- MODULE MCDagaSocket ---------------------------
(***************************************************************************)
(* An instance of DagaSocket for TLC: two conodes of one host, the second  *)
(* on the port of the first one's web sockets.                             *)
(***************************************************************************)
EXTENDS DagaSocket

CONSTANT localhost

TwoConodes == {[host |-> localhost, port |-> 2], [host |-> localhost, port |-> 3]}
=============================================================================
