-------------------------- MODULE ContextAgreement --------------------------
(***************************************************************************)
(* What a run of the context generation protocol promises, without the     *)
(* protocol: the request is decided at most once, either on one context or *)
(* as a failure, and a node may start serving only the context decided on. *)
(***************************************************************************)
CONSTANTS Nodes,      \* the nodes of the roster
          Agreed,     \* the contexts that may be agreed on
          Undecided, Failed, NoContext

VARIABLES decision, served

vars == <<decision, served>>

Init ==
    /\ decision = Undecided
    /\ served = [n \in Nodes |-> NoContext]

Decide ==
    /\ decision = Undecided
    /\ decision' \in Agreed \cup {Failed}
    /\ UNCHANGED served

Serve(n) ==
    /\ decision \in Agreed
    /\ served[n] = NoContext
    /\ served' = [served EXCEPT ![n] = decision]
    /\ UNCHANGED decision

Next == Decide \/ \E n \in Nodes : Serve(n)

Spec == Init /\ [][Next]_vars
=============================================================================
