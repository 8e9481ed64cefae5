--------------------------- MODULE TagAgreement ---------------------------
(***************************************************************************)
(* What the servers promise a client that authenticates: a tag that each   *)
(* of them has put its secret into once, or none; a tag that depends on    *)
(* the client only, and not on who was asked or on the order of the        *)
(* servers; and at most one answer.                                        *)
(***************************************************************************)
CONSTANTS Server, Client,
          TagOf,       \* the tag of each client
          Unproven,    \* the clients that cannot prove that they are members
          NoTag,       \* no tag yet
          Nobody       \* no contribution any more

VARIABLES
    client,       \* who authenticates
    contributed,  \* the servers that have put their secret in so far
    tag,          \* what the servers have agreed on
    answer        \* what the client has: nothing yet, the tag, or an error

vars == <<client, contributed, tag, answer>>

Init == client \in Client /\ contributed = {} /\ tag = NoTag /\ answer = "none"

(* One more server puts its secret in.                                     *)
Contribute ==
    /\ contributed # Nobody /\ client \notin Unproven
    /\ \E s \in Server \ contributed : contributed' = contributed \cup {s}
    /\ UNCHANGED <<client, tag, answer>>

(* All of them have: the tag is agreed on, even if the client has given up. *)
Agree ==
    /\ contributed = Server /\ tag = NoTag
    /\ tag' = TagOf[client]
    /\ UNCHANGED <<client, contributed, answer>>

(* A server does not go along, or what it sent is lost: nobody starts      *)
(* again.                                                                  *)
GiveUp ==
    /\ tag = NoTag /\ contributed' = Nobody
    /\ UNCHANGED <<client, tag, answer>>

Answer ==
    /\ answer = "none" /\ tag # NoTag
    /\ answer' = "tag"
    /\ UNCHANGED <<client, contributed, tag>>

(* The client gets an error; the servers may go on, or not have begun.     *)
Refuse ==
    /\ answer = "none"
    /\ answer' = "error"
    /\ contributed' = contributed \/ (contributed = {} /\ contributed' = Nobody)
    /\ UNCHANGED <<client, tag>>

Next == Contribute \/ Agree \/ GiveUp \/ Answer \/ Refuse

Spec == Init /\ [][Next]_vars
=============================================================================
