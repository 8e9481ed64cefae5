-------------------------- MODULE CommonChallenge --------------------------
(***************************************************************************)
(* What the servers promise a client that asks for a challenge: a          *)
(* challenge all of them have a share in, each share fixed before the      *)
(* challenge is made, and at most one answer.  A challenge, the sum of the *)
(* shares, is the set of them.                                             *)
(***************************************************************************)
CONSTANTS Server, Share,
          NoShares, NoChallenge  \* none yet

VARIABLES
    shares,    \* the shares the servers have committed to
    challenge, \* what the servers have agreed on
    answer     \* what the client has: nothing yet, the challenge, or an error

vars == <<shares, challenge, answer>>

Init == shares = NoShares /\ challenge = NoChallenge /\ answer = "none"

(* All servers commit.                                                     *)
Commit ==
    /\ shares = NoShares
    /\ shares' \in [Server -> Share]
    /\ UNCHANGED <<challenge, answer>>

(* Agree on the challenge, once, even if the client has given up.          *)
Agree ==
    /\ shares # NoShares /\ challenge = NoChallenge
    /\ challenge' = {shares[s] : s \in Server}
    /\ UNCHANGED <<shares, answer>>

Answer ==
    /\ answer = "none" /\ challenge # NoChallenge
    /\ answer' = "challenge"
    /\ UNCHANGED <<shares, challenge>>

Refuse ==
    /\ answer = "none"
    /\ answer' = "error"
    /\ UNCHANGED <<shares, challenge>>

Next == Commit \/ Agree \/ Answer \/ Refuse

Spec == Init /\ [][Next]_vars
=============================================================================
