---------------------------- MODULE ClientProof ----------------------------
(***************************************************************************)
(* The client's proof of knowledge (sign/daga/client_proof.go): how        *)
(* newClientProof drives a proof.Prover and verifyClientProof a            *)
(* proof.Verifier, each running in a goroutine of its own, over two        *)
(* buffered and two unbuffered channels.                                   *)
(*                                                                         *)
(* The prover and the verifier are those of kyber (external) for an        *)
(* or-predicate with one clause per client of the context: three           *)
(* commitments and two responses per clause, and a slice of sub-challenges *)
(* that is exchanged only when there are several clauses.  Commitments and *)
(* responses are known by their number; a sub-challenge by its clause and, *)
(* for the clause the client proves, by the challenge it is computed from. *)
(***************************************************************************)
EXTENDS Integers, Sequences

CONSTANTS Sizes,        \* numbers of clients a context may have
          Challenges    \* master challenges

ASSUME SizesAssumption == Sizes \subseteq Nat \ {0}
ASSUME ChallengesAssumption == Challenges \subseteq Nat \ {0}

VARIABLES
    clients,    \* number of clients of the context
    index,      \* the client's index
    client,     \* the goroutine of NewAuthenticationMessage
    prover,     \* the goroutine of the Prover
    proverErr,  \* what the Prover returned: whether an error
    pCommits, pResponses,   \* commitsChan and responsesChan of clientProverCtx
    proof,      \* the ClientProof as far as it is built
    message,    \* the ClientProof a server received
    checker,    \* the server's goroutine in verifyAuthenticationMessage
    verifier,   \* the goroutine of the Verifier
    vCommits, vResponses,   \* commitsChan and responsesChan of clientVerifierCtx
    heard       \* what the Verifier has received

clientVars == <<client, prover, proverErr, pCommits, pResponses, proof>>
serverVars == <<message, checker, verifier, vCommits, vResponses, heard>>
vars == <<clients, index, clientVars, serverVars>>

NoChallenge == 0
SubChallenge(k, c) == [clause |-> k, from |-> c]

(* What kyber's or-predicate makes of the challenge c: a sub-challenge of  *)
(* its own choice for every clause but d, and for d what is left of c.     *)
SubChallenges(n, d, c) ==
    [k \in 1 .. n |-> SubChallenge(k - 1, IF k - 1 = d THEN c ELSE NoChallenge)]

Clause(i, perClause) == (i - 1) \div perClause
Response(j, C) == [number |-> j, to |-> C[Clause(j, 2) + 1]]

(* A transcript: T, C and R with the challenge cs, and what the servers    *)
(* signed of it (see Challenge.VerifySignatures).                          *)
Transcript(T, C, R, cs, signed) == [T |-> T, C |-> C, R |-> R, cs |-> cs, signed |-> signed]
Signed(cs, T) == [cs |-> cs, T |-> T]
Commitments(n) == [i \in 1 .. 3 * n |-> i]
FullTranscript(n, d, c) ==
    LET C == SubChallenges(n, d, c)
    IN  Transcript(Commitments(n), C, [j \in 1 .. 2 * n |-> Response(j, C)], c,
                   Signed(c, Commitments(n)))
Empty == Transcript(<<>>, <<>>, <<>>, NoChallenge, Signed(NoChallenge, <<>>))

Channel == [queue |-> <<>>, closed |-> FALSE]
Put(chan, item) == [chan EXCEPT !.queue = Append(@, item)]
Get(chan) == [chan EXCEPT !.queue = Tail(@)]
Close(chan) == [chan EXCEPT !.closed = TRUE]

SubChallengeType ==
    [clause : 0 .. clients - 1, from : Challenges \cup {NoChallenge}]
Responses == [number : 0 .. 2 * clients, to : SubChallengeType]
Transcripts ==
    [T : Seq(0 .. 3 * clients), C : Seq(SubChallengeType), R : Seq(Responses),
     cs : Challenges \cup {NoChallenge},
     signed : [cs : Challenges \cup {NoChallenge}, T : Seq(0 .. 3 * clients)]]

Bounded(chan, items, capacity) ==
    /\ chan \in [queue : Seq(items), closed : BOOLEAN]
    /\ Len(chan.queue) <= capacity

TypeOK ==
    /\ clients \in Sizes
    /\ index \in 0 .. clients
    /\ client \in {"idle", "commitments", "asking", "challenge", "subChallenges",
                   "responses", "returned", "failed"}
    /\ prover \in {"none", "committing", "waiting", "subChallenges", "responding", "done"}
    /\ proverErr \in BOOLEAN
    /\ Bounded(pCommits, 1 .. 3 * clients, 3 * clients)
    /\ Bounded(pResponses, Responses, 2 * clients)
    /\ proof \in Transcripts /\ message \in Transcripts /\ heard \in Transcripts
    /\ checker \in {"idle", "received", "commitments", "challenge", "subChallenges",
                    "responses", "verdict", "accepted", "refused"}
    /\ verifier \in {"none", "commitments", "challenge", "subChallenges", "responses",
                     "valid", "invalid", "done"}
    /\ Bounded(vCommits, 0 .. 3 * clients, 3 * clients)
    /\ Bounded(vResponses, Responses, 2 * clients)

Init ==
    /\ clients \in Sizes
    /\ index \in 0 .. clients
    /\ client = "idle"
    /\ prover = "none"
    /\ proverErr = FALSE
    /\ pCommits = Channel /\ pResponses = Channel
    /\ proof = Empty /\ message = Empty /\ heard = Empty
    /\ checker = "idle"
    /\ verifier = "none"
    /\ vCommits = Channel /\ vResponses = Channel

----------------------------------------------------------------------------
(* The client: NewAuthenticationMessage and newClientProof.                *)

(* (<name>_<mistake>: a mistake a change of the code could make.)          *)
NotAlone_Unchecked(n) == TRUE

(* There is another client to hide among: checked on both sides.           *)
NotAlone(n) == n > 1

(* There is a generator for the client.                                    *)
HasGenerator(n, i) == i < n

BeginProof ==
    /\ client = "idle"
    /\ IF HasGenerator(clients, index) /\ NotAlone(clients)
         THEN client' = "commitments" /\ prover' = "committing"
         ELSE client' = "failed" /\ UNCHANGED prover
    /\ UNCHANGED <<clients, index, proverErr, pCommits, pResponses, proof, serverVars>>

(* clientProverCtx.commitments: range over commitsChan.                    *)
TakeCommitment ==
    /\ client = "commitments" /\ pCommits.queue # <<>>
    /\ proof' = [proof EXCEPT !.T = Append(@, Head(pCommits.queue))]
    /\ pCommits' = Get(pCommits)
    /\ UNCHANGED <<clients, index, client, prover, proverErr, pResponses, serverVars>>

EndCommitments ==
    /\ client = "commitments" /\ pCommits.queue = <<>> /\ pCommits.closed
    /\ client' = IF Len(proof.T) = 3 * clients THEN "asking" ELSE "failed"
    /\ UNCHANGED <<clients, index, prover, proverErr, pCommits, pResponses, proof, serverVars>>

(* sendCommitsReceiveChallenge, then the check of what came back: an       *)
(* error, or signatures that do not verify on T, end the call.             *)
ReceiveChallenge ==
    /\ client = "asking"
    /\ \/ client' = "failed" /\ UNCHANGED proof
       \/ /\ client' = "challenge"
          /\ \E c \in Challenges :
               proof' = [proof EXCEPT !.cs = c, !.signed = Signed(c, proof.T)]
    /\ UNCHANGED <<clients, index, prover, proverErr, pCommits, pResponses, serverVars>>

(* receiveChallenges meets PubRand, then Put of the sub-challenges.        *)
HandChallenge ==
    /\ client = "challenge" /\ prover = "waiting"
    /\ client' = "subChallenges"
    /\ prover' = IF clients > 1 THEN "subChallenges" ELSE "responding"
    /\ UNCHANGED <<clients, index, proverErr, pCommits, pResponses, proof, serverVars>>

TakeSubChallenges ==
    /\ client = "subChallenges" /\ prover = "subChallenges"
    /\ proof' = [proof EXCEPT !.C = SubChallenges(clients, index, proof.cs)]
    /\ client' = "responses" /\ prover' = "responding"
    /\ UNCHANGED <<clients, index, proverErr, pCommits, pResponses, serverVars>>

(* clientProverCtx.responses: range over responsesChan.                    *)
TakeResponse ==
    /\ client = "responses" /\ pResponses.queue # <<>>
    /\ proof' = [proof EXCEPT !.R = Append(@, Head(pResponses.queue))]
    /\ pResponses' = Get(pResponses)
    /\ UNCHANGED <<clients, index, client, prover, proverErr, pCommits, serverVars>>

(* The responses counted as soon as the channel is empty.                  *)
EndResponses_NotClosed ==
    /\ client = "responses" /\ Len(proof.R) = 2 * clients
    /\ client' = IF ~proverErr THEN "returned" ELSE "failed"
    /\ UNCHANGED <<clients, index, prover, proverErr, pCommits, pResponses, proof, serverVars>>

(* The end of newClientProof, which reads proverErr without a lock.        *)
EndResponses ==
    /\ client = "responses" /\ pResponses.queue = <<>> /\ pResponses.closed
    /\ client' = IF Len(proof.R) = 2 * clients /\ ~proverErr THEN "returned" ELSE "failed"
    /\ UNCHANGED <<clients, index, prover, proverErr, pCommits, pResponses, proof, serverVars>>

----------------------------------------------------------------------------
(* The goroutine of the Prover, through Put and PubRand.                   *)

(* How many commitments (responses) the Prover has put so far.             *)
CommitsPut == Len(proof.T) + Len(pCommits.queue)
ResponsesPut == Len(proof.R) + Len(pResponses.queue)

(* A predicate too many in each clause, the channel not enlarged.          *)
CommitsMade_OnePredicateMore(n) == 4 * n

(* Each of the three predicates of a clause gives a commitment.            *)
CommitsMade(n) == 3 * n

(* responsesChan is closed when the Prover returns.                        *)
ProverReturns(err) ==
    /\ prover' = "done"
    /\ proverErr' = err
    /\ pResponses' = Close(pResponses)

(* The next commitment; a choice of clause that does not exist is an error *)
(* of kyber's, before the first of them.                                   *)
PutCommitment ==
    /\ prover = "committing" /\ CommitsPut < CommitsMade(clients)
    /\ Len(pCommits.queue) < 3 * clients
    /\ IF index < clients
         THEN /\ pCommits' = Put(pCommits, CommitsPut + 1)
              /\ UNCHANGED <<prover, proverErr, pResponses>>
         ELSE ProverReturns(TRUE) /\ UNCHANGED pCommits
    /\ UNCHANGED <<clients, index, client, proof, serverVars>>

(* PubRand, up to its receive from challengeChan.                          *)
CloseCommitments ==
    /\ prover = "committing" /\ CommitsPut = CommitsMade(clients)
    /\ pCommits' = Close(pCommits)
    /\ prover' = "waiting"
    /\ UNCHANGED <<clients, index, client, proverErr, pResponses, proof, serverVars>>

PutResponse ==
    /\ prover = "responding" /\ ResponsesPut < 2 * clients
    /\ Len(pResponses.queue) < 2 * clients
    /\ pResponses' = Put(pResponses,
                         Response(ResponsesPut + 1, SubChallenges(clients, index, proof.cs)))
    /\ UNCHANGED <<clients, index, client, prover, proverErr, pCommits, proof, serverVars>>

EndProver ==
    /\ prover = "responding" /\ ResponsesPut = 2 * clients
    /\ ProverReturns(FALSE)
    /\ UNCHANGED <<clients, index, client, pCommits, proof, serverVars>>

----------------------------------------------------------------------------
(* The server: verifyAuthenticationMessage and verifyClientProof.          *)

(* What a client that does not follow the protocol may make of a proof:    *)
(* commitments other than the signed ones or wrong from the start, another *)
(* challenge, sub-challenges that do not add up or of another clause,      *)
(* a wrong response, slices of another length, and a transcript right in   *)
(* itself for a challenge the servers did not sign.                        *)
Simulated(p, c) == [FullTranscript(clients, index, c) EXCEPT !.signed = p.signed]

Altered(p) ==
         {[p EXCEPT !.T[1] = 0], [p EXCEPT !.T[1] = 0, !.signed.T[1] = 0]}
    \cup {[p EXCEPT !.cs = c] : c \in Challenges \ {p.cs}}
    \cup {[p EXCEPT !.C[k].from = c] :
             k \in {1, clients}, c \in Challenges \ {p.C[clients].from}}
    \cup {[p EXCEPT !.C = SubChallenges(clients, (index + 1) % clients, p.cs)]}
    \cup {[p EXCEPT !.R[2 * clients].number = 0]}
    \cup {[p EXCEPT !.T = Tail(@), !.signed.T = Tail(@)],
          [p EXCEPT !.C = Tail(@)], [p EXCEPT !.R = Tail(@)]}
    \cup {Simulated(p, c) : c \in Challenges \ {p.cs}}

(* A message reaches a server: the client's, or one that a client which    *)
(* leaves out the checks of the library made for a context of its own.     *)
Receive ==
    /\ checker = "idle"
    /\ \/ client = "returned" /\ message' \in {proof} \cup Altered(proof)
       \/ /\ client = "failed" /\ clients = 1
          /\ message' \in {FullTranscript(1, 0, c) : c \in Challenges}
    /\ checker' = "received"
    /\ UNCHANGED <<clients, index, clientVars, verifier, vCommits, vResponses, heard>>

(* validateAuthenticationMessage, of the proof's fields.                   *)
WellFormed(p, n) ==
    Len(p.T) = 3 * n /\ Len(p.C) = n /\ Len(p.R) = 2 * n

(* The signatures of the servers not verified.                             *)
MayVerify_Unsigned(p, n) == WellFormed(p, n) /\ NotAlone(n)

(* The checks before the Verifier starts: sizes, number of clients, and    *)
(* that the servers signed this challenge for these commitments.           *)
MayVerify(p, n) == WellFormed(p, n) /\ NotAlone(n) /\ p.signed = Signed(p.cs, p.T)

BeginVerification ==
    /\ checker = "received"
    /\ IF MayVerify(message, clients)
         THEN checker' = "commitments" /\ verifier' = "commitments"
         ELSE checker' = "refused" /\ UNCHANGED verifier
    /\ UNCHANGED <<clients, index, clientVars, message, vCommits, vResponses, heard>>

(* receiveCommitments, one element at a time.                              *)
FeedCommitment ==
    LET fed == Len(heard.T) + Len(vCommits.queue)
    IN  /\ checker = "commitments"
        /\ IF Len(message.T) # 3 * clients
             THEN checker' = "refused" /\ UNCHANGED vCommits
             ELSE /\ Len(vCommits.queue) < 3 * clients
                  /\ vCommits' = Put(vCommits, message.T[fed + 1])
                  /\ checker' = IF fed + 1 = 3 * clients THEN "challenge" ELSE checker
        /\ UNCHANGED <<clients, index, clientVars, message, verifier, vResponses, heard>>

(* receiveChallenges: the challenge meets PubRand, the sub-challenges meet *)
(* Get.                                                                    *)
FeedChallenge ==
    /\ checker = "challenge" /\ verifier = "challenge"
    /\ heard' = [heard EXCEPT !.cs = message.cs]
    /\ checker' = "subChallenges"
    /\ verifier' = IF clients > 1 THEN "subChallenges" ELSE "responses"
    /\ UNCHANGED <<clients, index, clientVars, message, vCommits, vResponses>>

(* The Verifier gives up at once on sub-challenges that do not add up.     *)
AddUp(C, n, c) == \E d \in 0 .. n - 1 : C = SubChallenges(n, d, c)

FeedSubChallenges ==
    /\ checker = "subChallenges" /\ verifier = "subChallenges"
    /\ heard' = [heard EXCEPT !.C = message.C]
    /\ checker' = "responses"
    /\ verifier' = IF AddUp(message.C, clients, heard.cs) THEN "responses" ELSE "invalid"
    /\ UNCHANGED <<clients, index, clientVars, message, vCommits, vResponses>>

(* receiveResponses: the Verifier may have given up, the buffer is large   *)
(* enough to end all the same.                                             *)
FeedResponse ==
    LET fed == Len(heard.R) + Len(vResponses.queue)
    IN  /\ checker = "responses"
        /\ IF Len(message.R) # 2 * clients
             THEN checker' = "refused" /\ UNCHANGED vResponses
             ELSE /\ Len(vResponses.queue) < 2 * clients
                  /\ vResponses' = Put(vResponses, message.R[fed + 1])
                  /\ checker' = IF fed + 1 = 2 * clients THEN "verdict" ELSE checker
        /\ UNCHANGED <<clients, index, clientVars, message, verifier, vCommits, heard>>

(* The Verifier's result meets the receive from verifierErrChan.           *)
Verdict ==
    /\ checker = "verdict" /\ verifier \in {"valid", "invalid"}
    /\ checker' = IF verifier = "valid" THEN "accepted" ELSE "refused"
    /\ verifier' = "done"
    /\ UNCHANGED <<clients, index, clientVars, message, vCommits, vResponses, heard>>

----------------------------------------------------------------------------
(* The goroutine of the Verifier, through Get.                             *)

GetCommitment ==
    /\ verifier = "commitments" /\ vCommits.queue # <<>>
    /\ heard' = [heard EXCEPT !.T = Append(@, Head(vCommits.queue))]
    /\ vCommits' = Get(vCommits)
    /\ verifier' = IF Len(heard.T) + 1 = 3 * clients THEN "challenge" ELSE verifier
    /\ UNCHANGED <<clients, index, clientVars, message, checker, vResponses>>

(* A clause is checked when its two responses are there.                   *)
ClauseHolds(k, h) ==
    /\ \A i \in DOMAIN h.T : Clause(i, 3) = k => h.T[i] = i
    /\ \A j \in DOMAIN h.R : Clause(j, 2) = k => h.R[j] = Response(j, h.C)

GetResponse ==
    /\ verifier = "responses" /\ vResponses.queue # <<>>
    /\ heard' = [heard EXCEPT !.R = Append(@, Head(vResponses.queue))]
    /\ vResponses' = Get(vResponses)
    /\ LET got == Len(heard.R) + 1
       IN  verifier' = IF got % 2 = 0 /\ ~ClauseHolds(Clause(got, 2), heard')
                         THEN "invalid"
                         ELSE IF got = 2 * clients THEN "valid" ELSE verifier
    /\ UNCHANGED <<clients, index, clientVars, message, checker, vCommits>>

----------------------------------------------------------------------------
ClientStep ==
    \/ BeginProof \/ TakeCommitment \/ EndCommitments \/ ReceiveChallenge
    \/ HandChallenge \/ TakeSubChallenges \/ TakeResponse \/ EndResponses
ProverStep == PutCommitment \/ CloseCommitments \/ PutResponse \/ EndProver
CheckerStep ==
    \/ BeginVerification \/ FeedCommitment \/ FeedChallenge \/ FeedSubChallenges
    \/ FeedResponse \/ Verdict
VerifierStep == GetCommitment \/ GetResponse

Next == ClientStep \/ ProverStep \/ Receive \/ CheckerStep \/ VerifierStep

Spec == Init /\ [][Next]_vars

(* Every goroutine that can run is scheduled, and the API call that asks   *)
(* for the challenge returns.                                              *)
Fairness ==
    WF_vars(ClientStep) /\ WF_vars(ProverStep) /\ WF_vars(CheckerStep) /\ WF_vars(VerifierStep)

FairSpec == Spec /\ Fairness

----------------------------------------------------------------------------
(* Properties.                                                             *)

(* NewAuthenticationMessage returns, whatever the size of the context, the *)
(* index and the answer of the server: it never waits on a channel the     *)
(* Prover does not serve.                                                  *)
ClientReturns == client = "idle" ~> client \in {"returned", "failed"}

(* A server that received a message comes to a verdict on it, even when    *)
(* its Verifier gives up before it has taken what it is given.             *)
ServerReturns == checker = "received" ~> checker \in {"accepted", "refused"}

(* No goroutine is left behind by a verification, nor by a proof that was  *)
(* returned; and what is returned was read after the Prover was done       *)
(* ("here no race", says newClientProof).                                  *)
NoGoroutineLeft ==
    /\ checker \in {"accepted", "refused"} => verifier \in {"none", "done"}
    /\ client = "returned" => prover = "done"

(* A server accepts the proofs that newClientProof returned, as they were  *)
(* returned, and no others.                                                *)
AcceptsReturnedProofs ==
    checker \in {"accepted", "refused"} =>
        (checker = "accepted" <=> client = "returned" /\ message = proof)
=============================================================================
