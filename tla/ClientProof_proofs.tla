------------------------- MODULE ClientProof_proofs -------------------------
(***************************************************************************)
(* Proofs about the client's proof of knowledge, for contexts of any size  *)
(* and any challenges.                                                     *)
(***************************************************************************)
EXTENDS ClientProof, TLAPS

(* Items that pass through a channel: those that have been taken, then     *)
(* those in the queue, are the first of the items to come.                 *)
Stream(taken, queue, items) ==
    /\ \A i \in 1 .. Len(taken) : taken[i] = items[i]
    /\ \A i \in 1 .. Len(queue) : queue[i] = items[Len(taken) + i]

(* How many items have been put in it.                                     *)
Count(taken, queue) == Len(taken) + Len(queue)

(* What the Prover answers to the challenge of the proof.                  *)
Answers == [j \in 1 .. 2 * clients |->
              Response(j, SubChallenges(clients, index, proof.cs))]

----------------------------------------------------------------------------
(* Where the client and its Prover stand.                                  *)
ClientStages ==
    /\ client = "idle" => prover = "none"
    /\ client = "commitments" => prover \in {"committing", "waiting"}
    /\ client \in {"asking", "challenge"} => prover = "waiting"
    /\ client = "subChallenges" => prover = "subChallenges"
    /\ client = "responses" => prover \in {"responding", "done"}
    /\ client = "returned" => prover = "done"
    /\ client = "failed" => prover \in {"none", "waiting"}
    /\ prover # "none" => index < clients /\ clients > 1
    /\ proverErr = FALSE

(* What they have made of the proof.                                       *)
Built ==
    /\ Stream(proof.T, pCommits.queue, Commitments(clients))
    /\ CommitsPut <= 3 * clients
    /\ pCommits.closed <=> prover \notin {"none", "committing"}
    /\ pCommits.closed => CommitsPut = 3 * clients
    /\ client \in {"asking", "challenge", "subChallenges", "responses", "returned"} =>
         Len(proof.T) = 3 * clients
    /\ Stream(proof.R, pResponses.queue, Answers)
    /\ ResponsesPut <= 2 * clients
    /\ prover \in {"none", "committing", "waiting", "subChallenges"} => ResponsesPut = 0
    /\ pResponses.closed <=> prover = "done"
    /\ prover = "done" => ResponsesPut = 2 * clients
    /\ client = "returned" => Len(proof.R) = 2 * clients
    /\ client \in {"challenge", "subChallenges", "responses", "returned"} =>
         proof.cs \in Challenges /\ proof.signed = Signed(proof.cs, proof.T)
    /\ client \in {"responses", "returned"} =>
         proof.C = SubChallenges(clients, index, proof.cs)

(* Where the server and its Verifier stand.                                *)
ServerStages ==
    /\ verifier = "none" => checker \in {"idle", "received", "refused"}
    /\ verifier = "commitments" => checker \in {"commitments", "challenge"}
    /\ verifier = "challenge" => checker = "challenge"
    /\ verifier = "subChallenges" => checker = "subChallenges"
    /\ verifier \in {"responses", "invalid"} => checker \in {"responses", "verdict"}
    /\ verifier = "valid" => checker = "verdict"
    /\ verifier = "done" => checker \in {"accepted", "refused"}
    /\ checker # "idle" =>
         \/ client = "returned" /\ message \in {proof} \cup Altered(proof)
         \/ client = "failed" /\ clients = 1
    /\ verifier # "none" => MayVerify(message, clients)

CommitsFed == Count(heard.T, vCommits.queue)
ResponsesFed == Count(heard.R, vResponses.queue)

(* What the Verifier has heard of the message.                             *)
Heard ==
    /\ Stream(heard.T, vCommits.queue, message.T)
    /\ CommitsFed <= 3 * clients
    /\ verifier = "none" => CommitsFed = 0
    /\ checker = "commitments" => CommitsFed < 3 * clients
    /\ checker \in {"challenge", "subChallenges", "responses", "verdict"} =>
         CommitsFed = 3 * clients
    /\ verifier = "commitments" => Len(heard.T) < 3 * clients
    /\ verifier \in {"challenge", "subChallenges", "responses", "valid", "invalid"} =>
         Len(heard.T) = 3 * clients
    /\ verifier \in {"subChallenges", "responses", "valid", "invalid"} =>
         heard.cs = message.cs
    /\ verifier \in {"responses", "valid"} =>
         /\ heard.C = message.C
         /\ AddUp(message.C, clients, message.cs)
    /\ Stream(heard.R, vResponses.queue, message.R)
    /\ ResponsesFed <= 2 * clients
    /\ verifier \in {"none", "commitments", "challenge", "subChallenges"} => ResponsesFed = 0
    /\ checker = "responses" => ResponsesFed < 2 * clients
    /\ checker = "verdict" => ResponsesFed = 2 * clients
    /\ verifier = "responses" => Len(heard.R) < 2 * clients
    /\ verifier = "valid" => Len(heard.R) = 2 * clients

(* A message the Verifier finds nothing wrong with.                        *)
Genuine(m) ==
    /\ \A i \in 1 .. 3 * clients : m.T[i] = i
    /\ \A j \in 1 .. 2 * clients : m.R[j] = Response(j, m.C)
    /\ AddUp(m.C, clients, m.cs)

(* What the Verifier knows of it: a clause once its two responses came.    *)
Judged ==
    /\ verifier \in {"responses", "valid"} =>
         \A k \in 0 .. clients - 1 : 2 * k + 2 <= Len(heard.R) => ClauseHolds(k, heard)
    /\ verifier = "invalid" => ~Genuine(message)

IInv ==
    /\ TypeOK /\ ClientStages /\ Built /\ ServerStages /\ Heard /\ Judged
    /\ AcceptsReturnedProofs

----------------------------------------------------------------------------
LEMMA CountType ==
    ASSUME NEW S, NEW Q, NEW s \in Seq(S), NEW q \in Seq(Q)
    PROVE  Count(s, q) \in Nat /\ Len(s) <= Count(s, q)
  BY DEF Count

(* An item that is taken from a queue, or put in it, keeps the stream.     *)
Moves(s, q, t, r) == q # <<>> /\ t = Append(s, Head(q)) /\ r = Tail(q)

LEMMA ItemType ==
    ASSUME NEW S, NEW s \in Seq(S), NEW i \in 1 .. Len(s)
    PROVE  s[i] \in S
  OBVIOUS

LEMMA LargerSeq ==
    ASSUME NEW S, NEW Q, Q \subseteq S, NEW q \in Seq(Q)
    PROVE  q \in Seq(S)
  <1>1. Len(q) \in Nat /\ q \in [1 .. Len(q) -> S]
    OBVIOUS
  <1> QED BY <1>1

LEMMA Taken ==
    ASSUME NEW S, NEW Q, NEW s \in Seq(S), NEW q \in Seq(S), q \in Seq(Q),
           NEW t, NEW r, Moves(s, q, t, r), NEW items, Stream(s, q, items)
    PROVE  /\ t \in Seq(S) /\ r \in Seq(Q)
           /\ Len(t) = Len(s) + 1 /\ Len(r) = Len(q) - 1
           /\ Count(t, r) = Count(s, q)
           /\ Stream(t, r, items)
  <1> USE DEF Moves
  <1>1. Len(q) \in Nat \ {0} /\ Head(q) = q[1] /\ Head(q) \in S
    OBVIOUS
  <1>2. t \in Seq(S) /\ r \in Seq(Q) /\ Len(t) = Len(s) + 1 /\ Len(r) = Len(q) - 1
        /\ Len(s) \in Nat
    BY <1>1
  <1>3. \A i \in 1 .. Len(s) + 1 : t[i] = items[i]
    BY <1>1 DEF Stream
  <1>4. ASSUME NEW i \in 1 .. Len(q) - 1
        PROVE  r[i] = items[Len(s) + 1 + i]
    <2>1. r[i] = q[i + 1] /\ i + 1 \in 1 .. Len(q)
      BY <1>1
    <2>2. q[i + 1] = items[Len(s) + (i + 1)] /\ Len(s) + (i + 1) = Len(s) + 1 + i
      BY <2>1 DEF Stream
    <2> QED BY <2>1, <2>2
  <1> QED BY <1>1, <1>2, <1>3, <1>4 DEF Stream, Count

PutsNext(s, q, items, r) == r = Append(q, items[Len(s) + Len(q) + 1])

LEMMA PutInStream ==
    ASSUME NEW S, NEW Q, NEW s \in Seq(S), NEW q \in Seq(Q), NEW r \in Seq(Q),
           NEW items, PutsNext(s, q, items, r), Stream(s, q, items)
    PROVE  /\ Len(r) = Len(q) + 1 /\ Count(s, r) = Count(s, q) + 1
           /\ Stream(s, r, items)
  <1> USE DEF PutsNext
  <1>1. Len(r) = Len(q) + 1 /\ Len(q) \in Nat /\ Len(s) \in Nat
    OBVIOUS
  <1>2. ASSUME NEW i \in 1 .. Len(q) + 1
        PROVE  r[i] = items[Len(s) + i]
    <2>1. CASE i = Len(q) + 1
      <3>1. r[i] = items[Len(s) + Len(q) + 1] /\ Len(s) + i = Len(s) + Len(q) + 1
        BY <1>1, <2>1
      <3> QED BY <3>1
    <2>2. CASE i # Len(q) + 1
      <3>1. i \in 1 .. Len(q) /\ r[i] = q[i]
        BY <1>1, <2>2
      <3> QED BY <3>1 DEF Stream
    <2> QED BY <2>1, <2>2
  <1> QED BY <1>1, <1>2 DEF Stream, Count

(* The sizes of a context, and what a clause's number is made of.          *)
LEMMA Size ==
    ASSUME TypeOK
    PROVE  clients \in Nat \ {0} /\ index \in 0 .. clients
  BY SizesAssumption DEF TypeOK

LEMMA TypeParts ==
    ASSUME TypeOK
    PROVE  /\ proof.T \in Seq(0 .. 3 * clients) /\ proof.C \in Seq(SubChallengeType)
           /\ proof.R \in Seq(Responses) /\ proof.cs \in Challenges \cup {NoChallenge}
           /\ heard.T \in Seq(0 .. 3 * clients) /\ heard.C \in Seq(SubChallengeType)
           /\ heard.R \in Seq(Responses) /\ heard.cs \in Challenges \cup {NoChallenge}
           /\ message.T \in Seq(0 .. 3 * clients) /\ message.C \in Seq(SubChallengeType)
           /\ message.R \in Seq(Responses) /\ message.cs \in Challenges \cup {NoChallenge}
           /\ pCommits.queue \in Seq(1 .. 3 * clients) /\ pCommits.closed \in BOOLEAN
           /\ pResponses.queue \in Seq(Responses) /\ pResponses.closed \in BOOLEAN
           /\ vCommits.queue \in Seq(0 .. 3 * clients) /\ vCommits.closed \in BOOLEAN
           /\ vResponses.queue \in Seq(Responses) /\ vResponses.closed \in BOOLEAN
  BY DEF TypeOK, Transcripts, Bounded

(* Which clause an item is for, when each has two or three.                *)
LEMMA ClauseOf ==
    ASSUME NEW n \in Nat
    PROVE  /\ \A j \in 1 .. 2 * n : /\ Clause(j, 2) \in 0 .. n - 1
                                    /\ 2 * Clause(j, 2) < j /\ j <= 2 * Clause(j, 2) + 2
           /\ \A i \in 1 .. 3 * n : /\ Clause(i, 3) \in 0 .. n - 1
                                    /\ 3 * Clause(i, 3) < i /\ i <= 3 * Clause(i, 3) + 3
  <1>1. \A j \in 1 .. 2 * n : /\ Clause(j, 2) \in 0 .. n - 1
                              /\ 2 * Clause(j, 2) < j /\ j <= 2 * Clause(j, 2) + 2
    BY SMTT(30) DEF Clause
  <1>2. \A i \in 1 .. 3 * n : /\ Clause(i, 3) \in 0 .. n - 1
                              /\ 3 * Clause(i, 3) < i /\ i <= 3 * Clause(i, 3) + 3
    BY SMTT(30) DEF Clause
  <1> QED BY <1>1, <1>2

(* The sub-challenges of a challenge, and the responses to them.           *)
LEMMA SubChallengeTypes ==
    ASSUME TypeOK, NEW d, NEW c \in Challenges \cup {NoChallenge}
    PROVE  /\ SubChallenges(clients, d, c) \in [1 .. clients -> SubChallengeType]
           /\ SubChallenges(clients, d, c) \in Seq(SubChallengeType)
           /\ Len(SubChallenges(clients, d, c)) = clients
           /\ \A j \in 1 .. 2 * clients : Response(j, SubChallenges(clients, d, c)) \in Responses
  <1>1. SubChallenges(clients, d, c) \in [1 .. clients -> SubChallengeType]
    BY Size DEF SubChallenges, SubChallenge, SubChallengeType
  <1>2. /\ SubChallenges(clients, d, c) \in Seq(SubChallengeType)
        /\ Len(SubChallenges(clients, d, c)) = clients
    BY <1>1, Size
  <1>3. ASSUME NEW j \in 1 .. 2 * clients
        PROVE  Response(j, SubChallenges(clients, d, c)) \in Responses
    <2>1. clients \in Nat
      BY Size
    <2>2. Clause(j, 2) \in 0 .. clients - 1
      BY <2>1, ClauseOf
    <2>3. Clause(j, 2) + 1 \in 1 .. clients
      BY <2>1, <2>2
    <2> QED BY <1>1, <2>1, <2>3 DEF Response, Responses
  <1> QED BY <1>1, <1>2, <1>3

LEMMA InitInv == Init => IInv
  <1> SUFFICES ASSUME Init
               PROVE  IInv
    OBVIOUS
  <1>1. clients \in Nat \ {0}
    BY SizesAssumption DEF Init
  <1>2. Empty \in Transcripts
    BY <1>1 DEF Empty, Transcript, Transcripts, Signed
  <1>3. \A items : \A capacity \in Nat : Bounded(Channel, items, capacity)
    BY DEF Bounded, Channel
  <1>4. 3 * clients \in Nat /\ 2 * clients \in Nat
    BY <1>1
  <1>5. TypeOK
    BY <1>2, <1>3, <1>4 DEF Init, TypeOK
  <1>6. ClientStages /\ ServerStages /\ Judged /\ AcceptsReturnedProofs
    BY DEF Init, ClientStages, ServerStages, Judged, AcceptsReturnedProofs
  <1>7. \A items : Stream(<<>>, <<>>, items)
    BY DEF Stream
  <1>8. Built
    BY <1>1, <1>7 DEF Init, Built, CommitsPut, ResponsesPut, Empty, Transcript, Channel
  <1>9. Heard
    BY <1>1, <1>7 DEF Init, Heard, CommitsFed, ResponsesFed, Count, Empty, Transcript, Channel
  <1> QED BY <1>5, <1>6, <1>8, <1>9 DEF IInv

----------------------------------------------------------------------------
(* The client's steps.  No server has the proof before it is returned.     *)
LEMMA ServerFrame ==
    ASSUME IInv, checker = "idle", UNCHANGED <<clients, index, serverVars>>
    PROVE  ServerStages' /\ Heard' /\ Judged' /\ AcceptsReturnedProofs'
  <1>1. UNCHANGED <<message, checker, verifier, vCommits, vResponses, heard>>
    BY DEF serverVars
  <1>2. ServerStages' /\ AcceptsReturnedProofs'
    BY <1>1 DEF IInv, ServerStages, AcceptsReturnedProofs
  <1>3. Heard'
    BY <1>1 DEF IInv, Heard, CommitsFed, ResponsesFed
  <1>4. Judged'
    BY <1>1 DEF IInv, Judged, Genuine
  <1> QED BY <1>2, <1>3, <1>4

LEMMA SameTypes ==
    ASSUME UNCHANGED clients
    PROVE  Transcripts' = Transcripts /\ Responses' = Responses
  BY DEF Transcripts, Responses, SubChallengeType

(* What the server's steps leave alone.                                    *)
LEMMA ClientFrame ==
    ASSUME IInv, UNCHANGED <<clients, index, clientVars>>
    PROVE  ClientStages' /\ Built'
  BY DEF IInv, clientVars, ClientStages, Built, CommitsPut, ResponsesPut, Answers

LEMMA NoServerYet ==
    ASSUME IInv, client \notin {"returned", "failed"}
    PROVE  checker = "idle"
  BY DEF IInv, ServerStages

(* A step of the client that leaves the proof and the channels alone.      *)
LEMMA BeginProofInv == ASSUME IInv, BeginProof PROVE IInv'
  <1>1. /\ client = "idle" /\ prover = "none"
        /\ UNCHANGED <<clients, index, proverErr, pCommits, pResponses, proof, serverVars>>
        /\ \/ client' = "commitments" /\ prover' = "committing"
                /\ index < clients /\ clients > 1
           \/ client' = "failed" /\ prover' = "none"
    BY DEF BeginProof, HasGenerator, NotAlone, IInv, ClientStages
  <1>2. TypeOK'
    BY <1>1, SameTypes DEF IInv, TypeOK, serverVars
  <1>3. ClientStages'
    BY <1>1 DEF IInv, ClientStages
  <1>4. Built'
    BY <1>1 DEF IInv, Built, CommitsPut, ResponsesPut, Answers
  <1> QED BY <1>1, <1>2, <1>3, <1>4, NoServerYet, ServerFrame DEF IInv

LEMMA EndCommitmentsInv == ASSUME IInv, EndCommitments PROVE IInv'
  <1>1. /\ client = "commitments" /\ pCommits.queue = <<>> /\ pCommits.closed
        /\ client' = IF Len(proof.T) = 3 * clients THEN "asking" ELSE "failed"
        /\ UNCHANGED <<clients, index, prover, proverErr, pCommits, pResponses, proof,
                       serverVars>>
    BY DEF EndCommitments
  <1>2. Len(proof.T) = 3 * clients /\ prover = "waiting"
    BY <1>1, TypeParts DEF IInv, Built, CommitsPut, ClientStages
  <1>3. client' = "asking"
    BY <1>1, <1>2
  <1>4. TypeOK'
    BY <1>1, <1>3, SameTypes DEF IInv, TypeOK, serverVars
  <1>5. ClientStages'
    BY <1>1, <1>2, <1>3 DEF IInv, ClientStages
  <1>6. Built'
    BY <1>1, <1>2, <1>3 DEF IInv, Built, CommitsPut, ResponsesPut, Answers
  <1> QED BY <1>1, <1>4, <1>5, <1>6, NoServerYet, ServerFrame DEF IInv

LEMMA HandChallengeInv == ASSUME IInv, HandChallenge PROVE IInv'
  <1>1. /\ client = "challenge" /\ prover = "waiting" /\ clients > 1
        /\ client' = "subChallenges" /\ prover' = "subChallenges"
        /\ UNCHANGED <<clients, index, proverErr, pCommits, pResponses, proof, serverVars>>
    BY DEF HandChallenge, IInv, ClientStages
  <1>2. TypeOK'
    BY <1>1, SameTypes DEF IInv, TypeOK, serverVars
  <1>3. ClientStages'
    BY <1>1 DEF IInv, ClientStages
  <1>4. Built'
    BY <1>1 DEF IInv, Built, CommitsPut, ResponsesPut, Answers
  <1> QED BY <1>1, <1>2, <1>3, <1>4, NoServerYet, ServerFrame DEF IInv

LEMMA EndResponsesInv == ASSUME IInv, EndResponses PROVE IInv'
  <1>1. /\ client = "responses" /\ pResponses.queue = <<>> /\ pResponses.closed
        /\ client' = IF Len(proof.R) = 2 * clients /\ ~proverErr THEN "returned" ELSE "failed"
        /\ UNCHANGED <<clients, index, prover, proverErr, pCommits, pResponses, proof,
                       serverVars>>
    BY DEF EndResponses
  <1>2. Len(proof.R) = 2 * clients /\ prover = "done"
    BY <1>1, TypeParts DEF IInv, Built, ResponsesPut
  <1>3. client' = "returned"
    BY <1>1, <1>2 DEF IInv, ClientStages
  <1>4. TypeOK'
    BY <1>1, <1>3, SameTypes DEF IInv, TypeOK, serverVars
  <1>5. ClientStages'
    BY <1>1, <1>2, <1>3 DEF IInv, ClientStages
  <1>6. Built'
    BY <1>1, <1>2, <1>3 DEF IInv, Built, CommitsPut, ResponsesPut, Answers
  <1> QED BY <1>1, <1>4, <1>5, <1>6, NoServerYet, ServerFrame DEF IInv

(* The client receives: an item of a queue, the challenge, the slice.      *)
LEMMA TakeCommitmentInv == ASSUME IInv, TakeCommitment PROVE IInv'
  <1>1. /\ client = "commitments"
        /\ UNCHANGED <<clients, index, client, prover, proverErr, pResponses, serverVars>>
    BY DEF TakeCommitment
  <1>2. PICK taken, rest : /\ Moves(proof.T, pCommits.queue, taken, rest)
                        /\ proof' = [proof EXCEPT !.T = taken]
                        /\ pCommits' = [pCommits EXCEPT !.queue = rest]
    BY DEF TakeCommitment, Get, Moves
  <1>3. /\ taken \in Seq(0 .. 3 * clients) /\ rest \in Seq(1 .. 3 * clients)
        /\ Len(taken) = Len(proof.T) + 1 /\ Len(rest) = Len(pCommits.queue) - 1
        /\ Count(taken, rest) = Count(proof.T, pCommits.queue)
        /\ Stream(taken, rest, Commitments(clients))
    <2> DEFINE S == 0 .. 3 * clients
               Q == 1 .. 3 * clients
    <2>1. proof.T \in Seq(S) /\ pCommits.queue \in Seq(Q)
      BY TypeParts DEF IInv
    <2>2. Q \subseteq S
      OBVIOUS
    <2> HIDE DEF S, Q
    <2>3. pCommits.queue \in Seq(S)
      BY <2>1, <2>2, LargerSeq
    <2>4. Stream(proof.T, pCommits.queue, Commitments(clients))
      BY DEF IInv, Built
    <2>5. Moves(proof.T, pCommits.queue, taken, rest)
      BY <1>2
    <2>6. /\ taken \in Seq(S) /\ rest \in Seq(Q)
          /\ Len(taken) = Len(proof.T) + 1 /\ Len(rest) = Len(pCommits.queue) - 1
          /\ Count(taken, rest) = Count(proof.T, pCommits.queue)
          /\ Stream(taken, rest, Commitments(clients))
      BY <2>1, <2>3, <2>4, <2>5, Taken
    <2> QED BY <2>6 DEF S, Q
  <1>4. /\ proof'.T = taken /\ proof'.C = proof.C /\ proof'.R = proof.R /\ proof'.cs = proof.cs
        /\ pCommits'.queue = rest /\ pCommits'.closed = pCommits.closed
    BY <1>2 DEF IInv, TypeOK, Transcripts, Bounded
  <1>5. Len(pCommits.queue) \in Nat /\ Len(proof.T) \in Nat /\ clients \in Nat
    BY TypeParts, Size DEF IInv
  <1>6. TypeOK'
    <2>1. proof' \in Transcripts
      BY <1>2, <1>3 DEF IInv, TypeOK, Transcripts
    <2>2. pCommits' \in [queue : Seq(1 .. 3 * clients), closed : BOOLEAN]
      BY <1>2, <1>3 DEF IInv, TypeOK, Bounded
    <2>3. Len(pCommits'.queue) <= 3 * clients
      BY <1>3, <1>4, <1>5 DEF IInv, TypeOK, Bounded
    <2>4. Bounded(pCommits', 1 .. 3 * clients, 3 * clients)
      BY <2>2, <2>3 DEF Bounded
    <2> QED BY <1>1, <2>1, <2>4, SameTypes DEF IInv, TypeOK, serverVars
  <1>7. ClientStages'
    BY <1>1 DEF IInv, ClientStages
  <1>8. Built'
    <2>1. CommitsPut' = CommitsPut
      BY <1>3, <1>4 DEF CommitsPut, Count
    <2>2. ResponsesPut' = ResponsesPut /\ Answers' = Answers
      BY <1>1, <1>4 DEF ResponsesPut, Answers
    <2> QED BY <1>1, <1>3, <1>4, <2>1, <2>2 DEF IInv, Built
  <1> QED BY <1>1, <1>6, <1>7, <1>8, NoServerYet, ServerFrame DEF IInv

LEMMA ReceiveChallengeInv == ASSUME IInv, ReceiveChallenge PROVE IInv'
  <1>1. /\ client = "asking" /\ prover = "waiting" /\ ResponsesPut = 0
        /\ UNCHANGED <<clients, index, prover, proverErr, pCommits, pResponses, serverVars>>
    BY DEF ReceiveChallenge, IInv, ClientStages, Built
  <1>2. CASE client' = "failed" /\ UNCHANGED proof
    <2>1. TypeOK'
      BY <1>1, <1>2, SameTypes DEF IInv, TypeOK, serverVars
    <2>2. ClientStages'
      BY <1>1, <1>2 DEF IInv, ClientStages
    <2>3. Built'
      BY <1>1, <1>2 DEF IInv, Built, CommitsPut, ResponsesPut, Answers
    <2> QED BY <1>1, <2>1, <2>2, <2>3, NoServerYet, ServerFrame DEF IInv
  <1>3. ASSUME NEW c \in Challenges, client' = "challenge",
               proof' = [proof EXCEPT !.cs = c, !.signed = Signed(c, proof.T)]
        PROVE  IInv'
    <2>1. /\ proof'.T = proof.T /\ proof'.C = proof.C /\ proof'.R = proof.R
          /\ proof'.cs = c /\ proof'.signed = Signed(c, proof.T)
      BY <1>3 DEF IInv, TypeOK, Transcripts
    <2>2. proof' \in Transcripts
      BY <1>3 DEF IInv, TypeOK, Transcripts, Signed
    <2>3. TypeOK'
      BY <1>1, <1>3, <2>2, SameTypes DEF IInv, TypeOK, serverVars
    <2>4. ClientStages'
      BY <1>1, <1>3 DEF IInv, ClientStages
    <2>5. CommitsPut' = CommitsPut /\ ResponsesPut' = ResponsesPut
      BY <1>1, <2>1 DEF CommitsPut, ResponsesPut
    <2>6. Stream(proof.R, pResponses.queue, Answers')
      <3>1. PICK a \in Nat, b \in Nat : a = Len(proof.R) /\ b = Len(pResponses.queue)
        BY TypeParts DEF IInv
      <3>2. a = 0 /\ b = 0
        <4>1. a + b = 0
          BY <1>1, <3>1 DEF ResponsesPut
        <4> QED BY <4>1
      <3> QED BY <3>1, <3>2 DEF Stream
    <2>7. Built'
      BY <1>1, <1>3, <2>1, <2>5, <2>6 DEF IInv, Built
    <2> QED BY <1>1, <2>3, <2>4, <2>7, NoServerYet, ServerFrame DEF IInv
  <1> QED BY <1>2, <1>3 DEF ReceiveChallenge

LEMMA TakeSubChallengesInv == ASSUME IInv, TakeSubChallenges PROVE IInv'
  <1>1. /\ client = "subChallenges" /\ prover = "subChallenges"
        /\ client' = "responses" /\ prover' = "responding"
        /\ UNCHANGED <<clients, index, proverErr, pCommits, pResponses, serverVars>>
    BY DEF TakeSubChallenges
  <1>2. PICK C : /\ C = SubChallenges(clients, index, proof.cs)
                 /\ proof' = [proof EXCEPT !.C = C]
    BY DEF TakeSubChallenges
  <1>3. C \in Seq(SubChallengeType)
    BY <1>2, TypeParts, SubChallengeTypes DEF IInv
  <1>4. /\ proof'.T = proof.T /\ proof'.C = C /\ proof'.R = proof.R
        /\ proof'.cs = proof.cs /\ proof'.signed = proof.signed
    BY <1>2 DEF IInv, TypeOK, Transcripts
  <1>5. proof' \in Transcripts
    BY <1>2, <1>3 DEF IInv, TypeOK, Transcripts
  <1>6. TypeOK'
    BY <1>1, <1>5, SameTypes DEF IInv, TypeOK, serverVars
  <1>7. ClientStages'
    BY <1>1 DEF IInv, ClientStages
  <1>8. /\ CommitsPut' = CommitsPut /\ ResponsesPut' = ResponsesPut /\ Answers' = Answers
        /\ proof'.C = SubChallenges(clients, index, proof.cs)
    BY <1>1, <1>2, <1>4 DEF CommitsPut, ResponsesPut, Answers
  <1>9. Built'
    BY <1>1, <1>4, <1>8 DEF IInv, Built
  <1> QED BY <1>1, <1>6, <1>7, <1>9, NoServerYet, ServerFrame DEF IInv

LEMMA TakeResponseInv == ASSUME IInv, TakeResponse PROVE IInv'
  <1>1. /\ client = "responses"
        /\ UNCHANGED <<clients, index, client, prover, proverErr, pCommits, serverVars>>
    BY DEF TakeResponse
  <1>2. PICK taken, rest : /\ Moves(proof.R, pResponses.queue, taken, rest)
                           /\ proof' = [proof EXCEPT !.R = taken]
                           /\ pResponses' = [pResponses EXCEPT !.queue = rest]
    BY DEF TakeResponse, Get, Moves
  <1>3. /\ taken \in Seq(Responses) /\ rest \in Seq(Responses)
        /\ Len(taken) = Len(proof.R) + 1 /\ Len(rest) = Len(pResponses.queue) - 1
        /\ Count(taken, rest) = Count(proof.R, pResponses.queue)
        /\ Stream(taken, rest, Answers)
    <2>1. proof.R \in Seq(Responses) /\ pResponses.queue \in Seq(Responses)
      BY TypeParts DEF IInv
    <2>2. Stream(proof.R, pResponses.queue, Answers)
      BY DEF IInv, Built
    <2>3. Moves(proof.R, pResponses.queue, taken, rest)
      BY <1>2
    <2> QED BY <2>1, <2>2, <2>3, Taken
  <1>4. /\ proof'.T = proof.T /\ proof'.C = proof.C /\ proof'.R = taken
        /\ proof'.cs = proof.cs /\ proof'.signed = proof.signed
        /\ pResponses'.queue = rest /\ pResponses'.closed = pResponses.closed
    BY <1>2 DEF IInv, TypeOK, Transcripts, Bounded
  <1>5. Len(pResponses.queue) \in Nat /\ Len(pResponses.queue) <= 2 * clients /\ clients \in Nat
    BY TypeParts, Size DEF IInv, TypeOK, Bounded
  <1>6. TypeOK'
    <2>1. proof' \in Transcripts
      BY <1>2, <1>3 DEF IInv, TypeOK, Transcripts
    <2>2. pResponses' \in [queue : Seq(Responses), closed : BOOLEAN]
      BY <1>2, <1>3 DEF IInv, TypeOK, Bounded
    <2>3. Len(pResponses'.queue) <= 2 * clients
      BY <1>3, <1>4, <1>5
    <2>4. Bounded(pResponses', Responses, 2 * clients)
      BY <2>2, <2>3 DEF Bounded
    <2> QED BY <1>1, <2>1, <2>4, SameTypes DEF IInv, TypeOK, serverVars
  <1>7. ClientStages'
    BY <1>1 DEF IInv, ClientStages
  <1>8. Built'
    <2>1. CommitsPut' = CommitsPut /\ ResponsesPut' = ResponsesPut /\ Answers' = Answers
      BY <1>1, <1>3, <1>4 DEF CommitsPut, ResponsesPut, Answers, Count
    <2> QED BY <1>1, <1>3, <1>4, <2>1 DEF IInv, Built
  <1> QED BY <1>1, <1>6, <1>7, <1>8, NoServerYet, ServerFrame DEF IInv

(* The Prover's steps.                                                     *)
LEMMA PutCommitmentInv == ASSUME IInv, PutCommitment PROVE IInv'
  <1>1. /\ prover = "committing" /\ CommitsPut < 3 * clients /\ index < clients
        /\ Len(pCommits.queue) < 3 * clients
        /\ UNCHANGED <<clients, index, client, prover, proverErr, pResponses, proof, serverVars>>
    BY DEF PutCommitment, CommitsMade, IInv, ClientStages
  <1>2. PICK queue : /\ queue = Append(pCommits.queue, CommitsPut + 1)
                     /\ pCommits' = [pCommits EXCEPT !.queue = queue]
    BY <1>1 DEF PutCommitment, Put
  <1>3. CommitsPut \in Nat /\ clients \in Nat /\ CommitsPut + 1 \in 1 .. 3 * clients
    <2>1. Count(proof.T, pCommits.queue) \in Nat
      BY TypeParts, CountType DEF IInv
    <2>2. CommitsPut \in Nat
      BY <2>1 DEF CommitsPut, Count
    <2> QED BY <1>1, <2>2, Size DEF IInv
  <1>4. /\ queue \in Seq(1 .. 3 * clients) /\ Len(queue) = Len(pCommits.queue) + 1
        /\ Count(proof.T, queue) = CommitsPut + 1
        /\ Stream(proof.T, queue, Commitments(clients))
    <2> DEFINE S == 0 .. 3 * clients
               Q == 1 .. 3 * clients
    <2>1. /\ proof.T \in Seq(S) /\ pCommits.queue \in Seq(Q) /\ queue \in Seq(Q)
      BY <1>2, <1>3, TypeParts DEF IInv
    <2>2. Stream(proof.T, pCommits.queue, Commitments(clients))
      BY DEF IInv, Built
    <2>3. PutsNext(proof.T, pCommits.queue, Commitments(clients), queue)
      <3>1. Commitments(clients)[CommitsPut + 1] = CommitsPut + 1
        BY <1>3 DEF Commitments
      <3> QED BY <1>2, <3>1 DEF PutsNext, CommitsPut
    <2> HIDE DEF S, Q
    <2>4. /\ Len(queue) = Len(pCommits.queue) + 1
          /\ Count(proof.T, queue) = Count(proof.T, pCommits.queue) + 1
          /\ Stream(proof.T, queue, Commitments(clients))
      BY <2>1, <2>2, <2>3, PutInStream
    <2> QED BY <2>1, <2>4 DEF Q, CommitsPut, Count
  <1>5. pCommits'.queue = queue /\ pCommits'.closed = pCommits.closed
    BY <1>2 DEF IInv, TypeOK, Bounded
  <1>6. TypeOK'
    <2>1. pCommits' \in [queue : Seq(1 .. 3 * clients), closed : BOOLEAN]
      BY <1>2, <1>4 DEF IInv, TypeOK, Bounded
    <2>2. Len(pCommits.queue) \in Nat
      BY TypeParts DEF IInv
    <2>3. Len(pCommits'.queue) <= 3 * clients
      BY <1>1, <1>3, <1>4, <1>5, <2>2
    <2>4. Bounded(pCommits', 1 .. 3 * clients, 3 * clients)
      BY <2>1, <2>3 DEF Bounded
    <2> QED BY <1>1, <2>4, SameTypes DEF IInv, TypeOK, serverVars
  <1>7. ClientStages'
    BY <1>1 DEF IInv, ClientStages
  <1>8. Built'
    <2>1. CommitsPut' = CommitsPut + 1
      BY <1>1, <1>4, <1>5 DEF CommitsPut, Count
    <2>2. ResponsesPut' = ResponsesPut /\ Answers' = Answers
      BY <1>1 DEF ResponsesPut, Answers
    <2>3. CommitsPut + 1 <= 3 * clients
      BY <1>1, <1>3
    <2>4. ~pCommits.closed
      BY <1>1 DEF IInv, Built
    <2> QED BY <1>1, <1>4, <1>5, <2>1, <2>2, <2>3, <2>4 DEF IInv, Built
  <1>9. client = "commitments"
    BY <1>1 DEF IInv, ClientStages, TypeOK
  <1> QED BY <1>1, <1>6, <1>7, <1>8, <1>9, NoServerYet, ServerFrame DEF IInv

LEMMA CloseCommitmentsInv == ASSUME IInv, CloseCommitments PROVE IInv'
  <1>1. /\ prover = "committing" /\ prover' = "waiting" /\ CommitsPut = 3 * clients
        /\ pCommits' = [pCommits EXCEPT !.closed = TRUE]
        /\ UNCHANGED <<clients, index, client, proverErr, pResponses, proof, serverVars>>
    BY DEF CloseCommitments, CommitsMade, Close
  <1>2. /\ pCommits'.queue = pCommits.queue /\ pCommits'.closed
        /\ Bounded(pCommits', 1 .. 3 * clients, 3 * clients)
    BY <1>1 DEF IInv, TypeOK, Bounded
  <1>3. client = "commitments"
    BY <1>1 DEF IInv, ClientStages, TypeOK
  <1>4. TypeOK'
    BY <1>1, <1>2, SameTypes DEF IInv, TypeOK, serverVars
  <1>5. ClientStages'
    BY <1>1, <1>3 DEF IInv, ClientStages
  <1>6. CommitsPut' = CommitsPut /\ ResponsesPut' = ResponsesPut /\ Answers' = Answers
    BY <1>1, <1>2 DEF CommitsPut, ResponsesPut, Answers
  <1>7. Built'
    BY <1>1, <1>2, <1>3, <1>6 DEF IInv, Built
  <1> QED BY <1>1, <1>3, <1>4, <1>5, <1>7, NoServerYet, ServerFrame DEF IInv

LEMMA PutResponseInv == ASSUME IInv, PutResponse PROVE IInv'
  <1>1. /\ prover = "responding" /\ ResponsesPut < 2 * clients
        /\ Len(pResponses.queue) < 2 * clients
        /\ UNCHANGED <<clients, index, client, prover, proverErr, pCommits, proof, serverVars>>
    BY DEF PutResponse
  <1>2. PICK queue :
          /\ queue = Append(pResponses.queue,
                            Response(ResponsesPut + 1, SubChallenges(clients, index, proof.cs)))
          /\ pResponses' = [pResponses EXCEPT !.queue = queue]
    BY DEF PutResponse, Put
  <1>3. ResponsesPut \in Nat /\ clients \in Nat /\ ResponsesPut + 1 \in 1 .. 2 * clients
    <2>1. Count(proof.R, pResponses.queue) \in Nat
      BY TypeParts, CountType DEF IInv
    <2>2. ResponsesPut \in Nat
      BY <2>1 DEF ResponsesPut, Count
    <2> QED BY <1>1, <2>2, Size DEF IInv
  <1>4. /\ queue \in Seq(Responses) /\ Len(queue) = Len(pResponses.queue) + 1
        /\ Count(proof.R, queue) = ResponsesPut + 1
        /\ Stream(proof.R, queue, Answers)
    <2>1. proof.R \in Seq(Responses) /\ pResponses.queue \in Seq(Responses)
      BY TypeParts DEF IInv
    <2>2. Response(ResponsesPut + 1, SubChallenges(clients, index, proof.cs)) \in Responses
      BY <1>3, SubChallengeTypes, TypeParts DEF IInv
    <2>3. queue \in Seq(Responses)
      BY <1>2, <2>1, <2>2
    <2>4. Stream(proof.R, pResponses.queue, Answers)
      BY DEF IInv, Built
    <2>5. PutsNext(proof.R, pResponses.queue, Answers, queue)
      <3>1. Answers[ResponsesPut + 1]
              = Response(ResponsesPut + 1, SubChallenges(clients, index, proof.cs))
        BY <1>3 DEF Answers
      <3> QED BY <1>2, <3>1 DEF PutsNext, ResponsesPut
    <2>6. /\ Len(queue) = Len(pResponses.queue) + 1
          /\ Count(proof.R, queue) = Count(proof.R, pResponses.queue) + 1
          /\ Stream(proof.R, queue, Answers)
      BY <2>1, <2>3, <2>4, <2>5, PutInStream
    <2> QED BY <2>3, <2>6 DEF ResponsesPut, Count
  <1>5. pResponses'.queue = queue /\ pResponses'.closed = pResponses.closed
    BY <1>2 DEF IInv, TypeOK, Bounded
  <1>6. TypeOK'
    <2>1. pResponses' \in [queue : Seq(Responses), closed : BOOLEAN]
      BY <1>2, <1>4 DEF IInv, TypeOK, Bounded
    <2>2. Len(pResponses.queue) \in Nat
      BY TypeParts DEF IInv
    <2>3. Len(pResponses'.queue) <= 2 * clients
      BY <1>1, <1>3, <1>4, <1>5, <2>2
    <2>4. Bounded(pResponses', Responses, 2 * clients)
      BY <2>1, <2>3 DEF Bounded
    <2> QED BY <1>1, <2>4, SameTypes DEF IInv, TypeOK, serverVars
  <1>7. ClientStages'
    BY <1>1 DEF IInv, ClientStages
  <1>8. client = "responses"
    BY <1>1 DEF IInv, ClientStages, TypeOK
  <1>9. Built'
    <2>1. ResponsesPut' = ResponsesPut + 1
      BY <1>1, <1>4, <1>5 DEF ResponsesPut, Count
    <2>2. CommitsPut' = CommitsPut /\ Answers' = Answers
      BY <1>1 DEF CommitsPut, Answers
    <2>3. ResponsesPut + 1 <= 2 * clients
      BY <1>1, <1>3
    <2>4. ~pResponses.closed
      BY <1>1 DEF IInv, Built
    <2> QED BY <1>1, <1>4, <1>5, <1>8, <2>1, <2>2, <2>3, <2>4 DEF IInv, Built
  <1> QED BY <1>1, <1>6, <1>7, <1>8, <1>9, NoServerYet, ServerFrame DEF IInv

LEMMA EndProverInv == ASSUME IInv, EndProver PROVE IInv'
  <1>1. /\ prover = "responding" /\ prover' = "done" /\ proverErr' = FALSE
        /\ ResponsesPut = 2 * clients
        /\ pResponses' = [pResponses EXCEPT !.closed = TRUE]
        /\ UNCHANGED <<clients, index, client, pCommits, proof, serverVars>>
    BY DEF EndProver, ProverReturns, Close
  <1>2. /\ pResponses'.queue = pResponses.queue /\ pResponses'.closed
        /\ Bounded(pResponses', Responses, 2 * clients)
    BY <1>1 DEF IInv, TypeOK, Bounded
  <1>3. client = "responses"
    BY <1>1 DEF IInv, ClientStages, TypeOK
  <1>4. TypeOK'
    BY <1>1, <1>2, SameTypes DEF IInv, TypeOK, serverVars
  <1>5. ClientStages'
    BY <1>1, <1>3 DEF IInv, ClientStages
  <1>6. CommitsPut' = CommitsPut /\ ResponsesPut' = ResponsesPut /\ Answers' = Answers
    BY <1>1, <1>2 DEF CommitsPut, ResponsesPut, Answers
  <1>7. Built'
    BY <1>1, <1>2, <1>3, <1>6 DEF IInv, Built
  <1> QED BY <1>1, <1>3, <1>4, <1>5, <1>7, NoServerYet, ServerFrame DEF IInv

----------------------------------------------------------------------------
(* What a client returns is genuine, and nothing else that is made of it   *)
(* and passes the checks before the Verifier starts.                       *)
LEMMA ReturnedProof ==
    ASSUME IInv, client = "returned"
    PROVE  /\ clients \in Nat /\ clients > 1 /\ index \in 0 .. clients - 1
           /\ proof \in Transcripts
           /\ proof.T \in Seq(0 .. 3 * clients) /\ Len(proof.T) = 3 * clients
           /\ \A i \in 1 .. 3 * clients : proof.T[i] = i
           /\ proof.R \in Seq(Responses) /\ Len(proof.R) = 2 * clients
           /\ \A j \in 1 .. 2 * clients : proof.R[j] = Response(j, proof.C)
           /\ proof.C \in Seq(SubChallengeType) /\ Len(proof.C) = clients
           /\ proof.C = SubChallenges(clients, index, proof.cs)
           /\ proof.cs \in Challenges /\ proof.cs # NoChallenge
           /\ proof.signed = Signed(proof.cs, proof.T)
  <1>1. clients \in Nat /\ clients > 1 /\ index \in 0 .. clients - 1
    BY Size DEF IInv, ClientStages
  <1>2. /\ proof.T \in Seq(0 .. 3 * clients) /\ Len(proof.T) = 3 * clients
        /\ proof.R \in Seq(Responses) /\ Len(proof.R) = 2 * clients
        /\ proof.C \in Seq(SubChallengeType)
        /\ proof.C = SubChallenges(clients, index, proof.cs)
        /\ proof.cs \in Challenges /\ proof.signed = Signed(proof.cs, proof.T)
        /\ proof \in Transcripts
    BY TypeParts DEF IInv, Built, TypeOK
  <1>3. Len(proof.C) = clients
    BY <1>2, SubChallengeTypes DEF IInv
  <1>4. proof.cs # NoChallenge
    BY <1>2, ChallengesAssumption DEF NoChallenge
  <1>5. \A i \in 1 .. 3 * clients : proof.T[i] = i
    <2>1. \A i \in 1 .. 3 * clients : proof.T[i] = Commitments(clients)[i]
      BY <1>2 DEF IInv, Built, Stream
    <2> QED BY <2>1 DEF Commitments
  <1>6. \A j \in 1 .. 2 * clients : proof.R[j] = Response(j, proof.C)
    <2>1. \A j \in 1 .. 2 * clients : proof.R[j] = Answers[j]
      BY <1>2 DEF IInv, Built, Stream
    <2> QED BY <1>2, <2>1 DEF Answers
  <1> QED BY <1>1, <1>2, <1>3, <1>4, <1>5, <1>6

LEMMA ReturnedIsGenuine ==
    ASSUME IInv, client = "returned"
    PROVE  MayVerify(proof, clients) /\ Genuine(proof)
  <1>1. AddUp(proof.C, clients, proof.cs)
    BY ReturnedProof DEF AddUp
  <1> QED BY <1>1, ReturnedProof DEF MayVerify, WellFormed, NotAlone, Genuine

LEMMA NextClause ==
    ASSUME NEW n \in Nat, n > 1, NEW d \in 0 .. n - 1
    PROVE  (d + 1) % n # d
  <1>1. CASE d = n - 1
    BY <1>1
  <1>2. CASE d < n - 1
    BY <1>2, SMTT(30)
  <1> QED BY <1>1, <1>2

(* The clause of the client itself.                                        *)
LEMMA Own ==
    ASSUME IInv, client = "returned"
    PROVE  /\ \E own \in 1 .. clients : own - 1 = index
           /\ \A own \in 1 .. clients : own - 1 = index =>
                /\ proof.C[own].from = proof.cs
                /\ \E j \in 1 .. 2 * clients : Clause(j, 2) + 1 = own
  <1>1. PICK c : c = proof.cs /\ proof.C = SubChallenges(clients, index, c)
    BY ReturnedProof
  <1>2. ASSUME NEW own \in 1 .. clients, own - 1 = index
        PROVE  /\ proof.C[own].from = proof.cs
               /\ \E j \in 1 .. 2 * clients : Clause(j, 2) + 1 = own
    <2>1. proof.C[own].from = proof.cs
      BY <1>1, <1>2 DEF SubChallenges, SubChallenge
    <2>2. 2 * own \in 1 .. 2 * clients
      BY ReturnedProof
    <2>3. Clause(2 * own, 2) + 1 = own
      BY ReturnedProof, SMTT(30) DEF Clause
    <2> QED BY <2>1, <2>2, <2>3
  <1>3. \E own \in 1 .. clients : own - 1 = index
    <2>1. clients \in Nat /\ index \in 0 .. clients - 1
      BY ReturnedProof
    <2> QED BY <2>1
  <1>4. \A own \in 1 .. clients : own - 1 = index =>
          /\ proof.C[own].from = proof.cs
          /\ \E j \in 1 .. 2 * clients : Clause(j, 2) + 1 = own
    BY <1>2
  <1> QED BY <1>3, <1>4

LEMMA OnlyReturnedIsGenuine ==
    ASSUME IInv, client = "returned", NEW m \in {proof} \cup Altered(proof),
           MayVerify(m, clients), Genuine(m)
    PROVE  m = proof
  <1>1. PICK e \in 0 .. clients - 1 : m.C = SubChallenges(clients, e, m.cs)
    BY DEF Genuine, AddUp
  <1>2. /\ Len(m.T) = 3 * clients /\ Len(m.C) = clients /\ Len(m.R) = 2 * clients
        /\ m.signed = Signed(m.cs, m.T)
        /\ \A i \in 1 .. 3 * clients : m.T[i] = i
        /\ \A j \in 1 .. 2 * clients : m.R[j] = Response(j, m.C)
    BY DEF MayVerify, WellFormed, Genuine
  <1>3. m.T # [proof.T EXCEPT ![1] = 0]
    <2>1. 1 \in DOMAIN proof.T /\ 1 \in 1 .. 3 * clients
      BY ReturnedProof
    <2> QED BY <1>2, <2>1
  <1>4. ASSUME NEW c \in Challenges \ {proof.cs}, m = [proof EXCEPT !.cs = c]
        PROVE  FALSE
    <2>1. m.cs = c /\ m.signed = proof.signed /\ proof.signed = Signed(proof.cs, proof.T)
      BY <1>4, ReturnedProof DEF Transcripts
    <2> QED BY <1>2, <2>1 DEF Signed
  <1>5. ASSUME NEW k \in {1, clients}, NEW c \in Challenges,
               m = [proof EXCEPT !.C[k].from = c]
        PROVE  m = proof
    <2>1. k \in 1 .. clients /\ c # NoChallenge
      BY ReturnedProof, ChallengesAssumption DEF NoChallenge
    <2>2. proof.C \in [1 .. clients -> SubChallengeType]
      BY ReturnedProof
    <2>3. /\ m.C = [proof.C EXCEPT ![k] = [proof.C[k] EXCEPT !.from = c]]
          /\ m.cs = proof.cs /\ m = [proof EXCEPT !.C = m.C]
      BY <1>5, <2>1, <2>2, ReturnedProof DEF Transcripts
    <2>4. m.C[k].from = c
      BY <2>1, <2>2, <2>3 DEF SubChallengeType
    <2>5. \A i \in 1 .. clients : m.C[i].from = IF i - 1 = e THEN m.cs ELSE NoChallenge
      BY <1>1 DEF SubChallenges, SubChallenge
    <2>6. e = k - 1
      BY <2>1, <2>4, <2>5
    <2>7. e = index
      <3>1. PICK own \in 1 .. clients : own - 1 = index
        BY Own
      <3>2. proof.C[own].from = proof.cs
        BY <3>1, Own
      <3>3. CASE k = own
        BY <2>6, <3>1, <3>3
      <3>4. CASE k # own
        <4>1. m.C[own] = proof.C[own]
          BY <2>2, <2>3, <3>4
        <4>2. m.C[own].from # NoChallenge
          BY <3>2, <4>1, ReturnedProof
        <4>3. own - 1 = e
          BY <2>5, <4>2
        <4> QED BY <3>1, <4>3
      <3> QED BY <3>3, <3>4
    <2>8. m.C = proof.C
      BY <1>1, <2>3, <2>7, ReturnedProof
    <2> QED BY <2>3, <2>8, ReturnedProof DEF Transcripts
  <1>6. ASSUME m = [proof EXCEPT !.C = SubChallenges(clients, (index + 1) % clients, proof.cs)]
        PROVE  FALSE
    <2>1. /\ m.C = SubChallenges(clients, (index + 1) % clients, proof.cs)
          /\ m.R = proof.R
      BY <1>6, ReturnedProof DEF Transcripts
    <2>2. PICK own \in 1 .. clients : own - 1 = index
      BY Own
    <2>3. PICK j \in 1 .. 2 * clients : Clause(j, 2) + 1 = own
      BY <2>2, Own
    <2>4. Response(j, m.C) = Response(j, proof.C)
      BY <1>2, <2>1, ReturnedProof
    <2>5. m.C[own] = proof.C[own]
      BY <2>3, <2>4 DEF Response
    <2>6. (index + 1) % clients # index
      BY ReturnedProof, NextClause
    <2>7. m.C[own].from = NoChallenge
      BY <2>1, <2>2, <2>6 DEF SubChallenges, SubChallenge
    <2>8. proof.C[own].from = proof.cs
      BY <2>2, Own
    <2> QED BY <2>5, <2>7, <2>8, ReturnedProof
  <1>7. ASSUME m = [proof EXCEPT !.R[2 * clients].number = 0]
        PROVE  FALSE
    <2>1. PICK last \in 1 .. 2 * clients : last = 2 * clients /\ last # 0
      BY ReturnedProof
    <2>2. proof.R \in [1 .. 2 * clients -> Responses]
      BY ReturnedProof
    <2>3. m.R = [proof.R EXCEPT ![last] = [proof.R[last] EXCEPT !.number = 0]]
      BY <1>7, <2>1, ReturnedProof DEF Transcripts
    <2>4. m.R[last].number = 0
      BY <2>2, <2>3 DEF Responses
    <2>5. m.R[last] = Response(last, m.C)
      BY <1>2
    <2>6. Response(last, m.C).number = last
      BY DEF Response
    <2> QED BY <2>1, <2>4, <2>5, <2>6
  <1>8. m \notin {[proof EXCEPT !.T = Tail(@), !.signed.T = Tail(@)],
                  [proof EXCEPT !.C = Tail(@)], [proof EXCEPT !.R = Tail(@)]}
    <2>1. \A S : \A q \in Seq(S) : Len(q) > 0 => Len(Tail(q)) # Len(q)
      OBVIOUS
    <2>2. Len(Tail(proof.T)) # 3 * clients
      BY <2>1, ReturnedProof
    <2>3. Len(Tail(proof.C)) # clients
      BY <2>1, ReturnedProof
    <2>4. Len(Tail(proof.R)) # 2 * clients
      BY <2>1, ReturnedProof
    <2> QED BY <1>2, <2>2, <2>3, <2>4, ReturnedProof DEF Transcripts
  <1>9. m \notin {[proof EXCEPT !.T[1] = 0], [proof EXCEPT !.T[1] = 0, !.signed.T[1] = 0]}
    BY <1>3, ReturnedProof DEF Transcripts
  <1>10. ASSUME NEW c \in Challenges \ {proof.cs}, m = Simulated(proof, c)
         PROVE  FALSE
    <2>1. m.cs = c /\ m.signed = proof.signed /\ proof.signed = Signed(proof.cs, proof.T)
      BY <1>10, ReturnedProof DEF Simulated, FullTranscript, Transcript
    <2> QED BY <1>2, <2>1 DEF Signed
  <1> QED BY <1>4, <1>5, <1>6, <1>7, <1>8, <1>9, <1>10 DEF Altered

----------------------------------------------------------------------------
(* The server's steps.                                                     *)
LEMMA AlteredType ==
    ASSUME IInv, client = "returned", NEW m \in {proof} \cup Altered(proof)
    PROVE  m \in Transcripts
  <1>1. /\ proof \in Transcripts /\ 1 \in 1 .. 3 * clients /\ 0 \in 0 .. 3 * clients
        /\ proof.T \in [1 .. 3 * clients -> 0 .. 3 * clients]
        /\ proof.signed.T = proof.T /\ 3 * clients \in Nat
    <2>1. clients \in Nat /\ clients > 1
      BY ReturnedProof
    <2>2. proof.T \in Seq(0 .. 3 * clients) /\ Len(proof.T) = 3 * clients
      BY ReturnedProof
    <2>3. proof.T \in [1 .. 3 * clients -> 0 .. 3 * clients]
      BY <2>2
    <2>4. 1 \in 1 .. 3 * clients /\ 0 \in 0 .. 3 * clients /\ 3 * clients \in Nat
      BY <2>1
    <2>5. proof \in Transcripts /\ proof.signed.T = proof.T
      BY ReturnedProof DEF Signed
    <2> QED BY <2>3, <2>4, <2>5
  <1>2. CASE m \in {[proof EXCEPT !.T[1] = 0], [proof EXCEPT !.T[1] = 0, !.signed.T[1] = 0]}
    <2>1. PICK t : t = [proof.T EXCEPT ![1] = 0]
      OBVIOUS
    <2>2. t \in [1 .. 3 * clients -> 0 .. 3 * clients]
      BY <1>1, <2>1
    <2>3. t \in Seq(0 .. 3 * clients)
      BY <1>1, <2>2
    <2>4. \/ m = [proof EXCEPT !.T = t]
          \/ m = [proof EXCEPT !.T = t, !.signed = [proof.signed EXCEPT !.T = t]]
      BY <1>1, <1>2, <2>1 DEF Transcripts
    <2> QED BY <1>1, <2>3, <2>4 DEF Transcripts
  <1>3. CASE m \in {[proof EXCEPT !.cs = c] : c \in Challenges \ {proof.cs}}
    BY <1>1, <1>3 DEF Transcripts
  <1>4. ASSUME NEW k \in {1, clients}, NEW c \in Challenges,
               m = [proof EXCEPT !.C[k].from = c]
        PROVE  m \in Transcripts
    <2>1. k \in 1 .. clients /\ proof.C \in [1 .. clients -> SubChallengeType] /\ clients \in Nat
      BY ReturnedProof
    <2>2. PICK C : C = [proof.C EXCEPT ![k] = [proof.C[k] EXCEPT !.from = c]]
      OBVIOUS
    <2>3. C \in [1 .. clients -> SubChallengeType]
      BY <2>1, <2>2 DEF SubChallengeType
    <2>4. C \in Seq(SubChallengeType) /\ m = [proof EXCEPT !.C = C]
      BY <1>1, <1>4, <2>1, <2>2, <2>3 DEF Transcripts
    <2> QED BY <1>1, <2>4 DEF Transcripts
  <1>5. CASE m = [proof EXCEPT !.C = SubChallenges(clients, (index + 1) % clients, proof.cs)]
    <2>1. PICK C : C = SubChallenges(clients, (index + 1) % clients, proof.cs)
      OBVIOUS
    <2>2. C \in Seq(SubChallengeType)
      BY <2>1, SubChallengeTypes, ReturnedProof DEF IInv
    <2> QED BY <1>1, <1>5, <2>1, <2>2 DEF Transcripts
  <1>6. CASE m = [proof EXCEPT !.R[2 * clients].number = 0]
    <2>1. PICK last \in 1 .. 2 * clients : last = 2 * clients
      BY ReturnedProof
    <2>2. proof.R \in [1 .. 2 * clients -> Responses] /\ clients \in Nat
      BY ReturnedProof
    <2>3. PICK R : R = [proof.R EXCEPT ![last] = [proof.R[last] EXCEPT !.number = 0]]
      OBVIOUS
    <2>4. R \in [1 .. 2 * clients -> Responses]
      BY <2>2, <2>3 DEF Responses
    <2>5. R \in Seq(Responses) /\ m = [proof EXCEPT !.R = R]
      BY <1>1, <1>6, <2>1, <2>2, <2>3, <2>4 DEF Transcripts
    <2> QED BY <1>1, <2>5 DEF Transcripts
  <1>7. CASE m \in {[proof EXCEPT !.T = Tail(@), !.signed.T = Tail(@)],
                    [proof EXCEPT !.C = Tail(@)], [proof EXCEPT !.R = Tail(@)]}
    <2>1. \A S : \A q \in Seq(S) : Len(q) > 0 => Tail(q) \in Seq(S)
      OBVIOUS
    <2>2. clients \in Nat /\ clients > 1
      BY ReturnedProof
    <2>3. Tail(proof.T) \in Seq(0 .. 3 * clients)
      <3>1. proof.T \in Seq(0 .. 3 * clients) /\ Len(proof.T) > 0
        BY <2>2, ReturnedProof
      <3> QED BY <2>1, <3>1
    <2>4. Tail(proof.C) \in Seq(SubChallengeType)
      <3>1. proof.C \in Seq(SubChallengeType) /\ Len(proof.C) > 0
        BY <2>2, ReturnedProof
      <3> QED BY <2>1, <3>1
    <2>5. Tail(proof.R) \in Seq(Responses)
      <3>1. proof.R \in Seq(Responses) /\ Len(proof.R) > 0
        BY <2>2, ReturnedProof
      <3> QED BY <2>1, <3>1
    <2>6. PICK t, C, R : t = Tail(proof.T) /\ C = Tail(proof.C) /\ R = Tail(proof.R)
      OBVIOUS
    <2>7. m \in {[proof EXCEPT !.T = t, !.signed = [proof.signed EXCEPT !.T = t]],
                [proof EXCEPT !.C = C], [proof EXCEPT !.R = R]}
      BY <1>1, <1>7, <2>6 DEF Transcripts
    <2>8. t \in Seq(0 .. 3 * clients) /\ C \in Seq(SubChallengeType) /\ R \in Seq(Responses)
      BY <2>3, <2>4, <2>5, <2>6
    <2> QED BY <1>1, <2>7, <2>8 DEF Transcripts
  <1>8. ASSUME NEW c \in Challenges, m = Simulated(proof, c)
        PROVE  m \in Transcripts
    <2>1. PICK C : C = SubChallenges(clients, index, c)
      OBVIOUS
    <2>2. C \in Seq(SubChallengeType) /\ \A j \in 1 .. 2 * clients : Response(j, C) \in Responses
      BY <2>1, SubChallengeTypes DEF IInv
    <2>3. clients \in Nat
      BY ReturnedProof
    <2>4. [j \in 1 .. 2 * clients |-> Response(j, C)] \in Seq(Responses)
      BY <2>2, <2>3
    <2>5. Commitments(clients) \in Seq(0 .. 3 * clients)
      BY <2>3 DEF Commitments
    <2>6. m = Transcript(Commitments(clients), C, [j \in 1 .. 2 * clients |-> Response(j, C)],
                         c, proof.signed)
      BY <1>8, <2>1 DEF Simulated, FullTranscript, Transcript
    <2> QED BY <1>1, <2>2, <2>4, <2>5, <2>6 DEF Transcript, Transcripts
  <1> QED BY <1>1, <1>2, <1>3, <1>4, <1>5, <1>6, <1>7, <1>8 DEF Altered

LEMMA NothingFed ==
    ASSUME IInv, verifier \in {"none", "commitments", "challenge", "subChallenges"}
    PROVE  /\ \A items : Stream(heard.R, vResponses.queue, items)
           /\ verifier = "none" => \A items : Stream(heard.T, vCommits.queue, items)
           /\ Len(heard.R) = 0
           /\ verifier = "none" => Len(heard.T) = 0
  <1>1. \A S, Q : \A s \in Seq(S), q \in Seq(Q) :
          Count(s, q) = 0 => Len(s) = 0 /\ Len(q) = 0
    BY DEF Count
  <1>2. Len(heard.R) = 0 /\ Len(vResponses.queue) = 0
    BY <1>1, TypeParts DEF IInv, Heard, ResponsesFed
  <1>3. verifier = "none" => Len(heard.T) = 0 /\ Len(vCommits.queue) = 0
    BY <1>1, TypeParts DEF IInv, Heard, CommitsFed
  <1> QED BY <1>2, <1>3 DEF Stream

LEMMA ReceiveInv == ASSUME IInv, Receive PROVE IInv'
  <1>1. /\ checker = "idle" /\ checker' = "received" /\ verifier = "none"
        /\ UNCHANGED <<clients, index, clientVars, verifier, vCommits, vResponses, heard>>
    BY DEF Receive, IInv, ServerStages, TypeOK
  <1>2. \/ client = "returned" /\ message' \in {proof} \cup Altered(proof)
        \/ /\ client = "failed" /\ clients = 1
           /\ \E c \in Challenges : message' = FullTranscript(1, 0, c)
    BY DEF Receive
  <1>3. message' \in Transcripts
    <2>1. ASSUME NEW c \in Challenges, clients = 1, message' = FullTranscript(1, 0, c)
          PROVE  message' \in Transcripts
      <3>1. SubChallenges(1, 0, c) \in Seq(SubChallengeType)
        BY <2>1, SubChallengeTypes DEF IInv
      <3>2. \A j \in 1 .. 2 : Response(j, SubChallenges(1, 0, c)) \in Responses
        BY <2>1, SubChallengeTypes DEF IInv
      <3>3. Commitments(1) \in Seq(0 .. 3 * clients)
        BY <2>1 DEF Commitments
      <3>4. [j \in 1 .. 2 * 1 |-> Response(j, SubChallenges(1, 0, c))] \in Seq(Responses)
        BY <3>2
      <3> QED BY <2>1, <3>1, <3>3, <3>4 DEF FullTranscript, Transcript, Transcripts, Signed
    <2> QED BY <1>2, <2>1, AlteredType
  <1>4. TypeOK'
    BY <1>1, <1>3, SameTypes DEF IInv, TypeOK, clientVars
  <1>5. ServerStages'
    <2>1. {proof}' \cup Altered(proof)' = {proof} \cup Altered(proof)
      BY <1>1 DEF clientVars, Altered, Simulated, SubChallenges
    <2> QED BY <1>1, <1>2, <2>1 DEF ServerStages, clientVars
  <1>6. Heard'
    BY <1>1, NothingFed DEF IInv, Heard, CommitsFed, ResponsesFed
  <1>7. Judged' /\ AcceptsReturnedProofs'
    BY <1>1 DEF Judged, AcceptsReturnedProofs
  <1> QED BY <1>1, <1>4, <1>5, <1>6, <1>7, ClientFrame DEF IInv

LEMMA BeginVerificationInv == ASSUME IInv, BeginVerification PROVE IInv'
  <1>1. /\ checker = "received" /\ verifier = "none"
        /\ UNCHANGED <<clients, index, clientVars, message, vCommits, vResponses, heard>>
    BY DEF BeginVerification, IInv, ServerStages, TypeOK
  <1>2. \/ MayVerify(message, clients) /\ checker' = "commitments" /\ verifier' = "commitments"
        \/ ~MayVerify(message, clients) /\ checker' = "refused" /\ verifier' = "none"
    BY <1>1 DEF BeginVerification
  <1>3. CommitsFed = 0 /\ ResponsesFed = 0 /\ clients \in Nat \ {0}
    BY <1>1, Size DEF IInv, Heard
  <1>4. Len(heard.T) = 0
    BY <1>1, NothingFed
  <1>5. TypeOK'
    BY <1>1, <1>2, SameTypes DEF IInv, TypeOK, clientVars
  <1>6. ServerStages'
    <2>1. Altered(proof)' = Altered(proof) /\ UNCHANGED <<proof, client>>
      BY <1>1 DEF clientVars, Altered, Simulated, SubChallenges
    <2> QED BY <1>1, <1>2, <2>1 DEF IInv, ServerStages
  <1>7. Heard'
    <2>1. CommitsFed' = CommitsFed /\ ResponsesFed' = ResponsesFed
      BY <1>1 DEF CommitsFed, ResponsesFed
    <2>2. 0 < 3 * clients
      BY <1>3
    <2> QED BY <1>1, <1>2, <1>3, <1>4, <2>1, <2>2 DEF IInv, Heard
  <1>8. Judged'
    BY <1>2 DEF Judged
  <1>9. AcceptsReturnedProofs'
    BY <1>1, <1>2, ReturnedIsGenuine DEF AcceptsReturnedProofs, clientVars
  <1> QED BY <1>1, <1>5, <1>6, <1>7, <1>8, <1>9, ClientFrame DEF IInv

(* A message under verification, and who verifies it when.                 *)
LEMMA UnderVerification ==
    ASSUME IInv, checker \in {"commitments", "challenge", "subChallenges", "responses", "verdict"}
    PROVE  /\ client = "returned" /\ message \in {proof} \cup Altered(proof)
           /\ MayVerify(message, clients) /\ clients \in Nat /\ clients > 1
           /\ Len(message.T) = 3 * clients /\ Len(message.R) = 2 * clients
           /\ verifier \notin {"none", "done"}
  <1>1. verifier \notin {"none", "done"}
    BY DEF IInv, ServerStages
  <1>2. MayVerify(message, clients) /\ clients > 1
    BY <1>1 DEF IInv, ServerStages, MayVerify, NotAlone
  <1> QED BY <1>1, <1>2, Size DEF IInv, ServerStages, MayVerify, WellFormed

(* The steps that leave the message as it is say the same of it.           *)
LEMMA SameMessage ==
    ASSUME IInv, UNCHANGED <<clients, index, clientVars, message>>
    PROVE  /\ Altered(proof)' = Altered(proof) /\ UNCHANGED <<proof, client>>
           /\ Genuine(message)' = Genuine(message)
           /\ MayVerify(message, clients)' = MayVerify(message, clients)
  BY DEF clientVars, Altered, Simulated, SubChallenges, Genuine, MayVerify

LEMMA FeedCommitmentInv == ASSUME IInv, FeedCommitment PROVE IInv'
  <1>1. /\ checker = "commitments" /\ verifier = "commitments"
        /\ UNCHANGED <<clients, index, clientVars, message, verifier, vResponses, heard>>
    BY DEF FeedCommitment, IInv, ServerStages, TypeOK
  <1>2. Len(message.T) = 3 * clients /\ clients \in Nat /\ client = "returned"
    BY <1>1, UnderVerification
  <1>3. PICK queue :
          /\ queue = Append(vCommits.queue, message.T[CommitsFed + 1])
          /\ vCommits' = [vCommits EXCEPT !.queue = queue]
          /\ Len(vCommits.queue) < 3 * clients
          /\ checker' = IF CommitsFed + 1 = 3 * clients THEN "challenge" ELSE "commitments"
    BY <1>1, <1>2 DEF FeedCommitment, Put, CommitsFed, Count
  <1>4. CommitsFed \in Nat /\ CommitsFed < 3 * clients /\ CommitsFed + 1 \in 1 .. 3 * clients
    <2>1. CommitsFed \in Nat
      BY TypeParts, CountType DEF IInv, CommitsFed
    <2> QED BY <1>1, <1>2, <2>1 DEF IInv, Heard
  <1>5. /\ queue \in Seq(0 .. 3 * clients) /\ Len(queue) = Len(vCommits.queue) + 1
        /\ Count(heard.T, queue) = CommitsFed + 1
        /\ Stream(heard.T, queue, message.T)
    <2>1. message.T[CommitsFed + 1] \in 0 .. 3 * clients
      <3> DEFINE S == 0 .. 3 * clients
      <3>1. message.T \in Seq(S) /\ CommitsFed + 1 \in 1 .. Len(message.T)
        BY <1>2, <1>4, TypeParts DEF IInv
      <3> HIDE DEF S
      <3>2. message.T[CommitsFed + 1] \in S
        BY <3>1, ItemType
      <3> QED BY <3>2 DEF S
    <2>2. heard.T \in Seq(0 .. 3 * clients) /\ vCommits.queue \in Seq(0 .. 3 * clients)
      BY TypeParts DEF IInv
    <2>3. queue \in Seq(0 .. 3 * clients)
      BY <1>3, <2>1, <2>2
    <2>4. Stream(heard.T, vCommits.queue, message.T)
      BY DEF IInv, Heard
    <2>5. PutsNext(heard.T, vCommits.queue, message.T, queue)
      BY <1>3 DEF PutsNext, CommitsFed, Count
    <2>6. /\ Len(queue) = Len(vCommits.queue) + 1
          /\ Count(heard.T, queue) = Count(heard.T, vCommits.queue) + 1
          /\ Stream(heard.T, queue, message.T)
      BY <2>2, <2>3, <2>4, <2>5, PutInStream
    <2> QED BY <2>3, <2>6 DEF CommitsFed
  <1>6. vCommits'.queue = queue
    BY <1>3 DEF IInv, TypeOK, Bounded
  <1>7. TypeOK'
    <2>1. vCommits' \in [queue : Seq(0 .. 3 * clients), closed : BOOLEAN]
      BY <1>3, <1>5 DEF IInv, TypeOK, Bounded
    <2>2. Len(vCommits.queue) \in Nat
      BY TypeParts DEF IInv
    <2>3. Len(vCommits'.queue) <= 3 * clients
      BY <1>2, <1>3, <1>5, <1>6, <2>2
    <2>4. Bounded(vCommits', 0 .. 3 * clients, 3 * clients)
      BY <2>1, <2>3 DEF Bounded
    <2> QED BY <1>1, <1>3, <2>4, SameTypes DEF IInv, TypeOK, clientVars
  <1>8. ServerStages'
    BY <1>1, <1>3, SameMessage DEF IInv, ServerStages
  <1>9. Heard'
    <2>1. CommitsFed' = CommitsFed + 1 /\ ResponsesFed' = ResponsesFed
      BY <1>1, <1>5, <1>6 DEF CommitsFed, ResponsesFed
    <2>2. CommitsFed + 1 <= 3 * clients
      BY <1>2, <1>4
    <2>3. checker' = "commitments" => CommitsFed + 1 < 3 * clients
      BY <1>2, <1>3, <1>4
    <2>4. checker' # "commitments" => CommitsFed + 1 = 3 * clients
      BY <1>3
    <2>5. checker' \in {"commitments", "challenge"}
      BY <1>3
    <2> QED BY <1>1, <1>5, <1>6, <2>1, <2>2, <2>3, <2>4, <2>5 DEF IInv, Heard
  <1>10. Judged' /\ AcceptsReturnedProofs'
    BY <1>1, <1>3 DEF Judged, AcceptsReturnedProofs
  <1> QED BY <1>1, <1>7, <1>8, <1>9, <1>10, ClientFrame DEF IInv

LEMMA FeedChallengeInv == ASSUME IInv, FeedChallenge PROVE IInv'
  <1>1. /\ checker = "challenge" /\ verifier = "challenge"
        /\ checker' = "subChallenges"
        /\ heard' = [heard EXCEPT !.cs = message.cs]
        /\ UNCHANGED <<clients, index, clientVars, message, vCommits, vResponses>>
    BY DEF FeedChallenge
  <1>2. verifier' = "subChallenges"
    BY <1>1, UnderVerification DEF FeedChallenge
  <1>3. heard'.T = heard.T /\ heard'.R = heard.R /\ heard'.cs = message.cs
    BY <1>1 DEF IInv, TypeOK, Transcripts
  <1>4. TypeOK'
    <2>1. heard' \in Transcripts
      BY <1>1, TypeParts DEF IInv, TypeOK, Transcripts
    <2> QED BY <1>1, <1>2, <2>1, SameTypes DEF IInv, TypeOK, clientVars
  <1>5. ServerStages'
    BY <1>1, <1>2, SameMessage DEF IInv, ServerStages
  <1>6. Heard'
    <2>1. CommitsFed' = CommitsFed /\ ResponsesFed' = ResponsesFed
      BY <1>1, <1>3 DEF CommitsFed, ResponsesFed
    <2> QED BY <1>1, <1>2, <1>3, <2>1 DEF IInv, Heard
  <1>7. Judged' /\ AcceptsReturnedProofs'
    BY <1>1, <1>2 DEF Judged, AcceptsReturnedProofs
  <1> QED BY <1>1, <1>4, <1>5, <1>6, <1>7, ClientFrame DEF IInv

LEMMA FeedSubChallengesInv == ASSUME IInv, FeedSubChallenges PROVE IInv'
  <1>1. /\ checker = "subChallenges" /\ verifier = "subChallenges"
        /\ checker' = "responses"
        /\ heard' = [heard EXCEPT !.C = message.C]
        /\ verifier' = IF AddUp(message.C, clients, message.cs) THEN "responses" ELSE "invalid"
        /\ UNCHANGED <<clients, index, clientVars, message, vCommits, vResponses>>
    BY DEF FeedSubChallenges, IInv, Heard
  <1>2. /\ heard'.T = heard.T /\ heard'.R = heard.R /\ heard'.cs = heard.cs
        /\ heard'.C = message.C
    BY <1>1 DEF IInv, TypeOK, Transcripts
  <1>3. TypeOK'
    <2>1. heard' \in Transcripts
      BY <1>1, TypeParts DEF IInv, TypeOK, Transcripts
    <2> QED BY <1>1, <2>1, SameTypes DEF IInv, TypeOK, clientVars
  <1>4. ServerStages'
    BY <1>1, SameMessage DEF IInv, ServerStages
  <1>5. clients \in Nat /\ clients > 1 /\ Len(heard.R) = 0 /\ ResponsesFed = 0
    BY <1>1, UnderVerification, NothingFed DEF IInv, Heard
  <1>6. Heard'
    <2>1. CommitsFed' = CommitsFed /\ ResponsesFed' = ResponsesFed
      BY <1>1, <1>2 DEF CommitsFed, ResponsesFed
    <2>2. 0 < 2 * clients
      BY <1>5
    <2> QED BY <1>1, <1>2, <1>5, <2>1, <2>2 DEF IInv, Heard
  <1>7. Judged'
    <2>1. verifier' = "invalid" => ~Genuine(message)
      BY <1>1 DEF Genuine
    <2>2. \A k \in 0 .. clients - 1 : ~(2 * k + 2 <= Len(heard.R))
      BY <1>5
    <2> QED BY <1>1, <1>2, <2>1, <2>2, SameMessage DEF Judged
  <1>8. AcceptsReturnedProofs'
    BY <1>1 DEF AcceptsReturnedProofs
  <1> QED BY <1>1, <1>3, <1>4, <1>6, <1>7, <1>8, ClientFrame DEF IInv

LEMMA FeedResponseInv == ASSUME IInv, FeedResponse PROVE IInv'
  <1>1. /\ checker = "responses" /\ verifier \in {"responses", "invalid"}
        /\ UNCHANGED <<clients, index, clientVars, message, verifier, vCommits, heard>>
    BY DEF FeedResponse, IInv, ServerStages, TypeOK
  <1>2. Len(message.R) = 2 * clients /\ clients \in Nat /\ client = "returned"
    BY <1>1, UnderVerification
  <1>3. PICK queue :
          /\ queue = Append(vResponses.queue, message.R[ResponsesFed + 1])
          /\ vResponses' = [vResponses EXCEPT !.queue = queue]
          /\ Len(vResponses.queue) < 2 * clients
          /\ checker' = IF ResponsesFed + 1 = 2 * clients THEN "verdict" ELSE "responses"
    BY <1>1, <1>2 DEF FeedResponse, Put, ResponsesFed, Count
  <1>4. /\ ResponsesFed \in Nat /\ ResponsesFed < 2 * clients
        /\ ResponsesFed + 1 \in 1 .. 2 * clients
    <2>1. ResponsesFed \in Nat
      BY TypeParts, CountType DEF IInv, ResponsesFed
    <2> QED BY <1>1, <1>2, <2>1 DEF IInv, Heard
  <1>5. /\ queue \in Seq(Responses) /\ Len(queue) = Len(vResponses.queue) + 1
        /\ Count(heard.R, queue) = ResponsesFed + 1
        /\ Stream(heard.R, queue, message.R)
    <2>1. message.R[ResponsesFed + 1] \in Responses
      <3>1. message.R \in Seq(Responses) /\ ResponsesFed + 1 \in 1 .. Len(message.R)
        BY <1>2, <1>4, TypeParts DEF IInv
      <3> QED BY <3>1
    <2>2. heard.R \in Seq(Responses) /\ vResponses.queue \in Seq(Responses)
      BY TypeParts DEF IInv
    <2>3. queue \in Seq(Responses)
      BY <1>3, <2>1, <2>2
    <2>4. Stream(heard.R, vResponses.queue, message.R)
      BY DEF IInv, Heard
    <2>5. PutsNext(heard.R, vResponses.queue, message.R, queue)
      BY <1>3 DEF PutsNext, ResponsesFed, Count
    <2>6. /\ Len(queue) = Len(vResponses.queue) + 1
          /\ Count(heard.R, queue) = Count(heard.R, vResponses.queue) + 1
          /\ Stream(heard.R, queue, message.R)
      BY <2>2, <2>3, <2>4, <2>5, PutInStream
    <2> QED BY <2>3, <2>6 DEF ResponsesFed
  <1>6. vResponses'.queue = queue
    BY <1>3 DEF IInv, TypeOK, Bounded
  <1>7. TypeOK'
    <2>1. vResponses' \in [queue : Seq(Responses), closed : BOOLEAN]
      BY <1>3, <1>5 DEF IInv, TypeOK, Bounded
    <2>2. Len(vResponses.queue) \in Nat
      BY TypeParts DEF IInv
    <2>3. Len(vResponses'.queue) <= 2 * clients
      BY <1>2, <1>3, <1>5, <1>6, <2>2
    <2>4. Bounded(vResponses', Responses, 2 * clients)
      BY <2>1, <2>3 DEF Bounded
    <2> QED BY <1>1, <1>3, <2>4, SameTypes DEF IInv, TypeOK, clientVars
  <1>8. ServerStages'
    BY <1>1, <1>3, SameMessage DEF IInv, ServerStages
  <1>9. Heard'
    <2>1. ResponsesFed' = ResponsesFed + 1 /\ CommitsFed' = CommitsFed
      BY <1>1, <1>5, <1>6 DEF CommitsFed, ResponsesFed
    <2>2. ResponsesFed + 1 <= 2 * clients
      BY <1>2, <1>4
    <2>3. checker' = "responses" => ResponsesFed + 1 < 2 * clients
      BY <1>2, <1>3, <1>4
    <2>4. checker' # "responses" => ResponsesFed + 1 = 2 * clients
      BY <1>3
    <2>5. checker' \in {"responses", "verdict"}
      BY <1>3
    <2> QED BY <1>1, <1>5, <1>6, <2>1, <2>2, <2>3, <2>4, <2>5 DEF IInv, Heard
  <1>10. Judged' /\ AcceptsReturnedProofs'
    BY <1>1, <1>3, SameMessage DEF IInv, Judged, AcceptsReturnedProofs
  <1> QED BY <1>1, <1>7, <1>8, <1>9, <1>10, ClientFrame DEF IInv

(* What the Verifier finds valid is genuine: it has heard all of it.       *)
LEMMA ValidIsGenuine ==
    ASSUME IInv, verifier = "valid"
    PROVE  Genuine(message)
  <1>1. /\ clients \in Nat /\ Len(heard.T) = 3 * clients /\ Len(heard.R) = 2 * clients
        /\ heard.C = message.C /\ AddUp(message.C, clients, message.cs)
    BY Size DEF IInv, Heard
  <1>2. \A i \in 1 .. 3 * clients : heard.T[i] = message.T[i]
    BY <1>1 DEF IInv, Heard, Stream
  <1>3. \A j \in 1 .. 2 * clients : heard.R[j] = message.R[j]
    BY <1>1 DEF IInv, Heard, Stream
  <1>4. DOMAIN heard.T = 1 .. 3 * clients /\ DOMAIN heard.R = 1 .. 2 * clients
    BY <1>1, TypeParts DEF IInv
  <1>5. \A k \in 0 .. clients - 1 : ClauseHolds(k, heard)
    <2>1. \A k \in 0 .. clients - 1 : 2 * k + 2 <= 2 * clients
      BY <1>1
    <2> QED BY <1>1, <2>1 DEF IInv, Judged
  <1>6. ASSUME NEW i \in 1 .. 3 * clients
        PROVE  message.T[i] = i
    <2>1. Clause(i, 3) \in 0 .. clients - 1
      BY <1>1, ClauseOf
    <2> QED BY <1>2, <1>4, <1>5, <2>1 DEF ClauseHolds
  <1>7. ASSUME NEW j \in 1 .. 2 * clients
        PROVE  message.R[j] = Response(j, message.C)
    <2>1. Clause(j, 2) \in 0 .. clients - 1
      BY <1>1, ClauseOf
    <2> QED BY <1>1, <1>3, <1>4, <1>5, <2>1 DEF ClauseHolds
  <1> QED BY <1>1, <1>6, <1>7 DEF Genuine

LEMMA VerdictInv == ASSUME IInv, Verdict PROVE IInv'
  <1>1. /\ checker = "verdict" /\ verifier \in {"valid", "invalid"}
        /\ checker' = IF verifier = "valid" THEN "accepted" ELSE "refused"
        /\ verifier' = "done"
        /\ UNCHANGED <<clients, index, clientVars, message, vCommits, vResponses, heard>>
    BY DEF Verdict
  <1>2. TypeOK'
    BY <1>1, SameTypes DEF IInv, TypeOK, clientVars
  <1>3. ServerStages'
    BY <1>1, SameMessage DEF IInv, ServerStages
  <1>4. Heard'
    <2>1. CommitsFed' = CommitsFed /\ ResponsesFed' = ResponsesFed
      BY <1>1 DEF CommitsFed, ResponsesFed
    <2> QED BY <1>1, <2>1 DEF IInv, Heard
  <1>5. Judged'
    BY <1>1 DEF Judged
  <1>6. AcceptsReturnedProofs'
    <2>1. client = "returned" /\ message \in {proof} \cup Altered(proof) /\ MayVerify(message, clients)
      BY <1>1, UnderVerification
    <2>2. verifier = "valid" => message = proof
      BY <2>1, ValidIsGenuine, OnlyReturnedIsGenuine
    <2>3. verifier = "invalid" => message # proof
      BY <2>1, ReturnedIsGenuine DEF IInv, Judged
    <2> QED BY <1>1, <2>1, <2>2, <2>3, SameMessage DEF AcceptsReturnedProofs
  <1> QED BY <1>1, <1>2, <1>3, <1>4, <1>5, <1>6, ClientFrame DEF IInv

LEMMA GetCommitmentInv == ASSUME IInv, GetCommitment PROVE IInv'
  <1>1. /\ verifier = "commitments" /\ checker \in {"commitments", "challenge"}
        /\ UNCHANGED <<clients, index, clientVars, message, checker, vResponses>>
    BY DEF GetCommitment, IInv, ServerStages
  <1>2. PICK taken, rest : /\ Moves(heard.T, vCommits.queue, taken, rest)
                           /\ heard' = [heard EXCEPT !.T = taken]
                           /\ vCommits' = [vCommits EXCEPT !.queue = rest]
    BY DEF GetCommitment, Get, Moves
  <1>3. /\ taken \in Seq(0 .. 3 * clients) /\ rest \in Seq(0 .. 3 * clients)
        /\ Len(taken) = Len(heard.T) + 1 /\ Len(rest) = Len(vCommits.queue) - 1
        /\ Count(taken, rest) = CommitsFed
        /\ Stream(taken, rest, message.T)
    <2>1. heard.T \in Seq(0 .. 3 * clients) /\ vCommits.queue \in Seq(0 .. 3 * clients)
      BY TypeParts DEF IInv
    <2>2. Stream(heard.T, vCommits.queue, message.T)
      BY DEF IInv, Heard
    <2>3. Moves(heard.T, vCommits.queue, taken, rest)
      BY <1>2
    <2>4. /\ taken \in Seq(0 .. 3 * clients) /\ rest \in Seq(0 .. 3 * clients)
          /\ Len(taken) = Len(heard.T) + 1 /\ Len(rest) = Len(vCommits.queue) - 1
          /\ Count(taken, rest) = Count(heard.T, vCommits.queue)
          /\ Stream(taken, rest, message.T)
      BY <2>1, <2>2, <2>3, Taken
    <2> QED BY <2>4 DEF CommitsFed
  <1>4. /\ heard'.T = taken /\ heard'.C = heard.C /\ heard'.R = heard.R /\ heard'.cs = heard.cs
        /\ vCommits'.queue = rest
    BY <1>2 DEF IInv, TypeOK, Transcripts, Bounded
  <1>5. verifier' = IF Len(taken) = 3 * clients THEN "challenge" ELSE "commitments"
    BY <1>1, <1>3 DEF GetCommitment
  <1>6. clients \in Nat /\ Len(taken) \in Nat /\ Len(taken) <= CommitsFed /\ CommitsFed \in Nat
    BY <1>3, CountType, Size DEF IInv
  <1>7. CommitsFed <= 3 * clients /\ (checker = "commitments" => CommitsFed < 3 * clients)
    BY DEF IInv, Heard
  <1>8. verifier' = "challenge" => checker = "challenge"
    BY <1>1, <1>5, <1>6, <1>7
  <1>9. TypeOK'
    <2>1. heard' \in Transcripts
      BY <1>2, <1>3 DEF IInv, TypeOK, Transcripts
    <2>2. vCommits' \in [queue : Seq(0 .. 3 * clients), closed : BOOLEAN]
      BY <1>2, <1>3 DEF IInv, TypeOK, Bounded
    <2>3. Len(vCommits.queue) \in Nat /\ Len(vCommits.queue) <= 3 * clients
      BY TypeParts DEF IInv, TypeOK, Bounded
    <2>4. Len(vCommits'.queue) <= 3 * clients
      BY <1>3, <1>4, <1>6, <2>3
    <2>5. Bounded(vCommits', 0 .. 3 * clients, 3 * clients)
      BY <2>2, <2>4 DEF Bounded
    <2> QED BY <1>1, <1>5, <2>1, <2>5, SameTypes DEF IInv, TypeOK, clientVars
  <1>10. ServerStages'
    BY <1>1, <1>5, <1>8, SameMessage DEF IInv, ServerStages
  <1>11. Heard'
    <2>1. CommitsFed' = CommitsFed /\ ResponsesFed' = ResponsesFed
      BY <1>1, <1>3, <1>4 DEF CommitsFed, ResponsesFed
    <2>2. Len(taken) <= 3 * clients
      BY <1>6, <1>7
    <2>3. verifier' = "commitments" => Len(taken) < 3 * clients
      BY <1>5, <1>6, <2>2
    <2>4. verifier' = "challenge" => Len(taken) = 3 * clients
      BY <1>5
    <2>5. verifier' \in {"commitments", "challenge"}
      BY <1>5
    <2> QED BY <1>1, <1>3, <1>4, <2>1, <2>3, <2>4, <2>5 DEF IInv, Heard
  <1>12. Judged' /\ AcceptsReturnedProofs'
    BY <1>1, <1>5 DEF Judged, AcceptsReturnedProofs
  <1> QED BY <1>1, <1>9, <1>10, <1>11, <1>12, ClientFrame DEF IInv

LEMMA GetResponseInv == ASSUME IInv, GetResponse PROVE IInv'
  <1>1. /\ verifier = "responses" /\ checker \in {"responses", "verdict"}
        /\ UNCHANGED <<clients, index, clientVars, message, checker, vCommits>>
    BY DEF GetResponse, IInv, ServerStages
  <1>2. PICK taken, rest : /\ Moves(heard.R, vResponses.queue, taken, rest)
                           /\ heard' = [heard EXCEPT !.R = taken]
                           /\ vResponses' = [vResponses EXCEPT !.queue = rest]
    BY DEF GetResponse, Get, Moves
  <1>3. /\ taken \in Seq(Responses) /\ rest \in Seq(Responses)
        /\ Len(taken) = Len(heard.R) + 1 /\ Len(rest) = Len(vResponses.queue) - 1
        /\ Count(taken, rest) = ResponsesFed
        /\ Stream(taken, rest, message.R)
    <2>1. heard.R \in Seq(Responses) /\ vResponses.queue \in Seq(Responses)
      BY TypeParts DEF IInv
    <2>2. Stream(heard.R, vResponses.queue, message.R)
      BY DEF IInv, Heard
    <2>3. Moves(heard.R, vResponses.queue, taken, rest)
      BY <1>2
    <2>4. /\ taken \in Seq(Responses) /\ rest \in Seq(Responses)
          /\ Len(taken) = Len(heard.R) + 1 /\ Len(rest) = Len(vResponses.queue) - 1
          /\ Count(taken, rest) = Count(heard.R, vResponses.queue)
          /\ Stream(taken, rest, message.R)
      BY <2>1, <2>2, <2>3, Taken
    <2> QED BY <2>4 DEF ResponsesFed
  <1>4. /\ heard'.T = heard.T /\ heard'.C = heard.C /\ heard'.R = taken /\ heard'.cs = heard.cs
        /\ vResponses'.queue = rest
    BY <1>2 DEF IInv, TypeOK, Transcripts, Bounded
  <1>5. PICK got : got = Len(taken) /\ got = Len(heard.R) + 1
    BY <1>3
  <1>6. verifier' = IF got % 2 = 0 /\ ~ClauseHolds(Clause(got, 2), heard') THEN "invalid"
                    ELSE IF got = 2 * clients THEN "valid" ELSE "responses"
    BY <1>1, <1>5 DEF GetResponse
  <1>7. /\ clients \in Nat /\ got \in Nat /\ got <= ResponsesFed /\ ResponsesFed \in Nat
        /\ Len(heard.R) \in Nat
    <2>1. Len(heard.R) \in Nat /\ clients \in Nat
      BY Size, TypeParts DEF IInv
    <2>2. ResponsesFed \in Nat /\ Len(taken) <= ResponsesFed
      BY <1>3, CountType
    <2> QED BY <1>5, <2>1, <2>2
  <1>8. ResponsesFed <= 2 * clients /\ (checker = "responses" => ResponsesFed < 2 * clients)
    BY DEF IInv, Heard
  <1>9. /\ got \in 1 .. 2 * clients
        /\ got # 2 * clients => got < 2 * clients
    BY <1>5, <1>7, <1>8
  <1>10. verifier' = "valid" => checker = "verdict"
    BY <1>1, <1>6, <1>7, <1>8
  <1>11. TypeOK'
    <2>1. heard' \in Transcripts
      BY <1>2, <1>3 DEF IInv, TypeOK, Transcripts
    <2>2. vResponses' \in [queue : Seq(Responses), closed : BOOLEAN]
      BY <1>2, <1>3 DEF IInv, TypeOK, Bounded
    <2>3. Len(vResponses.queue) \in Nat /\ Len(vResponses.queue) <= 2 * clients
      BY TypeParts DEF IInv, TypeOK, Bounded
    <2>4. Len(vResponses'.queue) <= 2 * clients
      BY <1>3, <1>4, <1>7, <2>3
    <2>5. Bounded(vResponses', Responses, 2 * clients)
      BY <2>2, <2>4 DEF Bounded
    <2> QED BY <1>1, <1>6, <2>1, <2>5, SameTypes DEF IInv, TypeOK, clientVars
  <1>12. ServerStages'
    BY <1>1, <1>6, <1>10, SameMessage DEF IInv, ServerStages
  <1>13. Heard'
    <2>1. CommitsFed' = CommitsFed /\ ResponsesFed' = ResponsesFed
      BY <1>1, <1>3, <1>4 DEF CommitsFed, ResponsesFed
    <2>2. verifier' = "responses" => Len(taken) < 2 * clients
      <3>1. verifier' = "responses" => got # 2 * clients
        BY <1>6
      <3> QED BY <1>5, <1>9, <3>1
    <2>3. verifier' = "valid" => Len(taken) = 2 * clients
      BY <1>5, <1>6
    <2>4. verifier' \in {"responses", "valid", "invalid"}
      BY <1>6
    <2> QED BY <1>1, <1>3, <1>4, <2>1, <2>2, <2>3, <2>4 DEF IInv, Heard
  <1>14. Judged'
    <2>1. /\ DOMAIN heard.R = 1 .. Len(heard.R) /\ DOMAIN taken = 1 .. got
          /\ DOMAIN heard.T = 1 .. 3 * clients
      BY <1>1, <1>3, <1>5, TypeParts DEF IInv, Heard
    <2>2. \A j \in 1 .. Len(heard.R) : taken[j] = heard.R[j]
      BY <1>2, TypeParts DEF Moves, IInv
    <2>3. ASSUME verifier' \in {"responses", "valid"}, NEW k \in 0 .. clients - 1, 2 * k + 2 <= got
          PROVE  ClauseHolds(k, heard')
      <3>1. CASE 2 * k + 2 <= Len(heard.R)
        <4>1. ClauseHolds(k, heard)
          BY <1>1, <3>1 DEF IInv, Judged
        <4>2. \A j \in 1 .. got : Clause(j, 2) = k => j \in 1 .. Len(heard.R)
          <5>1. \A j \in 1 .. got : Clause(j, 2) = k => j <= 2 * k + 2
            <6>1. \A j \in 1 .. got : j \in 1 .. 2 * clients
              BY <1>7, <1>9
            <6>2. \A j \in 1 .. 2 * clients : j <= 2 * Clause(j, 2) + 2
              BY <1>7, ClauseOf
            <6> QED BY <6>1, <6>2
          <5> QED BY <1>7, <3>1, <5>1
        <4> QED BY <1>4, <2>1, <2>2, <4>1, <4>2 DEF ClauseHolds
      <3>2. CASE 2 * k + 2 > Len(heard.R)
        <4>1. got = 2 * k + 2
          BY <1>5, <1>7, <2>3, <3>2
        <4>2. got % 2 = 0 /\ Clause(got, 2) = k
          BY <4>1, SMTT(30) DEF Clause
        <4> QED BY <1>6, <2>3, <4>2
      <3> QED BY <1>7, <3>1, <3>2
    <2>4. ASSUME verifier' = "invalid"
          PROVE  ~Genuine(message)
      <3>1. PICK k : ~ClauseHolds(k, heard')
        BY <1>6, <2>4
      <3>2. /\ \A i \in 1 .. 3 * clients : heard.T[i] = message.T[i]
            /\ heard.C = message.C
        BY <1>1 DEF IInv, Heard, Stream
      <3>3. \A j \in 1 .. got : taken[j] = message.R[j]
        BY <1>3, <1>5 DEF Stream
      <3>4. \A j \in 1 .. got : j \in 1 .. 2 * clients
        BY <1>7, <1>9
      <3>5. ASSUME Genuine(message)
            PROVE  ClauseHolds(k, heard')
        BY <1>4, <2>1, <3>2, <3>3, <3>4, <3>5 DEF Genuine, ClauseHolds
      <3> QED BY <3>1, <3>5
    <2> QED BY <1>1, <1>4, <1>5, <2>3, <2>4, SameMessage DEF Judged
  <1>15. AcceptsReturnedProofs'
    BY <1>1 DEF AcceptsReturnedProofs
  <1> QED BY <1>1, <1>11, <1>12, <1>13, <1>14, <1>15, ClientFrame DEF IInv

LEMMA NextInv == IInv /\ [Next]_vars => IInv'
  <1> SUFFICES ASSUME IInv, [Next]_vars
               PROVE  IInv'
    OBVIOUS
  <1>1. CASE ClientStep
    BY <1>1, BeginProofInv, TakeCommitmentInv, EndCommitmentsInv, ReceiveChallengeInv,
       HandChallengeInv, TakeSubChallengesInv, TakeResponseInv, EndResponsesInv DEF ClientStep
  <1>2. CASE ProverStep
    BY <1>2, PutCommitmentInv, CloseCommitmentsInv, PutResponseInv, EndProverInv DEF ProverStep
  <1>3. CASE CheckerStep
    BY <1>3, BeginVerificationInv, FeedCommitmentInv, FeedChallengeInv, FeedSubChallengesInv,
       FeedResponseInv, VerdictInv DEF CheckerStep
  <1>4. CASE VerifierStep
    BY <1>4, GetCommitmentInv, GetResponseInv DEF VerifierStep
  <1>5. CASE UNCHANGED vars
    <2>1. UNCHANGED <<clients, index, clientVars, message, checker, verifier, vCommits,
                      vResponses, heard>>
      BY <1>5 DEF vars, serverVars
    <2>2. TypeOK'
      BY <2>1, SameTypes DEF IInv, TypeOK, clientVars
    <2>3. ServerStages' /\ Judged' /\ AcceptsReturnedProofs'
      BY <2>1, SameMessage DEF IInv, ServerStages, Judged, AcceptsReturnedProofs
    <2>4. Heard'
      BY <2>1 DEF IInv, Heard, CommitsFed, ResponsesFed
    <2> QED BY <2>1, <2>2, <2>3, <2>4, ClientFrame DEF IInv
  <1> QED BY <1>1, <1>2, <1>3, <1>4, <1>5, ReceiveInv DEF Next

LEMMA Invariant == Spec => []IInv
  BY InitInv, NextInv, PTL DEF Spec

----------------------------------------------------------------------------
(* Every variable has its type: above all, no channel holds more than its  *)
(* capacity, for a context of any size.                                    *)
THEOREM TypeCorrect == Spec => []TypeOK
  <1>1. IInv => TypeOK
    BY DEF IInv
  <1> QED BY <1>1, Invariant, PTL

(* A verification leaves no goroutine behind, and a proof is returned when *)
(* the Prover that made it is done: the read of its error is no race.      *)
THEOREM GoroutinesEnd == Spec => []NoGoroutineLeft
  <1>1. IInv => NoGoroutineLeft
    BY DEF IInv, ClientStages, ServerStages, NoGoroutineLeft, TypeOK
  <1> QED BY <1>1, Invariant, PTL

(* Completeness and soundness of the exchange over the channels: a server  *)
(* accepts what the client's code returned, and nothing that was altered.  *)
THEOREM ReturnedProofsAreAccepted == Spec => []AcceptsReturnedProofs
  <1>1. IInv => AcceptsReturnedProofs
    BY DEF IInv
  <1> QED BY <1>1, Invariant, PTL
=============================================================================
