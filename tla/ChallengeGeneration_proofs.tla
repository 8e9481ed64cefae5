--------------------- MODULE ChallengeGeneration_proofs ---------------------
(***************************************************************************)
(* Proofs about the challenge generation protocol, for any number of       *)
(* nodes, any leader, any order of the indices and any faults.             *)
(***************************************************************************)
EXTENDS ChallengeGeneration, RosterRing_proofs, SequenceTheorems, TLAPS

Own == ServerIndex[Leader]

(* Every index of the context has a key, and its node.                     *)
LEMMA KeyOfIndex ==
    /\ Y \in [Nodes -> Nodes]
    /\ \A i \in Nodes : ServerIndex[Y[i]] = i
    /\ \A n \in Nodes : ServerIndex[n] \in Nodes /\ Y[ServerIndex[n]] = n
  BY ServerIndexAssumption DEF Y, Indices

(* Indices of the children that are all different, and none of them the    *)
(* leader's, are all the other indices.                                    *)
LEMMA EveryIndexTaken ==
    ASSUME NEW index \in [Children -> Nodes], \A c \in Children : index[c] # Own,
           \A c, d \in Children : c # d => index[c] # index[d]
    PROVE  \A i \in Nodes : i = Own \/ \E c \in Children : index[c] = i
  <1> DEFINE f == [n \in Nodes |-> IF n = Leader THEN Own ELSE index[n]]
  <1>1. Own \in Nodes
    BY LeaderAssumption, KeyOfIndex DEF Own
  <1>2. f \in [Nodes -> Nodes] /\ \A m, n \in Nodes : m # n => f[m] # f[n]
    BY <1>1 DEF Children
  <1> HIDE DEF f
  <1>3. \A i \in Nodes : \E n \in Nodes : f[n] = i
    BY <1>2, OntoNodes
  <1> QED BY <1>3 DEF f, Children

----------------------------------------------------------------------------
(* Where the instances stand.                                              *)
InstanceInv ==
    /\ waiter = "idle" <=> phase[Leader] = "idle"
    /\ phase[Leader] = "idle" => msgs = {} /\ commitments[Own] = NoCommitment
    /\ phase[Leader] # "idle" => commitments[Own] \in Commitments /\ openings[Own] \in Points
    /\ phase[Leader] \in {"idle", "announced"} =>
         /\ result = NoResult
         /\ \A i \in Nodes : i # Own => commitments[i] = NoCommitment
         /\ \A m \in msgs : m.type \in {"Announce", "AnnounceReply"}
    /\ phase[Leader] = "publishing" => result # NoResult
    /\ result # NoResult => phase[Leader] \in {"publishing", "done"}
    /\ \A c \in Children : phase[c] \in {"idle", "announced", "opened", "done"}

AllSigned == \A i \in Nodes : VerifyCommitmentSignature(commitments[i], Y[i])

(* What a message in flight says of the nodes: a child that answers has    *)
(* verified the leader's commitment, nothing is opened before all is       *)
(* signed, and a child's signature in the ring is made with its last step. *)
MsgInv(m) ==
    /\ m.type = "Announce" => m.index = Own /\ m.commit = commitments[Own]
    /\ m.type = "AnnounceReply" => VerifyCommitmentSignature(commitments[Own], Y[Own])
    /\ m.type \in {"Open", "OpenReply"} => AllSigned
    /\ m.type = "Finalize" =>
         /\ m.check.commits = commitments
         /\ \A i \in DOMAIN m.check.sigs, c \in Children :
               m.check.sigs[i].by = c => phase[c] = "done"

IInv == TypeOK /\ InstanceInv /\ (\A m \in msgs : MsgInv(m)) /\ ResultGenuine

LEMMA InitInv == Init => IInv
  <1> SUFFICES ASSUME Init
               PROVE  IInv
    OBVIOUS
  <1>1. Leader \in Nodes /\ Own \in Nodes
    BY LeaderAssumption, KeyOfIndex DEF Own
  <1>2. TypeOK
    BY DEF Init, TypeOK, NoResult
  <1>3. InstanceInv
    BY <1>1 DEF Init, InstanceInv, Children
  <1> QED BY <1>2, <1>3 DEF Init, IInv, ResultGenuine

(* The messages of one type, as the types of their fields.                 *)
LEMMA MessageTypes ==
    ASSUME NEW m \in Messages
    PROVE  /\ m.type = "Announce" => m.to \in Children /\ m.commit \in Commitments
                                     /\ m.index \in Nodes
           /\ m.type = "AnnounceReply" => m.from \in Children /\ m.commit \in Commitments
           /\ m.type = "Open" => m.to \in Children /\ m.opening \in Points
           /\ m.type = "OpenReply" => m.from \in Children /\ m.opening \in Points
                                      /\ m.index \in Nodes
           /\ m.type = "Finalize" => m.to \in Nodes /\ m.check \in Checks
           /\ m.type \in {"Announce", "AnnounceReply", "Open", "OpenReply", "Finalize"}
  BY DEF Messages

LEMMA NodeTypes ==
    /\ Leader \in Nodes /\ Own \in Nodes /\ Foreign \in Points /\ Nodes \subseteq Points
    /\ Children \subseteq Nodes /\ Leader \notin Children
    /\ \A n \in Nodes : n = Leader \/ n \in Children
    /\ \A n \in Nodes, value \in Points : OrForeign(n, value) \subseteq Points
    /\ NoCommitment \notin Commitments
  <1>1. Leader \in Nodes /\ Own \in Nodes
    BY LeaderAssumption, KeyOfIndex DEF Own
  <1>2. Foreign \in Points /\ Nodes \subseteq Points
    BY NAssumption DEF Foreign, Points, Nodes
  <1>3. NoCommitment \notin Commitments
    BY DEF NoCommitment, Commitments, Nil, Nodes
  <1> QED BY <1>1, <1>2, <1>3 DEF Children, OrForeign

(* Messages that were there before say the same when commitments have not  *)
(* changed and children that were done still are.                          *)
LEMMA OldMessages ==
    ASSUME IInv, commitments' = commitments,
           \A c \in Children : phase[c] = "done" => phase'[c] = "done",
           NEW m \in msgs
    PROVE  MsgInv(m)'
  BY DEF IInv, MsgInv, AllSigned

(* The leader.                                                             *)
LEMMA StartInv == ASSUME IInv, Start, UNCHANGED faults PROVE IInv'
  <1>1. PICK key \in OrForeign(Leader, Leader), errs \in SendErrors :
          /\ openings' = [openings EXCEPT ![Own] = Leader]
          /\ commitments' = [commitments EXCEPT ![Own] = NewCommitment(Own, key, Leader)]
          /\ msgs' = msgs \cup
               {[type |-> "Announce", to |-> c, commit |-> NewCommitment(Own, key, Leader),
                 index |-> Own] : c \in Children \ errs}
          /\ \/ waiter' = "waiting" /\ phase' = [phase EXCEPT ![Leader] = "announced"]
             \/ waiter' = "failed" /\ phase' = [phase EXCEPT ![Leader] = "done"]
    BY DEF Start, Own
  <1>2. PICK commit : commit = NewCommitment(Own, key, Leader)
    OBVIOUS
  <1>3. commit \in Commitments
    BY <1>1, <1>2, NodeTypes DEF NewCommitment, Commitments
  <1>4. phase[Leader] = "idle" /\ msgs = {}
    BY DEF Start, IInv, InstanceInv
  <1>5. \A m \in msgs' : /\ m \in Messages /\ m.type = "Announce"
                         /\ m.index = Own /\ m.commit = commit
    BY <1>1, <1>2, <1>3, <1>4, NodeTypes DEF Messages
  <1>6. /\ UNCHANGED <<leaderCommit, result, panicked, up, faults>>
        /\ commitments' = [commitments EXCEPT ![Own] = commit]
    BY <1>1, <1>2 DEF Start
  <1>7. TypeOK'
    BY <1>1, <1>3, <1>5, <1>6, NodeTypes DEF IInv, TypeOK
  <1>8. commitments'[Own] = commit /\ \A i \in Nodes : i # Own => commitments'[i] = NoCommitment
    BY <1>4, <1>6, NodeTypes DEF IInv, TypeOK, InstanceInv
  <1>9. InstanceInv'
    BY <1>1, <1>3, <1>4, <1>5, <1>6, <1>8, NodeTypes DEF IInv, TypeOK, InstanceInv
  <1>10. \A m \in msgs' : MsgInv(m)'
    BY <1>5, <1>8 DEF MsgInv
  <1>11. ResultGenuine'
    BY <1>4, <1>6 DEF IInv, InstanceInv, ResultGenuine
  <1> QED BY <1>7, <1>9, <1>10, <1>11 DEF IInv

(* What is saved at different indices is there, and nothing else changes.  *)
LEMMA SavedTable ==
    ASSUME NEW table, NEW value, NEW index, NEW from,
           \A c \in from : index[c] \in Nodes,
           \A c, d \in from : c # d => index[c] # index[d]
    PROVE  /\ \A c \in from : Saved(table, index, value, from)[index[c]] = value[c]
           /\ \A i \in Nodes : (\A c \in from : index[c] # i) =>
                                  Saved(table, index, value, from)[i] = table[i]
  <1>1. ASSUME NEW c \in from
        PROVE  Saved(table, index, value, from)[index[c]] = value[c]
    <2>1. (CHOOSE d \in from : index[d] = index[c]) = c
      OBVIOUS
    <2> QED BY <2>1 DEF Saved
  <1> QED BY <1>1 DEF Saved

(* A reply: the commitment of a child, at the index it says.               *)
LEMMA Replied ==
    ASSUME IInv, NEW reply \in Aggregated("AnnounceReply"),
           NEW commit, commit = [c \in Children |-> reply[c].commit],
           NEW index, index = [c \in Children |-> commit[c].index]
    PROVE  /\ \A c \in Children : commit[c] \in Commitments /\ index[c] = commit[c].index
           /\ index \in [Children -> Nodes]
           /\ VerifyCommitmentSignature(commitments[Own], Y[Own])
  <1>1. \A c \in Children : reply[c] \in msgs /\ reply[c].type = "AnnounceReply"
    BY DEF Aggregated, Replies
  <1>2. \A c \in Children : commit[c] \in Commitments /\ index[c] = commit[c].index
    BY <1>1, MessageTypes DEF IInv, TypeOK
  <1>3. index \in [Children -> Nodes]
    BY <1>2 DEF Commitments
  <1>4. PICK c \in Children : TRUE
    BY DEF Aggregated
  <1>5. VerifyCommitmentSignature(commitments[Own], Y[Own])
    BY <1>1, <1>4 DEF IInv, MsgInv
  <1> QED BY <1>2, <1>3, <1>5

(* What is saved of some of the replies.                                   *)
LEMMA SomeSaved ==
    ASSUME IInv, phase[Leader] = "announced", NEW reply \in Aggregated("AnnounceReply"),
           NEW commit, commit = [c \in Children |-> reply[c].commit],
           NEW index, index = [c \in Children |-> commit[c].index],
           NEW handled \in SUBSET Children, Savable(commitments, NoCommitment, index, handled),
           commitments' = Saved(commitments, index, commit, handled)
    PROVE  /\ commitments' \in [Nodes -> Commitments \cup {NoCommitment}]
           /\ commitments'[Own] = commitments[Own]
           /\ \A c \in handled : index[c] # Own /\ commitments'[index[c]] = commit[c]
           /\ \A c, d \in handled : c # d => index[c] # index[d]
  <1>1. /\ commitments \in [Nodes -> Commitments \cup {NoCommitment}]
        /\ commitments[Own] \in Commitments
    BY DEF IInv, TypeOK, InstanceInv
  <1>2. /\ \A c \in Children : commit[c] \in Commitments /\ index[c] = commit[c].index
        /\ index \in [Children -> Nodes]
    BY Replied
  <1>3. /\ \A c \in handled : index[c] # Own
        /\ \A c, d \in handled : c # d => index[c] # index[d]
    BY <1>1, NodeTypes DEF Savable
  <1>4. /\ \A c \in handled : commitments'[index[c]] = commit[c]
        /\ \A i \in Nodes : (\A c \in handled : index[c] # i) => commitments'[i] = commitments[i]
    <2>1. \A c \in handled : index[c] \in Nodes
      BY <1>2
    <2>2. /\ \A c \in handled : Saved(commitments, index, commit, handled)[index[c]] = commit[c]
          /\ \A i \in Nodes : (\A c \in handled : index[c] # i) =>
                Saved(commitments, index, commit, handled)[i] = commitments[i]
      <3>1. \A c, d \in handled : c # d => index[c] # index[d]
        BY <1>3
      <3> QED BY ONLY <2>1, <3>1, SavedTable
    <2> QED BY <2>2
  <1>5. commitments'[Own] = commitments[Own]
    BY <1>3, <1>4, NodeTypes
  <1>6. \A i \in Nodes : commitments'[i] \in Commitments \cup {NoCommitment}
    BY <1>1, <1>2, <1>4
  <1>7. commitments' \in [Nodes -> Commitments \cup {NoCommitment}]
    BY <1>6 DEF Saved
  <1> QED BY <1>3, <1>4, <1>5, <1>7

(* The commitments the leader has saved when it shows its opening.         *)
LEMMA SavedCommitments ==
    ASSUME IInv, phase[Leader] = "announced", NEW reply \in Aggregated("AnnounceReply"),
           NEW commit, commit = [c \in Children |-> reply[c].commit],
           NEW index, index = [c \in Children |-> commit[c].index],
           \A c \in Children : VerifyCommitmentSignature(commit[c], Y[index[c]]),
           Savable(commitments, NoCommitment, index, Children),
           commitments' = Saved(commitments, index, commit, Children)
    PROVE  /\ commitments' \in [Nodes -> Commitments]
           /\ AllSigned'
  <1>1. commitments[Own] \in Commitments
    BY DEF IInv, InstanceInv
  <1>2. /\ \A c \in Children : commit[c] \in Commitments /\ index[c] = commit[c].index
        /\ index \in [Children -> Nodes]
        /\ VerifyCommitmentSignature(commitments[Own], Y[Own])
    BY Replied
  <1>3. /\ commitments'[Own] = commitments[Own]
        /\ \A c \in Children : index[c] # Own /\ commitments'[index[c]] = commit[c]
        /\ \A c, d \in Children : c # d => index[c] # index[d]
    BY SomeSaved
  <1>4. \A i \in Nodes : i = Own \/ \E c \in Children : index[c] = i
    BY <1>2, <1>3, EveryIndexTaken
  <1>5. \A i \in Nodes : /\ commitments'[i] \in Commitments
                        /\ VerifyCommitmentSignature(commitments'[i], Y[i])
    <2> TAKE i \in Nodes
    <2>1. CASE i = Own
      BY <1>1, <1>2, <1>3, <2>1
    <2>2. ASSUME NEW c \in Children, index[c] = i
          PROVE  /\ commitments'[i] \in Commitments
                 /\ VerifyCommitmentSignature(commitments'[i], Y[i])
      <3>1. commitments'[i] = commit[c] /\ VerifyCommitmentSignature(commit[c], Y[i])
        BY <1>3, <2>2
      <3> QED BY <1>2, <3>1
    <2> QED BY <1>4, <2>1, <2>2
  <1>6. commitments' \in [Nodes -> Commitments]
    BY <1>5 DEF Saved
  <1>7. AllSigned'
    BY <1>5 DEF AllSigned, VerifyCommitmentSignature
  <1> QED BY <1>6, <1>7

LEMMA HandleAnnounceReplyInv == ASSUME IInv, HandleAnnounceReply, UNCHANGED faults PROVE IInv'
  <1>1. PICK reply \in Aggregated("AnnounceReply"), handled \in SUBSET Children,
             errs \in SendErrors, opening \in OrForeign(Leader, openings[Own]) :
         LET commit == [c \in Children |-> reply[c].commit]
             index == [c \in Children |-> commit[c].index]
             verified == {c \in Children : VerifyCommitmentSignature(commit[c], Y[index[c]])}
         IN
           /\ handled \subseteq verified /\ Savable(commitments, NoCommitment, index, handled)
           /\ \/ /\ handled = Children
                 /\ commitments' = Saved(commitments, index, commit, handled)
                 /\ msgs' = (msgs \ Replies("AnnounceReply")) \cup
                      {[type |-> "Open", to |-> c, opening |-> opening] : c \in Children \ errs}
                 /\ phase' = [phase EXCEPT ![Leader] = IF errs = {} THEN "opened" ELSE "done"]
                 /\ UNCHANGED panicked
              \/ /\ Children \ verified # {}
                 /\ commitments' = Saved(commitments, index, commit, handled)
                 /\ msgs' = msgs \ Replies("AnnounceReply")
                 /\ phase' = [phase EXCEPT ![Leader] = "done"]
                 /\ UNCHANGED panicked
              \/ /\ \E c \in verified \ handled :
                      ~Savable(commitments, NoCommitment, index, handled \cup {c})
                 /\ panicked' = panicked \cup {Leader}
                 /\ UNCHANGED <<commitments, msgs, phase>>
    BY DEF HandleAnnounceReply, Own
  <1>2. /\ phase[Leader] = "announced"
        /\ UNCHANGED <<waiter, openings, leaderCommit, result, up, faults>>
    BY DEF HandleAnnounceReply
  <1>3. PICK commit, index : /\ commit = [c \in Children |-> reply[c].commit]
                             /\ index = [c \in Children |-> commit[c].index]
    OBVIOUS
  <1>4. Savable(commitments, NoCommitment, index, handled)
    BY <1>1, <1>3
  <1>5. CASE /\ UNCHANGED commitments \/ commitments' = Saved(commitments, index, commit, handled)
             /\ msgs' \subseteq msgs
             /\ UNCHANGED <<phase, commitments>> \/ phase' = [phase EXCEPT ![Leader] = "done"]
             /\ panicked' \subseteq panicked \cup {Leader}
    <2>1. /\ commitments' \in [Nodes -> Commitments \cup {NoCommitment}]
          /\ commitments'[Own] = commitments[Own]
      BY <1>2, <1>3, <1>4, <1>5, SomeSaved DEF IInv, TypeOK
    <2>2. TypeOK'
      BY <1>2, <1>5, <2>1, NodeTypes DEF IInv, TypeOK
    <2>3. InstanceInv'
      BY <1>2, <1>5, <2>1, NodeTypes DEF IInv, TypeOK, InstanceInv
    <2>4. \A m \in msgs' : MsgInv(m)'
      BY <1>2, <1>5, <2>1 DEF IInv, InstanceInv, MsgInv
    <2>5. ResultGenuine'
      BY <1>2 DEF IInv, InstanceInv, ResultGenuine
    <2> QED BY <2>2, <2>3, <2>4, <2>5 DEF IInv
  <1>6. CASE /\ commitments' \in [Nodes -> Commitments]
             /\ commitments'[Own] = commitments[Own]
             /\ AllSigned'
             /\ msgs' = (msgs \ Replies("AnnounceReply")) \cup
                  {[type |-> "Open", to |-> c, opening |-> opening] : c \in Children \ errs}
             /\ phase' = [phase EXCEPT ![Leader] = IF errs = {} THEN "opened" ELSE "done"]
             /\ UNCHANGED panicked
    <2>1. opening \in Points
      <3>1. openings[Own] \in Points
        BY <1>2 DEF IInv, InstanceInv
      <3> QED BY <3>1, NodeTypes
    <2>2. \A m \in msgs' : m \in msgs \/ (m \in Messages /\ m.type = "Open")
      BY <1>6, <2>1 DEF Messages
    <2>3. TypeOK'
      BY <1>2, <1>6, <2>2, NodeTypes DEF IInv, TypeOK
    <2>4. InstanceInv'
      BY <1>2, <1>6, NodeTypes DEF IInv, TypeOK, InstanceInv
    <2>5. \A m \in msgs' : MsgInv(m)'
      BY <1>2, <1>6, <2>2 DEF IInv, InstanceInv, MsgInv
    <2>6. ResultGenuine'
      BY <1>2 DEF IInv, InstanceInv, ResultGenuine
    <2> QED BY <2>3, <2>4, <2>5, <2>6 DEF IInv
  <1>7. ASSUME handled = Children, commitments' = Saved(commitments, index, commit, handled)
        PROVE  /\ commitments' \in [Nodes -> Commitments]
               /\ commitments'[Own] = commitments[Own]
               /\ AllSigned'
    <2>1. \A c \in Children : VerifyCommitmentSignature(commit[c], Y[index[c]])
      BY <1>1, <1>3, <1>7
    <2> QED BY <1>2, <1>3, <1>4, <1>7, <2>1, SavedCommitments, SomeSaved
  <1> QED BY <1>1, <1>3, <1>5, <1>6, <1>7

(* What is sent on is a challenge for a server.                            *)
LEMMA SentToNextServer ==
    ASSUME NEW n \in Nodes, NEW check \in Checks, NEW m \in SendToNextServer(n, check)
    PROVE  m \in Messages /\ m.type = "Finalize" /\ m.check = check
  <1>1. NextServer(n) \in Nodes
    BY RingOrder, NAssumption DEF Nodes
  <1> QED BY <1>1 DEF SendToNextServer, Messages

(* A server that updates a challenge, or forwards one, adds signatures of  *)
(* nobody but itself.                                                      *)
LEMMA Updated ==
    ASSUME NEW n \in Nodes, NEW check \in Checks, Len(check.sigs) # N
    PROVE  LET new == UpdateChallenge(n, check)
           IN  /\ new \in Checks /\ new.commits = check.commits
               /\ Len(new.sigs) > 0
               /\ \A i \in DOMAIN new.sigs :
                    new.sigs[i].by = n \/ \E j \in DOMAIN check.sigs : new.sigs[i] = check.sigs[j]
  <1> DEFINE T == SigSet
             sign == Sign(n, check.cs)
  <1>1. check.sigs \in Seq(T) /\ check.cs \in SUBSET Points
    BY DEF Checks
  <1>2. sign \in T /\ sign.by = n
    BY <1>1, KeyOfIndex, NodeTypes DEF Sign, SigSet
  <1>3. UpdateChallenge(n, check) = [check EXCEPT !.sigs = Append(check.sigs, sign)]
    BY DEF UpdateChallenge
  <1> HIDE DEF T, sign
  <1>4. PICK sigs : sigs = Append(check.sigs, sign)
    OBVIOUS
  <1>5. /\ sigs \in Seq(T) /\ Len(sigs) > 0
        /\ \A i \in DOMAIN sigs : sigs[i] = sign \/ \E j \in DOMAIN check.sigs : sigs[i] = check.sigs[j]
    BY <1>1, <1>2, <1>4
  <1>6. [check EXCEPT !.sigs = sigs] \in Checks
    BY <1>5 DEF Checks, T
  <1>7. /\ [check EXCEPT !.sigs = sigs].sigs = sigs
        /\ [check EXCEPT !.sigs = sigs].commits = check.commits
    BY DEF Checks
  <1> QED BY <1>2, <1>3, <1>4, <1>5, <1>6, <1>7

LEMMA ForwardedCheck ==
    ASSUME NEW n \in Nodes, NEW check \in Checks, Len(check.sigs) > 0,
           NEW sent \in Forwarded(n, check)
    PROVE  /\ sent \in Checks /\ sent.commits = check.commits
           /\ \A i \in DOMAIN sent.sigs : \E j \in DOMAIN check.sigs : sent.sigs[i] = check.sigs[j]
  <1>1. check.sigs \in Seq(SigSet) /\ check.cs \in SUBSET Points
    BY DEF Checks
  <1>2. CASE sent = check
    BY <1>2
  <1>3. CASE sent = [check EXCEPT !.cs = check.cs \cup {Foreign}]
    BY <1>1, <1>3, NodeTypes DEF Checks
  <1>4. CASE sent = [check EXCEPT !.sigs = Tail(check.sigs)]
    <2> DEFINE T == SigSet
    <2>1. check.sigs \in Seq(T)
      BY <1>1
    <2> HIDE DEF T
    <2>2. /\ Tail(check.sigs) \in Seq(T)
          /\ \A i \in DOMAIN Tail(check.sigs) : /\ i + 1 \in DOMAIN check.sigs
                                                /\ Tail(check.sigs)[i] = check.sigs[i + 1]
      BY <2>1
    <2>3. sent.sigs = Tail(check.sigs) /\ sent.commits = check.commits
      BY <1>4 DEF Checks
    <2>4. sent \in Checks
      BY <1>4, <2>2 DEF Checks, T
    <2> QED BY <2>2, <2>3, <2>4
  <1> QED BY <1>2, <1>3, <1>4 DEF Forwarded

(* The openings the leader has when it signs the challenge.                *)
LEMMA SavedOpenings ==
    ASSUME IInv, phase[Leader] = "opened", NEW reply \in Aggregated("OpenReply"),
           NEW index, index = [c \in Children |-> reply[c].index],
           NEW opening, opening = [c \in Children |-> reply[c].opening],
           Savable(openings, Nil, index, Children)
    PROVE  /\ Saved(openings, index, opening, Children) \in [Nodes -> Points]
           /\ Saved(openings, index, opening, Children)[Own] = openings[Own]
  <1> DEFINE all == Saved(openings, index, opening, Children)
  <1>1. openings \in [Nodes -> Points \cup {Nil}] /\ openings[Own] \in Points
    BY DEF IInv, TypeOK, InstanceInv
  <1>2. \A c \in Children : reply[c] \in msgs /\ reply[c].type = "OpenReply"
    BY DEF Aggregated, Replies
  <1>3. \A c \in Children : opening[c] \in Points
    BY <1>2, MessageTypes DEF IInv, TypeOK
  <1>4. Nil \notin Points
    BY DEF Nil, Points
  <1>5. /\ index \in [Children -> Nodes]
        /\ \A c \in Children : index[c] # Own
        /\ \A c, d \in Children : c # d => index[c] # index[d]
    BY <1>1, <1>4 DEF Savable
  <1>6. \A c \in Children : all[index[c]] = opening[c]
    <2>1. \A c \in Children : index[c] \in Nodes
      BY <1>5
    <2> QED BY <1>5, <2>1, SavedTable
  <1>7. all[Own] = openings[Own]
    BY <1>5, SavedTable, NodeTypes
  <1>8. \A i \in Nodes : i = Own \/ \E c \in Children : index[c] = i
    BY <1>5, EveryIndexTaken
  <1>9. ASSUME NEW i \in Nodes
        PROVE  all[i] \in Points
    <2>1. CASE i = Own
      BY <1>1, <1>7, <2>1
    <2>2. ASSUME NEW c \in Children, index[c] = i
          PROVE  all[i] \in Points
      <3>1. all[i] = opening[c]
        BY <1>6, <2>2
      <3> QED BY <1>3, <3>1
    <2> QED BY <1>8, <2>1, <2>2
  <1>10. all \in [Nodes -> Points]
    BY <1>9 DEF Saved
  <1> QED BY <1>7, <1>10

LEMMA HandleOpenReplyInv == ASSUME IInv, HandleOpenReply, UNCHANGED faults PROVE IInv'
  <1>1. /\ phase[Leader] = "opened"
        /\ UNCHANGED <<waiter, commitments, leaderCommit, result, up, faults>>
    BY DEF HandleOpenReply
  <1>2. PICK reply \in Aggregated("OpenReply") :
         LET index == [c \in Children |-> reply[c].index]
             all == Saved(openings, index, [c \in Children |-> reply[c].opening], Children)
             check == [commits |-> commitments, openings |-> all, cs |-> Sum(all), sigs |-> <<>>]
             savable == Savable(openings, Nil, index, Children)
         IN  \/ /\ savable /\ CheckChallenge(check)
                /\ openings' = all
                /\ msgs' = (msgs \ Replies("OpenReply")) \cup
                             SendToNextServer(Leader, UpdateChallenge(Leader, check))
                /\ phase' = [phase EXCEPT ![Leader] = "finalizing"]
                /\ UNCHANGED panicked
             \/ /\ savable /\ ~CheckChallenge(check)
                /\ openings' = all
                /\ msgs' = msgs \ Replies("OpenReply")
                /\ phase' = [phase EXCEPT ![Leader] = "done"]
                /\ UNCHANGED panicked
             \/ /\ ~savable
                /\ panicked' = panicked \cup {Leader}
                /\ UNCHANGED <<openings, msgs, phase>>
    BY DEF HandleOpenReply
  <1> DEFINE index == [c \in Children |-> reply[c].index]
             opening == [c \in Children |-> reply[c].opening]
             all == Saved(openings, index, opening, Children)
             check == [commits |-> commitments, openings |-> all, cs |-> Sum(all), sigs |-> <<>>]
  <1>3. Savable(openings, Nil, index, Children) => all \in [Nodes -> Points] /\ all[Own] = openings[Own]
    BY <1>1, SavedOpenings
  <1> HIDE DEF index, opening
  <1>4. CASE /\ Savable(openings, Nil, index, Children) /\ CheckChallenge(check)
             /\ openings' = all
             /\ msgs' = (msgs \ Replies("OpenReply")) \cup
                          SendToNextServer(Leader, UpdateChallenge(Leader, check))
             /\ phase' = [phase EXCEPT ![Leader] = "finalizing"]
             /\ UNCHANGED panicked
    <2>1. all \in [Nodes -> Points] /\ all[Own] = openings[Own]
      BY <1>3, <1>4
    <2>2. PICK ck : ck = check
      OBVIOUS
    <2>3. /\ ck.commits = commitments /\ ck.openings = all /\ ck.cs = Sum(all) /\ ck.sigs = <<>>
          /\ CheckChallenge(ck)
      BY <1>4, <2>2
    <2>4. \A i \in Nodes : commitments[i].index = i
      BY <2>3 DEF CheckChallenge
    <2>5. commitments \in [Nodes -> Commitments]
      <3>1. \A i \in Nodes : commitments[i] # NoCommitment
        BY <2>4 DEF NoCommitment, Nil, Nodes
      <3> QED BY <3>1 DEF IInv, TypeOK
    <2>6. Sum(all) \in SUBSET Points
      BY <2>1 DEF Sum
    <2>7. ck \in Checks
      <3>1. <<>> \in Seq(SigSet)
        OBVIOUS
      <3> QED BY <2>1, <2>2, <2>5, <2>6, <3>1 DEF Checks
    <2>8. PICK new : new = UpdateChallenge(Leader, ck)
      OBVIOUS
    <2>9. /\ new \in Checks /\ new.commits = commitments
          /\ \A i \in DOMAIN new.sigs : new.sigs[i].by = Leader
      <3>1. Len(ck.sigs) # N /\ DOMAIN ck.sigs = {}
        BY <2>3, NAssumption
      <3> QED BY <2>3, <2>7, <2>8, <3>1, Updated, NodeTypes
    <2>10. \A m \in msgs' : \/ m \in msgs
                            \/ m \in Messages /\ m.type = "Finalize" /\ m.check = new
      BY <1>4, <2>2, <2>8, <2>9, SentToNextServer, NodeTypes
    <2>11. TypeOK'
      <3>1. openings' \in [Nodes -> Points \cup {Nil}]
        BY <1>4, <2>1
      <3>2. msgs' \subseteq Messages
        BY <2>10 DEF IInv, TypeOK
      <3> QED BY <1>1, <1>4, <3>1, <3>2 DEF IInv, TypeOK
    <2>12. InstanceInv'
      BY <1>1, <1>4, <2>1, NodeTypes DEF IInv, TypeOK, InstanceInv
    <2>13. \A m \in msgs' : MsgInv(m)'
      <3> SUFFICES ASSUME NEW m \in msgs'
                   PROVE  MsgInv(m)'
        OBVIOUS
      <3>1. CASE m \in msgs
        BY <1>1, <1>4, <3>1, OldMessages, NodeTypes DEF IInv, TypeOK
      <3>2. CASE m.type = "Finalize" /\ m.check = new
        BY <1>1, <2>9, <3>2, NodeTypes DEF MsgInv
      <3> QED BY <2>10, <3>1, <3>2
    <2>14. ResultGenuine'
      BY <1>1 DEF IInv, InstanceInv, ResultGenuine
    <2> QED BY <2>11, <2>12, <2>13, <2>14 DEF IInv
  <1>5. CASE /\ openings' = openings \/ (Savable(openings, Nil, index, Children) /\ openings' = all)
             /\ msgs' \subseteq msgs
             /\ phase' = phase \/ phase' = [phase EXCEPT ![Leader] = "done"]
             /\ panicked' \subseteq panicked \cup {Leader}
    <2>1. /\ openings' \in [Nodes -> Points \cup {Nil}]
          /\ openings'[Own] = openings[Own]
      BY <1>3, <1>5 DEF IInv, TypeOK
    <2>2. TypeOK'
      BY <1>1, <1>5, <2>1, NodeTypes DEF IInv, TypeOK
    <2>3. InstanceInv'
      BY <1>1, <1>5, <2>1, NodeTypes DEF IInv, TypeOK, InstanceInv
    <2>4. \A m \in msgs' : MsgInv(m)'
      BY <1>1, <1>5, OldMessages, NodeTypes DEF IInv, TypeOK
    <2>5. ResultGenuine'
      BY <1>1 DEF IInv, InstanceInv, ResultGenuine
    <2> QED BY <2>2, <2>3, <2>4, <2>5 DEF IInv
  <1> QED BY <1>2, <1>4, <1>5 DEF index, opening

(* The API goroutine, and a node that stops.                               *)
LEMMA OthersInv ==
    ASSUME IInv, UNCHANGED faults,
           PublishResult \/ WaitTimeout \/ \E n \in Nodes : Crash(n)
    PROVE  IInv'
  <1>1. UNCHANGED <<commitments, openings, leaderCommit, result, panicked, msgs, faults>>
    BY DEF PublishResult, WaitTimeout, Crash
  <1>2. \/ /\ phase[Leader] = "publishing" /\ waiter = "waiting"
           /\ phase' = [phase EXCEPT ![Leader] = "done"]
           /\ waiter' = "replied" /\ up' = up
        \/ phase' = phase /\ waiter = "waiting" /\ waiter' = "failed" /\ up' = up
        \/ phase' = phase /\ waiter' = waiter /\ \E n \in Nodes : up' = [up EXCEPT ![n] = FALSE]
    BY DEF PublishResult, WaitTimeout, Crash
  <1>3. TypeOK'
    BY <1>1, <1>2, NodeTypes DEF IInv, TypeOK
  <1>4. InstanceInv'
    BY <1>1, <1>2, NodeTypes DEF IInv, TypeOK, InstanceInv
  <1>5. \A m \in msgs' : MsgInv(m)'
    BY <1>1, <1>2, OldMessages, NodeTypes DEF IInv, TypeOK
  <1>6. ResultGenuine'
    BY <1>1 DEF IInv, ResultGenuine
  <1> QED BY <1>3, <1>4, <1>5, <1>6 DEF IInv

(* The children.                                                           *)
LEMMA HandleAnnounceInv ==
    ASSUME IInv, NEW c \in Children, HandleAnnounce(c), UNCHANGED faults
    PROVE  IInv'
  <1>1. /\ phase[c] = "idle"
        /\ UNCHANGED <<waiter, commitments, openings, result, panicked, up, faults>>
    BY DEF HandleAnnounce
  <1>2. PICK m \in Inbox(c, "Announce") :
         \/ /\ VerifyCommitmentSignature(m.commit, Y[m.index])
            /\ leaderCommit' = [leaderCommit EXCEPT ![c] = m.commit]
            /\ \E commit \in {NewCommitment(ServerIndex[c], key, c) : key \in OrForeign(c, c)}
                             \cup IF c \in faults.faulty THEN {m.commit} ELSE {} :
                 msgs' = (msgs \ {m}) \cup
                           {[type |-> "AnnounceReply", from |-> c, commit |-> commit]}
            /\ phase' = [phase EXCEPT ![c] = "announced"]
         \/ /\ msgs' = msgs \ {m}
            /\ phase' = [phase EXCEPT ![c] = "done"]
            /\ UNCHANGED leaderCommit
    BY DEF HandleAnnounce
  <1>3. m \in msgs /\ m.type = "Announce" /\ m.commit \in Commitments
    BY MessageTypes DEF Inbox, IInv, TypeOK
  <1>4. phase' \in {[phase EXCEPT ![c] = "announced"], [phase EXCEPT ![c] = "done"]}
    BY <1>2
  <1>5. leaderCommit' \in [Children -> Commitments \cup {NoCommitment}]
    BY <1>2, <1>3 DEF IInv, TypeOK
  <1>6. \A r \in msgs' : \/ r \in msgs
                         \/ /\ r \in Messages /\ r.type = "AnnounceReply"
                            /\ VerifyCommitmentSignature(commitments[Own], Y[Own])
    <2>1. CASE msgs' = msgs \ {m}
      BY <2>1
    <2>2. ASSUME VerifyCommitmentSignature(m.commit, Y[m.index]),
                 NEW commit \in {NewCommitment(ServerIndex[c], key, c) : key \in OrForeign(c, c)}
                                \cup IF c \in faults.faulty THEN {m.commit} ELSE {},
                 msgs' = (msgs \ {m}) \cup
                           {[type |-> "AnnounceReply", from |-> c, commit |-> commit]}
          PROVE  \A r \in msgs' : \/ r \in msgs
                                  \/ /\ r \in Messages /\ r.type = "AnnounceReply"
                                     /\ VerifyCommitmentSignature(commitments[Own], Y[Own])
      <3>1. c \in Nodes /\ ServerIndex[c] \in Nodes
        BY NodeTypes, KeyOfIndex
      <3>2. commit \in Commitments
        BY <1>3, <2>2, <3>1, NodeTypes DEF NewCommitment, Commitments
      <3>3. VerifyCommitmentSignature(commitments[Own], Y[Own])
        BY <1>3, <2>2 DEF IInv, MsgInv
      <3> QED BY <2>2, <3>2, <3>3 DEF Messages
    <2> QED BY <1>2, <2>1, <2>2
  <1>7. TypeOK'
    <2>1. msgs' \subseteq Messages
      BY <1>6 DEF IInv, TypeOK
    <2> QED BY <1>1, <1>4, <1>5, <2>1 DEF IInv, TypeOK
  <1>8. InstanceInv'
    BY <1>1, <1>3, <1>4, <1>6, NodeTypes DEF IInv, TypeOK, InstanceInv
  <1>9. \A r \in msgs' : MsgInv(r)'
    <2>1. \A d \in Children : phase[d] = "done" => phase'[d] = "done"
      BY <1>1, <1>4, NodeTypes DEF IInv, TypeOK
    <2>2. \A r \in msgs : MsgInv(r)'
      BY <1>1, <2>1, OldMessages
    <2>3. \A r \in msgs' : r.type = "AnnounceReply"
              /\ VerifyCommitmentSignature(commitments[Own], Y[Own]) => MsgInv(r)'
      BY <1>1 DEF MsgInv
    <2> QED BY <1>6, <2>2, <2>3
  <1>10. ResultGenuine'
    BY <1>1 DEF IInv, ResultGenuine
  <1> QED BY <1>7, <1>8, <1>9, <1>10 DEF IInv

LEMMA HandleOpenInv ==
    ASSUME IInv, NEW c \in Children, HandleOpen(c), UNCHANGED faults
    PROVE  IInv'
  <1>1. /\ phase[c] = "announced"
        /\ UNCHANGED <<waiter, commitments, openings, leaderCommit, result, panicked, up, faults>>
    BY DEF HandleOpen
  <1>2. PICK m \in Inbox(c, "Open") :
         \/ /\ \E opening \in OrForeign(c, c),
                  index \in {ServerIndex[c]} \cup IF c \in faults.faulty THEN Nodes ELSE {} :
                 msgs' = (msgs \ {m}) \cup
                   {[type |-> "OpenReply", from |-> c, opening |-> opening, index |-> index]}
            /\ phase' = [phase EXCEPT ![c] = "opened"]
         \/ /\ msgs' = msgs \ {m}
            /\ phase' = [phase EXCEPT ![c] = "done"]
    BY DEF HandleOpen
  <1>3. m \in msgs /\ m.type = "Open" /\ AllSigned
    BY DEF Inbox, IInv, MsgInv
  <1>4. phase' \in {[phase EXCEPT ![c] = "opened"], [phase EXCEPT ![c] = "done"]}
    BY <1>2
  <1>5. \A r \in msgs' : r \in msgs \/ (r \in Messages /\ r.type = "OpenReply")
    <2>1. c \in Nodes /\ ServerIndex[c] \in Nodes /\ OrForeign(c, c) \subseteq Points
      BY NodeTypes, KeyOfIndex
    <2> QED BY <1>2, <2>1 DEF Messages
  <1>6. TypeOK'
    <2>1. msgs' \subseteq Messages
      BY <1>5 DEF IInv, TypeOK
    <2> QED BY <1>1, <1>4, <2>1 DEF IInv, TypeOK
  <1>7. InstanceInv'
    BY <1>1, <1>3, <1>4, <1>5, NodeTypes DEF IInv, TypeOK, InstanceInv
  <1>8. \A r \in msgs' : MsgInv(r)'
    <2>1. \A d \in Children : phase[d] = "done" => phase'[d] = "done"
      BY <1>1, <1>4, NodeTypes DEF IInv, TypeOK
    <2>2. \A r \in msgs : MsgInv(r)'
      BY <1>1, <2>1, OldMessages
    <2>3. \A r \in msgs' : r.type = "OpenReply" => MsgInv(r)'
      BY <1>1, <1>3 DEF MsgInv, AllSigned
    <2> QED BY <1>5, <2>2, <2>3
  <1>9. ResultGenuine'
    BY <1>1 DEF IInv, ResultGenuine
  <1> QED BY <1>6, <1>7, <1>8, <1>9 DEF IInv

(* The ring.  A check with N valid signatures has one of every server.     *)
LEMMA AllSignatures ==
    ASSUME NEW check \in Checks, CheckChallenge(check), Len(check.sigs) = N
    PROVE  /\ \A n \in Nodes : \E i \in DOMAIN check.sigs : check.sigs[i].by = n
           /\ {check.sigs[i] : i \in 1 .. N} = {Sign(n, check.cs) : n \in Nodes}
           /\ check.cs = {check.commits[i].opens : i \in Nodes}
  <1> DEFINE sigs == check.sigs
  <1>1. sigs \in Seq(SigSet) /\ N \in Nat /\ DOMAIN sigs = 1 .. N
    BY NAssumption DEF Checks
  <1>2. \A i \in DOMAIN sigs : sigs[i] \in SigSet
    BY <1>1
  <1>3. \A i \in DOMAIN sigs : /\ sigs[i].index \in Nodes
                               /\ sigs[i].by = Y[sigs[i].index] /\ sigs[i].on = check.cs
    BY <1>2 DEF CheckChallenge, VerifySignatures, SigSet
  <1>4. \A k \in Nodes : \E i \in DOMAIN sigs : sigs[i].index = k
    BY <1>1, <1>3, AllAreThere DEF CheckChallenge, VerifySignatures
  <1>5. \A i \in DOMAIN sigs : sigs[i].by \in Nodes /\ sigs[i] = Sign(sigs[i].by, check.cs)
    <2> TAKE i \in DOMAIN sigs
    <2>1. sigs[i].by \in Nodes /\ ServerIndex[sigs[i].by] = sigs[i].index
      BY <1>3, KeyOfIndex
    <2>2. sigs[i] = [index |-> sigs[i].index, by |-> sigs[i].by, on |-> sigs[i].on]
      BY <1>2 DEF SigSet
    <2> QED BY <1>3, <2>1, <2>2 DEF Sign
  <1>6. \A n \in Nodes : \E i \in DOMAIN sigs : sigs[i].by = n
    <2> TAKE n \in Nodes
    <2>1. ServerIndex[n] \in Nodes /\ Y[ServerIndex[n]] = n
      BY KeyOfIndex
    <2>2. PICK i \in DOMAIN sigs : sigs[i].index = ServerIndex[n]
      BY <1>4, <2>1
    <2> QED BY <1>3, <2>1, <2>2
  <1>7. {sigs[i] : i \in 1 .. N} = {Sign(n, check.cs) : n \in Nodes}
    <2>1. \A i \in 1 .. N : \E n \in Nodes : sigs[i] = Sign(n, check.cs)
      BY <1>1, <1>5
    <2>2. \A n \in Nodes : \E i \in 1 .. N : sigs[i] = Sign(n, check.cs)
      BY <1>1, <1>5, <1>6
    <2> QED BY <2>1, <2>2
  <1>8. check.cs = {check.commits[i].opens : i \in Nodes}
    BY DEF CheckChallenge, OpeningsMatch, CheckOpening, Sum
  <1> QED BY <1>6, <1>7, <1>8

(* A child that handles the message of the ring has not signed yet.        *)
LEMMA OnlyLeaderSeesAll ==
    ASSUME IInv, NEW n \in Nodes, phase[n] \in {"opened", "finalizing"},
           NEW m \in Inbox(n, "Finalize"), CheckChallenge(m.check), Len(m.check.sigs) = N
    PROVE  n = Leader
  <1>1. m \in msgs /\ m.type = "Finalize" /\ m.check \in Checks
    BY MessageTypes DEF Inbox, IInv, TypeOK
  <1>2. PICK i \in DOMAIN m.check.sigs : m.check.sigs[i].by = n
    BY <1>1, AllSignatures
  <1> QED BY <1>1, <1>2, NodeTypes DEF IInv, MsgInv
LEMMA HandleFinalizeInv ==
    ASSUME IInv, NEW n \in Nodes, HandleFinalize(n), UNCHANGED faults
    PROVE  IInv'
  <1>1. /\ phase[n] \in {"opened", "finalizing"}
        /\ UNCHANGED <<waiter, commitments, openings, leaderCommit, panicked, up, faults>>
    BY DEF HandleFinalize
  <1>2. PICK m \in Inbox(n, "Finalize") :
         LET updated == UpdateChallenge(n, m.check)
         IN  \/ /\ CheckChallenge(m.check) /\ Len(m.check.sigs) # N
                /\ \E sent \in Forwarded(n, updated) :
                     msgs' = (msgs \ {m}) \cup SendToNextServer(n, sent)
                /\ phase' = [phase EXCEPT ![n] = "done"]
                /\ UNCHANGED result
             \/ /\ CheckChallenge(m.check) /\ Len(m.check.sigs) = N
                /\ result' = [cs |-> updated.cs, sigs |-> updated.sigs]
                /\ msgs' = msgs \ {m}
                /\ phase' = [phase EXCEPT ![n] = "publishing"]
             \/ /\ msgs' = msgs \ {m}
                /\ phase' = [phase EXCEPT ![n] = "done"]
                /\ UNCHANGED result
    BY DEF HandleFinalize
  <1>3. /\ m \in msgs /\ m.type = "Finalize" /\ m.check \in Checks
        /\ m.check.commits = commitments
    BY MessageTypes DEF Inbox, IInv, TypeOK, MsgInv
  <1>4. phase[Leader] \notin {"idle", "announced"}
    BY <1>3 DEF IInv, InstanceInv
  <1>5. CASE msgs' = msgs \ {m} /\ phase' = [phase EXCEPT ![n] = "done"] /\ UNCHANGED result
    <2>1. TypeOK'
      BY <1>1, <1>5 DEF IInv, TypeOK
    <2>2. InstanceInv'
      BY <1>1, <1>4, <1>5, NodeTypes DEF IInv, TypeOK, InstanceInv
    <2>3. \A r \in msgs' : MsgInv(r)'
      BY <1>1, <1>5, OldMessages, NodeTypes DEF IInv, TypeOK
    <2>4. ResultGenuine'
      BY <1>1, <1>5 DEF IInv, ResultGenuine
    <2> QED BY <2>1, <2>2, <2>3, <2>4 DEF IInv
  <1>6. CASE /\ Len(m.check.sigs) # N
             /\ \E sent \in Forwarded(n, UpdateChallenge(n, m.check)) :
                  msgs' = (msgs \ {m}) \cup SendToNextServer(n, sent)
             /\ phase' = [phase EXCEPT ![n] = "done"]
             /\ UNCHANGED result
    <2>1. PICK updated : updated = UpdateChallenge(n, m.check)
      OBVIOUS
    <2>2. /\ updated \in Checks /\ updated.commits = commitments /\ Len(updated.sigs) > 0
          /\ \A i \in DOMAIN updated.sigs :
               \/ updated.sigs[i].by = n
               \/ \E j \in DOMAIN m.check.sigs : updated.sigs[i] = m.check.sigs[j]
      BY <1>3, <1>6, <2>1, Updated
    <2>3. PICK sent \in Forwarded(n, updated) :
            msgs' = (msgs \ {m}) \cup SendToNextServer(n, sent)
      BY <1>6, <2>1
    <2>4. /\ sent \in Checks /\ sent.commits = commitments
          /\ \A i \in DOMAIN sent.sigs : \E j \in DOMAIN updated.sigs :
               sent.sigs[i] = updated.sigs[j]
      BY <2>2, ForwardedCheck
    <2>5. \A r \in msgs' : \/ r \in msgs
                           \/ r \in Messages /\ r.type = "Finalize" /\ r.check = sent
      BY <2>3, <2>4, SentToNextServer
    <2>6. \A c \in Children : /\ phase[c] = "done" => phase'[c] = "done"
                              /\ c = n => phase'[c] = "done"
      BY <1>6, NodeTypes DEF IInv, TypeOK
    <2>7. \A i \in DOMAIN sent.sigs, c \in Children :
             sent.sigs[i].by = c => phase'[c] = "done"
      <3> TAKE i \in DOMAIN sent.sigs, c \in Children
      <3>1. PICK j \in DOMAIN updated.sigs : sent.sigs[i] = updated.sigs[j]
        BY <2>4
      <3>2. CASE updated.sigs[j].by = n
        BY <2>6, <3>1, <3>2
      <3>3. ASSUME NEW k \in DOMAIN m.check.sigs, updated.sigs[j] = m.check.sigs[k]
            PROVE  sent.sigs[i].by = c => phase'[c] = "done"
        BY <1>3, <2>6, <3>1, <3>3 DEF IInv, MsgInv
      <3> QED BY <2>2, <3>2, <3>3
    <2>8. TypeOK'
      <3>1. msgs' \subseteq Messages
        BY <2>5 DEF IInv, TypeOK
      <3> QED BY <1>1, <1>6, <3>1 DEF IInv, TypeOK
    <2>9. InstanceInv'
      BY <1>1, <1>4, <1>6, NodeTypes DEF IInv, TypeOK, InstanceInv
    <2>10. \A r \in msgs' : MsgInv(r)'
      <3>1. \A r \in msgs : MsgInv(r)'
        BY <1>1, <2>6, OldMessages
      <3>2. \A r \in msgs' : r.type = "Finalize" /\ r.check = sent => MsgInv(r)'
        BY <1>1, <2>4, <2>7 DEF MsgInv
      <3> QED BY <2>5, <3>1, <3>2
    <2>11. ResultGenuine'
      BY <1>1, <1>6 DEF IInv, ResultGenuine
    <2> QED BY <2>8, <2>9, <2>10, <2>11 DEF IInv
  <1>7. CASE /\ CheckChallenge(m.check) /\ Len(m.check.sigs) = N
             /\ result' = [cs |-> m.check.cs, sigs |-> m.check.sigs]
             /\ msgs' = msgs \ {m}
             /\ phase' = [phase EXCEPT ![n] = "publishing"]
    <2>1. n = Leader
      BY <1>1, <1>7, OnlyLeaderSeesAll
    <2>2. m.check.cs \in SUBSET Points /\ m.check.sigs \in Seq(SigSet)
      BY <1>3 DEF Checks
    <2>3. result' # NoResult
      BY <1>7, <2>2, NAssumption DEF NoResult
    <2>4. TypeOK'
      BY <1>1, <1>7, <2>2 DEF IInv, TypeOK
    <2>5. InstanceInv'
      BY <1>1, <1>4, <1>7, <2>1, <2>3, NodeTypes DEF IInv, TypeOK, InstanceInv
    <2>6. \A r \in msgs' : MsgInv(r)'
      BY <1>1, <1>7, <2>1, OldMessages, NodeTypes DEF IInv, TypeOK
    <2>7. ResultGenuine'
      <3>1. result'.cs = m.check.cs /\ result'.sigs = m.check.sigs
        BY <1>7
      <3>2. result'.cs = {commitments[i].opens : i \in Nodes}
        BY <1>3, <1>7, <3>1, AllSignatures
      <3>3. {result'.sigs[i] : i \in 1 .. N} = {Sign(k, result'.cs) : k \in Nodes}
        <4>1. {m.check.sigs[i] : i \in 1 .. N} = {Sign(k, m.check.cs) : k \in Nodes}
          BY <1>3, <1>7, AllSignatures
        <4> QED BY <3>1, <4>1, Zenon
      <3>4. result'.cs = {commitments'[i].opens : i \in Nodes} /\ Len(result'.sigs) = N
        BY <1>1, <1>7, <3>1, <3>2
      <3> QED BY <3>3, <3>4 DEF ResultGenuine
    <2> QED BY <2>4, <2>5, <2>6, <2>7 DEF IInv
  <1>8. Len(m.check.sigs) = N => UpdateChallenge(n, m.check) = m.check
    BY DEF UpdateChallenge
  <1> QED BY <1>2, <1>5, <1>6, <1>7, <1>8

LEMMA NextInv == IInv /\ [Next]_<<vars, faults>> => IInv'
  <1> SUFFICES ASSUME IInv, [Next]_<<vars, faults>>
               PROVE  IInv'
    OBVIOUS
  <1>1. CASE LeaderStep /\ UNCHANGED faults
    BY <1>1, StartInv, HandleAnnounceReplyInv, HandleOpenReplyInv, OthersInv DEF LeaderStep
  <1>2. ASSUME NEW n \in Nodes, NodeStep(n), UNCHANGED faults
        PROVE  IInv'
    BY <1>2, HandleAnnounceInv, HandleOpenInv, HandleFinalizeInv DEF NodeStep
  <1>3. ASSUME NEW n \in Nodes, Crash(n), UNCHANGED faults
        PROVE  IInv'
    BY <1>3, OthersInv
  <1>4. CASE UNCHANGED <<vars, faults>>
    <2>1. TypeOK' /\ InstanceInv'
      BY <1>4 DEF vars, IInv, TypeOK, InstanceInv
    <2>2. \A m \in msgs' : MsgInv(m)'
      BY <1>4, OldMessages DEF vars
    <2>3. ResultGenuine'
      BY <1>4 DEF vars, IInv, ResultGenuine
    <2> QED BY <2>1, <2>2, <2>3 DEF IInv
  <1> QED BY <1>1, <1>2, <1>3, <1>4 DEF Next

LEMMA Invariant == Spec => []IInv
  BY InitInv, NextInv, PTL DEF Spec

----------------------------------------------------------------------------
(* Every variable has its type.                                            *)
THEOREM TypeCorrect == Spec => []TypeOK
  <1>1. IInv => TypeOK
    BY DEF IInv
  <1> QED BY <1>1, Invariant, PTL

(* The leader shows its opening, and the children theirs, only when every  *)
(* server of the context has committed under its own key.                  *)
THEOREM OpenedAfterCommitments == Spec => []CommitBeforeReveal
  <1>1. IInv => CommitBeforeReveal
    BY DEF IInv, MsgInv, AllSigned, CommitBeforeReveal
  <1> QED BY <1>1, Invariant, PTL

(* A child of the ring never takes itself for the leader, although it      *)
(* judges by the number of signatures in a message of another node.        *)
THEOREM ChildrenDoNotFinalize == Spec => []OnlyLeaderFinalizes
  <1>1. IInv => OnlyLeaderFinalizes
    BY DEF IInv, InstanceInv, OnlyLeaderFinalizes
  <1> QED BY <1>1, Invariant, PTL

(* The challenge a client gets is the sum of what was committed to, signed *)
(* by every server of the context, also when nodes commit under another    *)
(* key, open another value, forward another challenge or leave a signature *)
(* out; a check of an earlier instance is not among what they send.        *)
THEOREM ChallengeIsGenuine == Spec => []ResultGenuine
  <1>1. IInv => ResultGenuine
    BY DEF IInv
  <1> QED BY <1>1, Invariant, PTL

----------------------------------------------------------------------------
(* Nodes that follow the protocol answer with their own index, and the     *)
(* leader has saved nothing of theirs before it saves all of it.           *)
OwnIndices ==
    faults.faulty = {} =>
      /\ panicked = {}
      /\ \A m \in msgs : /\ m.type = "AnnounceReply" => m.commit.index = ServerIndex[m.from]
                         /\ m.type = "OpenReply" => m.index = ServerIndex[m.from]
      /\ phase[Leader] \in {"idle", "announced", "opened"} =>
           \A i \in Nodes : i # Own => openings[i] = Nil

(* What the children answer with their own indices can be saved.           *)
LEMMA OwnIndicesSavable ==
    ASSUME NEW table, NEW none, \A i \in Nodes : i # Own => table[i] = none,
           NEW index, \A c \in Children : index[c] = ServerIndex[c],
           NEW from \in SUBSET Children
    PROVE  Savable(table, none, index, from)
  <1>1. \A c \in Children : ServerIndex[c] \in Nodes /\ ServerIndex[c] # Own
    BY KeyOfIndex, NodeTypes DEF Own
  <1>2. \A c, d \in Children : c # d => ServerIndex[c] # ServerIndex[d]
    BY KeyOfIndex, NodeTypes
  <1> QED BY <1>1, <1>2 DEF Savable

LEMMA OwnIndicesStep ==
    ASSUME IInv, OwnIndices, Next
    PROVE  OwnIndices'
  <1> SUFFICES ASSUME faults'.faulty = {}
               PROVE  OwnIndices'
    BY DEF OwnIndices
  <1>1. faults' = faults /\ faults.faulty = {}
    BY DEF Next
  <1>2. \A n, value : OrForeign(n, value) = {value}
    BY <1>1 DEF OrForeign
  <1> USE <1>1 DEF OwnIndices
  <1>3. ASSUME /\ msgs' \subseteq msgs \/ \A m \in msgs' : m \in msgs \/
                     m.type \notin {"AnnounceReply", "OpenReply"}
               /\ UNCHANGED <<panicked, openings>>
               /\ phase'[Leader] = phase[Leader] \/ phase[Leader] = "announced"
                    \/ phase'[Leader] \notin {"idle", "announced", "opened"}
        PROVE  OwnIndices'
    BY <1>3
  <1>4. CASE Start
    <2>1. /\ \A i \in Nodes : i # Own => openings'[i] = openings[i]
          /\ phase[Leader] = "idle" /\ UNCHANGED panicked
      BY <1>4, NodeTypes DEF Start, Own, IInv, InstanceInv, TypeOK
    <2>2. \A m \in msgs' : m \in msgs \/ m.type = "Announce"
      BY <1>4 DEF Start
    <2> QED BY <2>1, <2>2
  <1>5. CASE HandleAnnounceReply
    <2>1. PICK reply \in Aggregated("AnnounceReply"), handled \in SUBSET Children,
               errs \in SendErrors, opening \in OrForeign(Leader, openings[ServerIndex[Leader]]) :
         LET commit == [c \in Children |-> reply[c].commit]
             index == [c \in Children |-> commit[c].index]
             verified == {c \in Children : VerifyCommitmentSignature(commit[c], Y[index[c]])}
         IN
           /\ handled \subseteq verified /\ Savable(commitments, NoCommitment, index, handled)
           /\ \/ /\ handled = Children
                 /\ commitments' = Saved(commitments, index, commit, handled)
                 /\ msgs' = (msgs \ Replies("AnnounceReply")) \cup
                      {[type |-> "Open", to |-> c, opening |-> opening] : c \in Children \ errs}
                 /\ phase' = [phase EXCEPT ![Leader] = IF errs = {} THEN "opened" ELSE "done"]
                 /\ UNCHANGED panicked
              \/ /\ Children \ verified # {}
                 /\ commitments' = Saved(commitments, index, commit, handled)
                 /\ msgs' = msgs \ Replies("AnnounceReply")
                 /\ phase' = [phase EXCEPT ![Leader] = "done"]
                 /\ UNCHANGED panicked
              \/ /\ \E c \in verified \ handled :
                      ~Savable(commitments, NoCommitment, index, handled \cup {c})
                 /\ panicked' = panicked \cup {Leader}
                 /\ UNCHANGED <<commitments, msgs, phase>>
      BY <1>5 DEF HandleAnnounceReply
    <2>2. phase[Leader] = "announced" /\ UNCHANGED openings
      BY <1>5 DEF HandleAnnounceReply
    <2>3. PICK commit, index : /\ commit = [c \in Children |-> reply[c].commit]
                               /\ index = [c \in Children |-> commit[c].index]
      OBVIOUS
    <2>4. \A c \in Children : index[c] = ServerIndex[c]
      BY <2>3 DEF Aggregated, Replies
    <2>5. \A c \in Children : Savable(commitments, NoCommitment, index, handled \cup {c})
      <3> SUFFICES ASSUME NEW c \in Children
                   PROVE  Savable(commitments, NoCommitment, index, handled \cup {c})
        OBVIOUS
      <3>1. \A i \in Nodes : i # Own => commitments[i] = NoCommitment
        BY <2>2 DEF IInv, InstanceInv
      <3>2. handled \cup {c} \in SUBSET Children
        OBVIOUS
      <3> QED BY ONLY <2>4, <3>1, <3>2, OwnIndicesSavable
    <2>6. \/ /\ msgs' = (msgs \ Replies("AnnounceReply")) \cup
                   {[type |-> "Open", to |-> c, opening |-> opening] : c \in Children \ errs}
             /\ UNCHANGED panicked
          \/ msgs' = msgs \ Replies("AnnounceReply") /\ UNCHANGED panicked
          \/ \E c \in Children : ~Savable(commitments, NoCommitment, index, handled \cup {c})
      BY <2>1, <2>3, Zenon
    <2>7. UNCHANGED panicked /\ \A m \in msgs' : m \in msgs \/ m.type = "Open"
      <3> DEFINE old == msgs \ Replies("AnnounceReply")
                 opens == {[type |-> "Open", to |-> c, opening |-> opening] : c \in Children \ errs}
      <3>1. UNCHANGED panicked /\ (msgs' = old \cup opens \/ msgs' = old)
        BY <2>5, <2>6, Zenon
      <3> QED BY ONLY <3>1
    <2> QED BY <1>3, <2>2, <2>7
  <1>6. CASE HandleOpenReply
    <2>1. PICK reply \in Aggregated("OpenReply") :
         LET index == [c \in Children |-> reply[c].index]
             all == Saved(openings, index, [c \in Children |-> reply[c].opening], Children)
             check == [commits |-> commitments, openings |-> all, cs |-> Sum(all), sigs |-> <<>>]
         IN  \/ /\ msgs' = (msgs \ Replies("OpenReply")) \cup
                             SendToNextServer(Leader, UpdateChallenge(Leader, check))
                /\ phase' = [phase EXCEPT ![Leader] = "finalizing"]
                /\ UNCHANGED panicked
             \/ /\ msgs' = msgs \ Replies("OpenReply")
                /\ phase' = [phase EXCEPT ![Leader] = "done"]
                /\ UNCHANGED panicked
             \/ ~Savable(openings, Nil, index, Children)
      BY <1>6 DEF HandleOpenReply
    <2>2. phase[Leader] = "opened"
      BY <1>6 DEF HandleOpenReply
    <2>3. \A c \in Children : reply[c].index = ServerIndex[c]
      BY DEF Aggregated, Replies
    <2>4. Savable(openings, Nil, [c \in Children |-> reply[c].index], Children)
      BY <2>2, <2>3, OwnIndicesSavable
    <2>5. \A check : \A m \in SendToNextServer(Leader, check) : m.type = "Finalize"
      BY DEF SendToNextServer
    <2>6. /\ UNCHANGED panicked
          /\ \A m \in msgs' : m \in msgs \/ m.type = "Finalize"
          /\ \/ phase' = [phase EXCEPT ![Leader] = "finalizing"]
             \/ phase' = [phase EXCEPT ![Leader] = "done"]
      BY <2>1, <2>4, <2>5
    <2>7. phase'[Leader] \in {"finalizing", "done"}
      BY <2>6, NodeTypes DEF IInv, TypeOK
    <2> QED BY <2>6, <2>7
  <1>7. ASSUME NEW c \in Children, HandleAnnounce(c)
        PROVE  OwnIndices'
    <2>1. \A key \in OrForeign(c, c) : NewCommitment(ServerIndex[c], key, c).index = ServerIndex[c]
      BY DEF NewCommitment
    <2>2. \A m \in msgs' : m \in msgs \/ (m.type = "AnnounceReply"
                                           /\ m.commit.index = ServerIndex[m.from])
      <3>1. \E m \in msgs :
               \/ \E key \in OrForeign(c, c) :
                    msgs' = (msgs \ {m}) \cup
                              {[type |-> "AnnounceReply", from |-> c,
                                commit |-> NewCommitment(ServerIndex[c], key, c)]}
               \/ msgs' = msgs \ {m}
        BY <1>7 DEF HandleAnnounce, Inbox
      <3> QED BY <2>1, <3>1
    <2>3. UNCHANGED <<panicked, openings>> /\ phase'[Leader] = phase[Leader]
      BY <1>7, NodeTypes DEF HandleAnnounce, IInv, TypeOK
    <2> QED BY <2>2, <2>3
  <1>8. ASSUME NEW c \in Children, HandleOpen(c)
        PROVE  OwnIndices'
    <2>1. \A m \in msgs' : m \in msgs \/ (m.type = "OpenReply" /\ m.index = ServerIndex[m.from])
      BY <1>8 DEF HandleOpen
    <2>2. UNCHANGED <<panicked, openings>> /\ phase'[Leader] = phase[Leader]
      BY <1>8, NodeTypes DEF HandleOpen, IInv, TypeOK
    <2> QED BY <2>1, <2>2
  <1>9. ASSUME NEW n \in Nodes, HandleFinalize(n)
        PROVE  OwnIndices'
    <2>1. \A m \in msgs' : m \in msgs \/ m.type = "Finalize"
      BY <1>9 DEF HandleFinalize, SendToNextServer
    <2>2. phase'[Leader] = phase[Leader] \/ phase'[Leader] \in {"done", "publishing"}
      BY <1>9, NodeTypes DEF HandleFinalize, IInv, TypeOK
    <2>3. UNCHANGED <<panicked, openings>>
      BY <1>9 DEF HandleFinalize
    <2> QED BY <1>3, <2>1, <2>2, <2>3
  <1>10. CASE PublishResult \/ WaitTimeout \/ \E n \in Nodes : Crash(n)
    BY <1>3, <1>10, NodeTypes DEF PublishResult, WaitTimeout, Crash, IInv, TypeOK
  <1> QED
    BY <1>4, <1>5, <1>6, <1>7, <1>8, <1>9, <1>10 DEF Next, LeaderStep, NodeStep

(* No order of the indices makes servers that follow the protocol run into *)
(* the panics of the leader's tables: each reply has a place of its own.   *)
THEOREM HonestServersNeverPanic == Spec => []NoPanic
  <1>1. Init => OwnIndices
    BY DEF Init, OwnIndices
  <1>2. IInv /\ OwnIndices /\ [Next]_<<vars, faults>> => OwnIndices'
    <2>1. OwnIndices /\ UNCHANGED <<vars, faults>> => OwnIndices'
      BY DEF OwnIndices, vars
    <2> QED BY <2>1, OwnIndicesStep
  <1>3. OwnIndices => NoPanic
    BY DEF OwnIndices, NoPanic
  <1> QED BY <1>1, <1>2, <1>3, Invariant, PTL DEF Spec

(* The protocol keeps the promise of CommonChallenge: the shares are fixed *)
(* before the challenge is made, neither ever changes, and the client is   *)
(* answered once, with a challenge only when there is one.                 *)
THEOREM ProtocolKeepsPromise == Spec => ImplementsCommonChallenge
  <1> DEFINE Complete == \A i \in Nodes : commitments[i] # NoCommitment
             shares == IF Complete THEN [i \in Nodes |-> commitments[i].opens] ELSE <<>>
             answer == CASE waiter = "replied" -> "challenge"
                         [] waiter = "failed" -> "error"
                         [] OTHER -> "none"
  <1>1. Init => Promised!Init
    <2> SUFFICES ASSUME Init
                 PROVE  Promised!Init
      OBVIOUS
    <2>1. ~Complete
      BY NodeTypes DEF Init
    <2> QED BY <2>1 DEF Init, Promised!Init
  <1>2. IInv /\ IInv' /\ [Next]_<<vars, faults>> => [Promised!Next]_(Promised!vars)
    <2> SUFFICES ASSUME IInv, IInv', [Next]_<<vars, faults>>
                 PROVE  Promised!Next \/ UNCHANGED <<shares, result.cs, answer>>
      BY DEF Promised!vars
    <2>1. Complete => shares # <<>> /\ shares = [i \in Nodes |-> commitments[i].opens]
      <3> SUFFICES ASSUME Complete
                   PROVE  shares # <<>>
        OBVIOUS
      <3>1. Leader \in DOMAIN shares
        BY NodeTypes
      <3> QED BY <3>1
    <2>2. Complete' => shares' \in [Nodes -> Points]
      <3> SUFFICES ASSUME Complete'
                   PROVE  shares' \in [Nodes -> Points]
        OBVIOUS
      <3>1. \A i \in Nodes : commitments'[i].opens \in Points
        BY DEF IInv, TypeOK, Commitments
      <3> QED BY <3>1
    <2>3. ~Complete => shares = <<>>
      OBVIOUS
    <2>4. ~Complete' => shares' = <<>>
      OBVIOUS
    <2>5. commitments' = commitments => shares' = shares
      OBVIOUS
    <2>6. waiter' = waiter => answer' = answer
      OBVIOUS
    \* The steps of the promise.
    <2>commit. ASSUME shares = <<>>, shares' \in [Nodes -> Points],
                      UNCHANGED <<result, answer>>
               PROVE  Promised!Next
      BY <2>commit DEF Promised!Next, Promised!Commit
    <2>agree. ASSUME shares # <<>>, result = NoResult,
                     result'.cs = {shares[i] : i \in Nodes},
                     UNCHANGED <<shares, answer>>
              PROVE  Promised!Next
      BY <2>agree DEF Promised!Next, Promised!Agree
    <2>reply. ASSUME answer = "none", UNCHANGED <<shares, result>>,
                     (answer' = "challenge" /\ result.cs # {}) \/ answer' = "error"
              PROVE  Promised!Next
      BY <2>reply DEF Promised!Next, Promised!Answer, Promised!Refuse, NoResult
    <2>waits. waiter' = "waiting" => answer' = "none"
      OBVIOUS
    <2>ends. /\ answer = "none" <=> waiter \notin {"replied", "failed"}
             /\ waiter' = "replied" => answer' = "challenge"
             /\ waiter' = "failed" => answer' = "error"
      OBVIOUS
    <2> HIDE DEF shares, answer
    \* The commitments of all servers come in.
    <2>7. ASSUME ~Complete, UNCHANGED <<result, answer>>
          PROVE  Promised!Next \/ UNCHANGED <<shares, result.cs, answer>>
      BY <2>2, <2>3, <2>4, <2>7, <2>commit
    <2>8. CASE Start
      <3>1. /\ ~Complete /\ answer = "none" /\ UNCHANGED result
            /\ waiter' \in {"waiting", "failed"}
        BY <2>8, <2>ends, NodeTypes DEF Start, IInv, InstanceInv
      <3>2. CASE waiter' = "waiting"
        <4>1. answer' = answer
          BY <3>1, <3>2, <2>8, <2>waits
        <4> QED BY <2>7, <3>1, <4>1
      <3>3. CASE waiter' = "failed"
        <4>1. PICK c \in Nodes : ~up[c]
          BY <2>8, <3>3 DEF Start, SendErrors
        <4>2. up[Leader]
          BY <2>8 DEF Start, Running
        <4>3. ServerIndex[c] \in Nodes /\ ServerIndex[c] # Own
          BY <4>1, <4>2, KeyOfIndex, NodeTypes DEF Own
        <4>4. commitments'[ServerIndex[c]] = NoCommitment
          BY <2>8, <4>3 DEF Start, Own, IInv, TypeOK, InstanceInv
        <4>5. shares' = <<>>
          BY <2>4, <4>3, <4>4
        <4> QED BY <2>3, <2>reply, <2>ends, <3>1, <3>3, <4>5
      <3> QED BY <3>1, <3>2, <3>3
    <2>9. CASE HandleAnnounceReply
      <3>1. PICK c \in Children : TRUE
        BY <2>9 DEF HandleAnnounceReply, Aggregated
      <3>2. ServerIndex[c] \in Nodes /\ ServerIndex[c] # Own
        BY <3>1, KeyOfIndex, NodeTypes DEF Own
      <3>3. commitments[ServerIndex[c]] = NoCommitment
        BY <2>9, <3>2 DEF HandleAnnounceReply, IInv, InstanceInv
      <3>4. UNCHANGED <<waiter, result>>
        BY <2>9 DEF HandleAnnounceReply
      <3> QED BY <2>6, <2>7, <3>2, <3>3, <3>4
    \* The challenge is agreed on.
    <2>10. ASSUME NEW n \in Nodes, HandleFinalize(n)
           PROVE  Promised!Next \/ UNCHANGED <<shares, result.cs, answer>>
      <3>1. UNCHANGED <<commitments, waiter>>
        BY <2>10 DEF HandleFinalize
      <3>2. CASE result' = result
        BY <2>5, <2>6, <3>1, <3>2
      <3>3. CASE result' # result
        <4>1. PICK m \in Inbox(n, "Finalize") :
                CheckChallenge(m.check) /\ Len(m.check.sigs) = N
          BY <2>10, <3>3 DEF HandleFinalize
        <4>2. n = Leader /\ result = NoResult
          BY <2>10, <4>1, OnlyLeaderSeesAll DEF HandleFinalize, IInv, InstanceInv
        <4>3. m.check.commits = commitments
          BY DEF Inbox, IInv, MsgInv
        <4>4. \A i \in Nodes : commitments[i].index = i
          BY <4>1, <4>3 DEF CheckChallenge
        <4>5. Complete
          BY <4>4 DEF NoCommitment, Nil, Nodes
        <4>6. result'.cs = {commitments[i].opens : i \in Nodes}
          BY <3>1, <3>3, <4>2 DEF IInv, ResultGenuine
        <4>7. result'.cs = {shares[i] : i \in Nodes}
          BY <2>1, <4>5, <4>6
        <4> QED BY <2>1, <2>5, <2>6, <2>agree, <3>1, <4>2, <4>5, <4>7
      <3> QED BY <3>2, <3>3
    <2>11. CASE PublishResult
      <3>1. waiter = "waiting" /\ waiter' = "replied" /\ UNCHANGED <<commitments, result>>
        BY <2>11 DEF PublishResult
      <3>2. result.cs = {commitments[i].opens : i \in Nodes}
        BY <2>11 DEF PublishResult, IInv, InstanceInv, ResultGenuine
      <3>3. result.cs # {}
        BY <3>2, NodeTypes
      <3> QED BY <2>5, <2>reply, <2>ends, <3>1, <3>3
    <2>12. CASE WaitTimeout
      BY <2>5, <2>12, <2>reply, <2>ends DEF WaitTimeout
    <2>13. ASSUME UNCHANGED <<commitments, result, waiter>>
           PROVE  UNCHANGED <<shares, result.cs, answer>>
      BY <2>5, <2>6, <2>13
    <2>14. CASE HandleOpenReply \/ UNCHANGED <<vars, faults>>
      BY <2>13, <2>14 DEF HandleOpenReply, vars
    <2>15. ASSUME NEW n \in Nodes, Crash(n) \/ HandleAnnounce(n) \/ HandleOpen(n)
           PROVE  UNCHANGED <<shares, result.cs, answer>>
      BY <2>13, <2>15 DEF Crash, HandleAnnounce, HandleOpen
    <2> QED BY <2>8, <2>9, <2>10, <2>11, <2>12, <2>14, <2>15 DEF Next, LeaderStep, NodeStep
  <1> QED
    BY <1>1, <1>2, Invariant, PTL DEF Spec, ImplementsCommonChallenge, Promised!Spec
=============================================================================
