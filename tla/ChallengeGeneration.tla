------------------------ MODULE ChallengeGeneration ------------------------
(***************************************************************************)
(* One instance of the challenge generation protocol                       *)
(* (dagacothority/protocols/dagachallengegeneration) with the PKClient API *)
(* handler that starts it: commit, open, and a ring of signatures over the *)
(* sum of the openings.                                                    *)
(*                                                                         *)
(* Any node may lead; nodes, indices and the ring are those of RosterRing. *)
(* A node's key and its opening are named by the node; an opening that     *)
(* nobody drew, or a key of nobody, is Foreign.                            *)
(*                                                                         *)
(* A node that is down stays down (its instances are not stored): an error *)
(* of a send to it appears only where someone else can see its effect.     *)
(***************************************************************************)
EXTENDS RosterRing

CONSTANTS Leader,       \* the node the client asked
          FaultScenarios \* what may go wrong, one of which is chosen

ASSUME LeaderAssumption == Leader \in Nodes
ASSUME FaultsAssumption ==
    FaultScenarios \subseteq [mayRefuse : SUBSET (Nodes \ {Leader}),
                               faulty : SUBSET Nodes, mayCrash : SUBSET Nodes]

Children == Nodes \ {Leader}
Foreign == N
Points == 0 .. N
Nil == -1

(* context.Members().Y: the key at an index of the context.                *)
Y == [i \in Nodes |-> CHOOSE n \in Nodes : ServerIndex[n] = i]

(* (<name>_<mistake>: a mistake a change of the code could make.)          *)
NewCommitment_OneBased(index, key, opening) ==
    [index |-> index + 1, by |-> key, opens |-> opening]

(* A signed commitment to an opening (daga.NewChallengeCommitment).        *)
NewCommitment(index, key, opening) == [index |-> index, by |-> key, opens |-> opening]
NoCommitment == [index |-> Nil, by |-> Nil, opens |-> Nil]
Commitments == [index : Nodes, by : Points, opens : Points]

VerifyCommitmentSignature(commit, key) == commit.by = key
CheckOpening(commit, opening) == commit.opens = opening

(* The master challenge, the sum of all openings: openings are independent *)
(* scalars, so a sum is known by the set of its terms.                     *)
Sum(opens) == {opens[i] : i \in Nodes}

OpeningsMatch_SumOnly(commits, opens) == Sum(opens) # {}

(* checkOpenings: one opening per commitment, each opening its commitment. *)
OpeningsMatch(commits, opens) == \A i \in Nodes : CheckOpening(commits[i], opens[i])

(* A server's signature over the challenge and the client's commitments.   *)
Sign(n, cs) == [index |-> ServerIndex[n], by |-> n, on |-> cs]

(* Challenge.VerifySignatures: no index twice, each under the key at its   *)
(* index.                                                                  *)
VerifySignatures(check) ==
    /\ \A i, j \in DOMAIN check.sigs : i # j => check.sigs[i].index # check.sigs[j].index
    /\ \A i \in DOMAIN check.sigs :
          check.sigs[i].by = Y[check.sigs[i].index] /\ check.sigs[i].on = check.cs

(* The checks of CheckUpdateChallenge.                                     *)
CheckChallenge(check) ==
    /\ VerifySignatures(check)
    /\ \A i \in Nodes : /\ check.commits[i].index = i
                        /\ VerifyCommitmentSignature(check.commits[i], Y[i])
    /\ OpeningsMatch(check.commits, check.openings)
    /\ check.cs = Sum(check.openings)

UpdateChallenge_AlwaysSigns(n, check) ==
    [check EXCEPT !.sigs = Append(@, Sign(n, check.cs))]

(* Its effect: the server's signature is added unless all are there.       *)
UpdateChallenge(n, check) ==
    IF Len(check.sigs) = N THEN check
    ELSE [check EXCEPT !.sigs = Append(@, Sign(n, check.cs))]

----------------------------------------------------------------------------
VARIABLES
    faults,       \* the nodes that may refuse, send wrong values, and stop
    waiter,       \* the PKClient goroutine
    phase,        \* where each node's protocol instance stands
    commitments,  \* leader: the commitments by context index
    openings,     \* leader: the openings by context index
    leaderCommit, \* children: the leader's commitment they stored
    result,       \* what the client is answered with
    panicked,     \* nodes that ran into one of the state helpers' panics
    msgs,         \* messages in flight
    up            \* the nodes that run

vars == <<waiter, phase, commitments, openings, leaderCommit, result, panicked, msgs, up>>

NoResult == [cs |-> {}, sigs |-> <<>>]
SigSet == [index : Nodes, by : Points, on : SUBSET Points]
Checks == [commits : [Nodes -> Commitments], openings : [Nodes -> Points],
           cs : SUBSET Points, sigs : Seq(SigSet)]

Messages ==
         [type : {"Announce"}, to : Children, commit : Commitments, index : Nodes]
    \cup [type : {"AnnounceReply"}, from : Children, commit : Commitments]
    \cup [type : {"Open"}, to : Children, opening : Points]
    \cup [type : {"OpenReply"}, from : Children, opening : Points, index : Nodes]
    \cup [type : {"Finalize"}, to : Nodes, check : Checks]

TypeOK ==
    /\ faults \in FaultScenarios
    /\ waiter \in {"idle", "waiting", "replied", "failed"}
    /\ phase \in [Nodes -> {"idle", "announced", "opened", "finalizing",
                            "publishing", "done"}]
    /\ commitments \in [Nodes -> Commitments \cup {NoCommitment}]
    /\ openings \in [Nodes -> Points \cup {Nil}]
    /\ leaderCommit \in [Children -> Commitments \cup {NoCommitment}]
    /\ result \in [cs : SUBSET Points, sigs : Seq(SigSet)]
    /\ panicked \subseteq Nodes
    /\ msgs \subseteq Messages
    /\ up \in [Nodes -> BOOLEAN]

NoFaults == faults.mayRefuse = {} /\ faults.faulty = {} /\ faults.mayCrash = {}

Init ==
    /\ faults \in FaultScenarios
    /\ waiter = "idle"
    /\ phase = [n \in Nodes |-> "idle"]
    /\ commitments = [i \in Nodes |-> NoCommitment]
    /\ openings = [i \in Nodes |-> Nil]
    /\ leaderCommit = [c \in Children |-> NoCommitment]
    /\ result = NoResult
    /\ panicked = {}
    /\ msgs = {}
    /\ up = [n \in Nodes |-> TRUE]

(* What a node sends instead of a right value.                             *)
OrForeign(n, value) == {value} \cup IF n \in faults.faulty THEN {Foreign} ELSE {}

Running(n) == up[n] /\ n \notin panicked
SendErrors == SUBSET {c \in Nodes : ~up[c]}
Inbox(n, type) == {m \in msgs : m.type = type /\ m.to = n}
Replies(type) == {m \in msgs : m.type = type}

(* onet calls an aggregating handler once every child has replied; with no *)
(* child there is no message and it is never called.                       *)
Aggregated(type) ==
    {reply \in [Children -> Replies(type)] :
        Children # {} /\ \A c \in Children : reply[c].from = c}

(* saveCommitment and saveOpening, for the replies of some children: they  *)
(* panic, and Go ends the process, unless each index is within bounds and  *)
(* free.                                                                   *)
Savable(table, none, index, from) ==
    /\ \A c \in from : index[c] \in Nodes /\ table[index[c]] = none
    /\ \A c, d \in from : c # d => index[c] # index[d]

Saved(table, index, value, from) ==
    [i \in Nodes |-> IF \E c \in from : index[c] = i
                       THEN value[CHOOSE c \in from : index[c] = i]
                       ELSE table[i]]

----------------------------------------------------------------------------
(* The leader's side.                                                      *)

(* Service.PKClient up to WaitForResult: LeaderSetup and Start.            *)
Start ==
    /\ waiter = "idle" /\ Running(Leader)
    /\ \E key \in OrForeign(Leader, Leader) :
         LET own == ServerIndex[Leader]
             commit == NewCommitment(own, key, Leader)
         IN
           /\ openings' = [openings EXCEPT ![own] = Leader]
           /\ commitments' = [commitments EXCEPT ![own] = commit]
           /\ \E errs \in SendErrors :
                /\ msgs' = msgs \cup
                     {[type |-> "Announce", to |-> c, commit |-> commit, index |-> own] :
                        c \in Children \ errs}
                /\ IF errs = {}
                     THEN waiter' = "waiting" /\ phase' = [phase EXCEPT ![Leader] = "announced"]
                     ELSE waiter' = "failed" /\ phase' = [phase EXCEPT ![Leader] = "done"]
    /\ UNCHANGED <<leaderCommit, result, panicked, up>>

(* Opening before all the commitments are there.                           *)
HandleAnnounceReply_FirstReply ==
    /\ phase[Leader] = "announced" /\ Running(Leader)
    /\ \E r \in Replies("AnnounceReply") :
         /\ commitments' = [commitments EXCEPT ![r.commit.index] = r.commit]
         /\ msgs' = (msgs \ {r}) \cup
              {[type |-> "Open", to |-> c, opening |-> openings[ServerIndex[Leader]]] :
                 c \in Children}
    /\ phase' = [phase EXCEPT ![Leader] = "opened"]
    /\ UNCHANGED <<waiter, openings, leaderCommit, result, panicked, up>>

(* Verify the children's commitments and store them by context index, one  *)
(* after the other (those of "handled" before the loop ends), and only     *)
(* when all are stored show the leader's opening.                          *)
HandleAnnounceReply ==
    /\ phase[Leader] = "announced" /\ Running(Leader)
    /\ \E reply \in Aggregated("AnnounceReply"), handled \in SUBSET Children,
          errs \in SendErrors,
          opening \in OrForeign(Leader, openings[ServerIndex[Leader]]) :
         LET commit == [c \in Children |-> reply[c].commit]
             index == [c \in Children |-> commit[c].index]
             verified == {c \in Children : VerifyCommitmentSignature(commit[c], Y[index[c]])}
         IN
           /\ handled \subseteq verified /\ Savable(commitments, NoCommitment, index, handled)
           /\ \/ /\ handled = Children
                 /\ commitments' = Saved(commitments, index, commit, handled)
                 /\ msgs' = (msgs \ Replies("AnnounceReply")) \cup
                      {[type |-> "Open", to |-> c, opening |-> opening] : c \in Children \ errs}
                 /\ phase' = [phase EXCEPT ![Leader] = IF errs = {} THEN "opened" ELSE "done"]
                 /\ UNCHANGED panicked
              \/ /\ Children \ verified # {}
                 /\ commitments' = Saved(commitments, index, commit, handled)
                 /\ msgs' = msgs \ Replies("AnnounceReply")
                 /\ phase' = [phase EXCEPT ![Leader] = "done"]
                 /\ UNCHANGED panicked
              \/ /\ \E c \in verified \ handled :
                      ~Savable(commitments, NoCommitment, index, handled \cup {c})
                 /\ panicked' = panicked \cup {Leader}
                 /\ UNCHANGED <<commitments, msgs, phase>>
    /\ UNCHANGED <<waiter, openings, leaderCommit, result, up>>

(* A Finalize message to the next node of the ring.                        *)
SendToNextServer(n, check) ==
    {[type |-> "Finalize", to |-> next, check |-> check] : next \in {NextServer(n)} \ {NoNode}}

(* Store the openings; when they all open their commitments, the sum is    *)
(* signed and starts its way round the ring.                               *)
HandleOpenReply ==
    /\ phase[Leader] = "opened" /\ Running(Leader)
    /\ \E reply \in Aggregated("OpenReply") :
         LET index == [c \in Children |-> reply[c].index]
             all == Saved(openings, index, [c \in Children |-> reply[c].opening], Children)
             check == [commits |-> commitments, openings |-> all, cs |-> Sum(all), sigs |-> <<>>]
             savable == Savable(openings, Nil, index, Children)
         IN  \/ /\ savable /\ CheckChallenge(check)
                /\ openings' = all
                /\ msgs' = (msgs \ Replies("OpenReply")) \cup
                             SendToNextServer(Leader, UpdateChallenge(Leader, check))
                /\ phase' = [phase EXCEPT ![Leader] = "finalizing"]
                /\ UNCHANGED panicked
             \/ /\ savable /\ ~CheckChallenge(check)
                /\ openings' = all
                /\ msgs' = msgs \ Replies("OpenReply")
                /\ phase' = [phase EXCEPT ![Leader] = "done"]
                /\ UNCHANGED panicked
             \/ /\ ~savable
                /\ panicked' = panicked \cup {Leader}
                /\ UNCHANGED <<openings, msgs, phase>>
    /\ UNCHANGED <<waiter, commitments, leaderCommit, result, up>>

(* p.result <- clientChallenge meets <-p.result, and PKClient replies.     *)
PublishResult ==
    /\ phase[Leader] = "publishing" /\ waiter = "waiting" /\ Running(Leader)
    /\ phase' = [phase EXCEPT ![Leader] = "done"]
    /\ waiter' = "replied"
    /\ UNCHANGED <<commitments, openings, leaderCommit, result, panicked, msgs, up>>

WaitTimeout ==
    /\ waiter = "waiting" /\ Running(Leader)
    /\ waiter' = "failed"
    /\ UNCHANGED <<phase, commitments, openings, leaderCommit, result, panicked, msgs, up>>

----------------------------------------------------------------------------
(* The children's side.                                                    *)

HandleAnnounce(c) ==
    /\ phase[c] = "idle" /\ Running(c)
    /\ \E m \in Inbox(c, "Announce") :
         \/ /\ VerifyCommitmentSignature(m.commit, Y[m.index])
            /\ leaderCommit' = [leaderCommit EXCEPT ![c] = m.commit]
            /\ \E commit \in {NewCommitment(ServerIndex[c], key, c) : key \in OrForeign(c, c)}
                             \cup IF c \in faults.faulty THEN {m.commit} ELSE {} :
                 msgs' = (msgs \ {m}) \cup
                           {[type |-> "AnnounceReply", from |-> c, commit |-> commit]}
            /\ phase' = [phase EXCEPT ![c] = "announced"]
         \/ /\ c \in faults.mayRefuse \/ ~VerifyCommitmentSignature(m.commit, Y[m.index])
            /\ msgs' = msgs \ {m}
            /\ phase' = [phase EXCEPT ![c] = "done"]
            /\ UNCHANGED leaderCommit
    /\ UNCHANGED <<waiter, commitments, openings, result, panicked, up>>

(* The position in the roster instead of the index in the context.         *)
HandleOpen_RosterPosition(c) ==
    /\ phase[c] = "announced" /\ Running(c)
    /\ \E m \in Inbox(c, "Open") :
         msgs' = (msgs \ {m}) \cup
           {[type |-> "OpenReply", from |-> c, opening |-> c, index |-> c]}
    /\ phase' = [phase EXCEPT ![c] = "opened"]
    /\ UNCHANGED <<waiter, commitments, openings, leaderCommit, result, panicked, up>>

(* The opening is shown to a leader whose own opening is right.            *)
HandleOpen(c) ==
    /\ phase[c] = "announced" /\ Running(c)
    /\ \E m \in Inbox(c, "Open") :
         \/ /\ CheckOpening(leaderCommit[c], m.opening)
            /\ \E opening \in OrForeign(c, c),
                  index \in {ServerIndex[c]} \cup IF c \in faults.faulty THEN Nodes ELSE {} :
                 msgs' = (msgs \ {m}) \cup
                   {[type |-> "OpenReply", from |-> c, opening |-> opening, index |-> index]}
            /\ phase' = [phase EXCEPT ![c] = "opened"]
         \/ /\ ~CheckOpening(leaderCommit[c], m.opening)
            /\ msgs' = msgs \ {m}
            /\ phase' = [phase EXCEPT ![c] = "done"]
    /\ UNCHANGED <<waiter, commitments, openings, leaderCommit, result, panicked, up>>

(* The signatures counted once its own is there.                           *)
HandleFinalize_CountsOwn(n) ==
    /\ phase[n] \in {"opened", "finalizing"} /\ Running(n)
    /\ \E m \in Inbox(n, "Finalize") :
         LET updated == UpdateChallenge(n, m.check)
         IN  \/ /\ Len(updated.sigs) # N
                /\ msgs' = (msgs \ {m}) \cup SendToNextServer(n, updated)
                /\ phase' = [phase EXCEPT ![n] = "done"]
                /\ UNCHANGED result
             \/ /\ Len(updated.sigs) = N
                /\ result' = [cs |-> updated.cs, sigs |-> updated.sigs]
                /\ msgs' = msgs \ {m}
                /\ phase' = [phase EXCEPT ![n] = "publishing"]
    /\ UNCHANGED <<waiter, commitments, openings, leaderCommit, panicked, up>>

(* A faulty node may forward another challenge, or lose a signature.       *)
Forwarded(n, check) ==
    {check} \cup IF n \in faults.faulty
                   THEN {[check EXCEPT !.cs = @ \cup {Foreign}],
                         [check EXCEPT !.sigs = Tail(@)]}
                   ELSE {}

(* A Finalize message, on any node: the one that finds all signatures      *)
(* there is the leader and has the result; the others sign and forward.    *)
(* Whatever happens the instance ends, except that the leader blocks on    *)
(* its result channel until someone takes the result.                      *)
HandleFinalize(n) ==
    /\ phase[n] \in {"opened", "finalizing"} /\ Running(n)
    /\ \E m \in Inbox(n, "Finalize") :
         LET weAreNotLeader == Len(m.check.sigs) # N
             updated == UpdateChallenge(n, m.check)
         IN  \/ /\ CheckChallenge(m.check) /\ weAreNotLeader
                /\ \E sent \in Forwarded(n, updated) :
                     msgs' = (msgs \ {m}) \cup SendToNextServer(n, sent)
                /\ phase' = [phase EXCEPT ![n] = "done"]
                /\ UNCHANGED result
             \/ /\ CheckChallenge(m.check) /\ ~weAreNotLeader
                /\ result' = [cs |-> updated.cs, sigs |-> updated.sigs]
                /\ msgs' = msgs \ {m}
                /\ phase' = [phase EXCEPT ![n] = "publishing"]
             \/ /\ ~CheckChallenge(m.check)
                /\ msgs' = msgs \ {m}
                /\ phase' = [phase EXCEPT ![n] = "done"]
                /\ UNCHANGED result
    /\ UNCHANGED <<waiter, commitments, openings, leaderCommit, panicked, up>>

Crash(n) ==
    /\ n \in faults.mayCrash /\ up[n]
    /\ up' = [up EXCEPT ![n] = FALSE]
    /\ UNCHANGED <<waiter, phase, commitments, openings, leaderCommit, result, panicked, msgs>>

----------------------------------------------------------------------------
LeaderStep ==
    \/ Start \/ HandleAnnounceReply \/ HandleOpenReply \/ PublishResult \/ WaitTimeout

NodeStep(n) ==
    \/ n \in Children /\ (HandleAnnounce(n) \/ HandleOpen(n))
    \/ HandleFinalize(n)

Next ==
    /\ \/ LeaderStep
       \/ \E n \in Nodes : NodeStep(n) \/ Crash(n)
    /\ UNCHANGED faults

Spec == Init /\ [][Next]_<<vars, faults>>

(* Handlers are run, the API goroutine is scheduled and time.After fires.  *)
Fairness ==
    /\ WF_vars(Start) /\ WF_vars(HandleAnnounceReply) /\ WF_vars(HandleOpenReply)
    /\ WF_vars(PublishResult) /\ WF_vars(WaitTimeout)
    /\ \A n \in Nodes : WF_vars(NodeStep(n))

FairSpec == Spec /\ Fairness

----------------------------------------------------------------------------
(* Properties.                                                             *)

(* No server's opening is on the network before the leader holds the       *)
(* commitment of every server, each signed under the key of its index: no  *)
(* server can choose its share of the challenge knowing another's.         *)
CommitBeforeReveal ==
    \A m \in msgs : m.type \in {"Open", "OpenReply"} =>
        \A i \in Nodes : VerifyCommitmentSignature(commitments[i], Y[i])

(* The challenge handed to the client is the sum of what the servers       *)
(* committed to, and carries one valid signature of each server of the     *)
(* context, also when a node of the ring forwards another challenge or     *)
(* leaves a signature out (checks of an earlier instance are not replayed  *)
(* here).                                                                  *)
ResultGenuine ==
    result # NoResult =>
        /\ result.cs = {commitments[i].opens : i \in Nodes}
        /\ Len(result.sigs) = N
        /\ {result.sigs[i] : i \in 1 .. N} = {Sign(n, result.cs) : n \in Nodes}

(* A child never takes itself for the leader: it has no result channel and *)
(* no API handler, its handler would block for ever (handleFinalize tells  *)
(* the leader by the number of signatures only).                           *)
OnlyLeaderFinalizes == \A c \in Children : phase[c] # "publishing"

(* Among nodes that follow the protocol no panic of the state helpers is   *)
(* reached, whatever order the servers' indices have in the roster.        *)
NoPanic == faults.faulty = {} => panicked = {}

(* Without faults the instance of every child ends and the client gets its *)
(* answer: the ring visits every server, although it follows the roster    *)
(* and signatures are counted by index.                                    *)
RingCompletes ==
    (waiter = "waiting" /\ NoFaults) ~>
                          /\ waiter \in {"replied", "failed"}
                          /\ \A c \in Children : phase[c] = "done"

(* The protocol and its API handler keep the promise of CommonChallenge:   *)
(* every server has committed before the challenge is made, no share and   *)
(* no challenge changes later, and the client is answered once.            *)
Promised == INSTANCE CommonChallenge WITH
    Server <- Nodes, Share <- Points, NoShares <- <<>>, NoChallenge <- NoResult.cs,
    shares <- IF \A i \in Nodes : commitments[i] # NoCommitment
                THEN [i \in Nodes |-> commitments[i].opens] ELSE <<>>,
    challenge <- result.cs,
    answer <- CASE waiter = "replied" -> "challenge"
                [] waiter = "failed" -> "error"
                [] OTHER -> "none"

ImplementsCommonChallenge == Promised!Spec
=============================================================================
