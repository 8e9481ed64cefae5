----------------------------- MODULE DagaAuth -----------------------------
(***************************************************************************)
(* One instance of the servers' authentication protocol                    *)
(* (dagacothority/protocols/dagaauth) with the Auth API handler that       *)
(* starts it: the message goes round the ring of the roster, every server  *)
(* verifies and extends it, and the last one broadcasts it.                *)
(*                                                                         *)
(* A node that is down stays down (its instances are not stored): a        *)
(* message that could not be sent to it is one it does not read, and the   *)
(* error of the send appears only where someone else can see its effect.   *)
(***************************************************************************)
EXTENDS RosterRing

CONSTANTS Leaders,      \* the nodes a client may send its request to
          FaultScenarios \* what may go wrong, one of which is chosen, and what
                        \* clients may ask then

INSTANCE ServerMessages

ASSUME LeadersAssumption == Leaders \subseteq Nodes
ASSUME FaultsAssumption ==
    FaultScenarios \subseteq [mayRefuse : SUBSET Nodes, faulty : SUBSET Nodes,
                               mayCrash : SUBSET Nodes, requests : SUBSET ClientRequests]

VARIABLES
    faults,    \* who may refuse, deviate, stop; the requests
    leader,    \* the node the client sent its request to
    request,   \* the client's request
    waiter,    \* the Auth goroutine
    phase,     \* where each node's protocol instance stands
    result,    \* the message the client is answered with
    rejected,  \* the nodes that found a message invalid
    panicked,  \* the nodes that called a nil acceptContext
    msgs,      \* messages in flight
    up         \* the nodes that run

vars == <<leader, request, waiter, phase, result, rejected, panicked, msgs, up>>

Messages == [type : {"ServerMsg", "FinishedServerMsg"}, to : Nodes, entries : Seq(Entries)]

TypeOK ==
    /\ faults \in FaultScenarios
    /\ leader \in Leaders
    /\ request \in faults.requests
    /\ waiter \in {"idle", "waiting", "replied", "failed"}
    /\ phase \in [Nodes -> {"idle", "forwarded", "publishing", "done"}]
    /\ result \in Seq(Entries)
    /\ rejected \subseteq Nodes
    /\ panicked \subseteq Nodes
    /\ msgs \subseteq Messages
    /\ up \in [Nodes -> BOOLEAN]

NoFaults == faults.mayRefuse = {} /\ faults.faulty = {} /\ faults.mayCrash = {}

Init ==
    /\ faults \in FaultScenarios
    /\ leader \in Leaders
    /\ request \in faults.requests
    /\ waiter = "idle"
    /\ phase = [n \in Nodes |-> "idle"]
    /\ result = <<>>
    /\ rejected = {}
    /\ panicked = {}
    /\ msgs = {}
    /\ up = [n \in Nodes |-> TRUE]

Running(n) == up[n] /\ n \notin panicked
SendErrors == SUBSET {n \in Nodes : ~up[n]}
Inbox(n, type) == {m \in msgs : m.type = type /\ m.to = n}

(* The entries a faulty node may make: a server proof for the tag the      *)
(* previous one gives or one that is refuted, or a misbehaving proof, which *)
(* goes with any tag and any index.                                        *)
EntriesOf(n, entries) ==
    LET j == ServerIndex[n]
        previous == TagBefore(entries, Len(entries) + 1)
    IN  {NewEntry(entries, j, T, NewServerProof(j, previous, T)) :
           T \in {Exponentiated(j, previous), OtherTag}}
        \cup {SignedEntry(entries, j, i, T, NewMisbehavingProof(j)) :
                 i \in Servers, T \in {NullTag, OtherTag}}

Longer(n, entries) == {Append(entries, entry) : entry \in EntriesOf(n, entries)}

(* What it may make of the message: keep the entries of the first servers  *)
(* (the signatures cover what is before them), and add none, one or two.   *)
Altered(n, entries) ==
    LET kept == {SubSeq(entries, 1, i) : i \in 0 .. Len(entries)}
        one == UNION {Longer(n, e) : e \in kept}
    IN  kept \cup one \cup UNION {Longer(n, e) : e \in one}

Extended(n, entries) ==
    {ServerProtocol(request, entries, ServerIndex[n])}
      \cup IF n \in faults.faulty THEN Altered(n, entries) ELSE {}

SendToNextServer(n, entries) ==
    {[type |-> "ServerMsg", to |-> next, entries |-> entries] :
       next \in {NextServer(n)} \ {NoNode}}

(* The broadcast reaches the other nodes only.                             *)
FinishedTo_Others(n) == Nodes \ {n}

(* Broadcast, and a message to itself.                                     *)
FinishedTo(n) == Nodes

SendFinished(n, entries, errs) ==
    {[type |-> "FinishedServerMsg", to |-> r, entries |-> entries] :
       r \in FinishedTo(n) \ (errs \cup IF errs = {} THEN {} ELSE {n})}

----------------------------------------------------------------------------
(* The leader's side.                                                      *)

(* Service.Auth up to WaitForResult: LeaderSetup and Start.                *)
Start ==
    /\ waiter = "idle" /\ Running(leader)
    /\ \/ /\ Accepts(request, <<>>)
          /\ \E entries \in Extended(leader, <<>>) :
               msgs' = msgs \cup SendToNextServer(leader, entries)
          /\ waiter' = "waiting"
          /\ phase' = [phase EXCEPT ![leader] = "forwarded"]
       \/ /\ ~Accepts(request, <<>>) \/ ~up[NextServer(leader)]
          /\ waiter' = "failed"
          /\ phase' = [phase EXCEPT ![leader] = "done"]
          /\ UNCHANGED msgs
    /\ UNCHANGED <<leader, request, result, rejected, panicked, up>>

(* p.result <- *serverMsg meets <-p.result, and Auth replies.              *)
PublishResult ==
    /\ phase[leader] = "publishing" /\ waiter = "waiting" /\ Running(leader)
    /\ phase' = [phase EXCEPT ![leader] = "done"]
    /\ waiter' = "replied"
    /\ UNCHANGED <<leader, request, result, rejected, panicked, msgs, up>>

WaitTimeout ==
    /\ waiter = "waiting" /\ Running(leader)
    /\ waiter' = "failed"
    /\ UNCHANGED <<leader, request, phase, result, rejected, panicked, msgs, up>>

----------------------------------------------------------------------------
(* The handlers, on any node.                                              *)

(* The message as it was received counted, not as it is sent.              *)
AllHaveServed_Received(received, sent) == Len(received) = N

(* One server too early.                                                   *)
AllHaveServed_ButOne(received, sent) == Len(sent) = N - 1

(* weAreLastServer                                                         *)
AllHaveServed(received, sent) == Len(sent) = N

(* The leader has no acceptContext: the handler would panic on it.         *)
HandleServerMsgOnLeader ==
    /\ phase[leader] = "forwarded" /\ Running(leader)
    /\ \E m \in Inbox(leader, "ServerMsg") : msgs' = msgs \ {m}
    /\ panicked' = panicked \cup {leader}
    /\ UNCHANGED <<leader, request, waiter, phase, result, rejected, up>>

(* Check the context, verify and extend the message, then pass it on or,   *)
(* when every server has, send it to everyone (a faulty node does either,  *)
(* when it likes).                                                         *)
HandleServerMsg(n) ==
    /\ n # leader /\ phase[n] \in {"idle", "forwarded"} /\ Running(n)
    /\ \E m \in Inbox(n, "ServerMsg") :
         \/ /\ Accepts(request, m.entries)
            /\ \E entries \in Extended(n, m.entries) :
                 \/ /\ ~AllHaveServed(m.entries, entries) \/ n \in faults.faulty
                    /\ msgs' = (msgs \ {m}) \cup SendToNextServer(n, entries)
                    /\ phase' = [phase EXCEPT ![n] = "forwarded"]
                 \/ /\ AllHaveServed(m.entries, entries) \/ n \in faults.faulty
                    /\ \E errs \in SendErrors :
                         /\ msgs' = (msgs \ {m}) \cup SendFinished(n, entries, errs)
                         /\ phase' = [phase EXCEPT ![n] =
                                        IF errs = {} THEN "forwarded" ELSE "done"]
            /\ UNCHANGED rejected
         \/ /\ n \in faults.mayRefuse
            /\ msgs' = msgs \ {m}
            /\ phase' = [phase EXCEPT ![n] = "done"]
            /\ UNCHANGED rejected
         \/ /\ ~Accepts(request, m.entries)
            /\ msgs' = msgs \ {m}
            /\ phase' = [phase EXCEPT ![n] = "done"]
            /\ rejected' = rejected \cup {n}
    /\ UNCHANGED <<leader, request, waiter, result, panicked, up>>

(* Verify the message; the leader, which is who has no acceptContext,      *)
(* blocks on its result channel until someone takes the result.            *)
HandleFinishedServerMsg(n) ==
    /\ phase[n] \in {"idle", "forwarded"} /\ Running(n)
    /\ \E m \in Inbox(n, "FinishedServerMsg") :
         LET verified == HasFinalTag(request, m.entries)
         IN  /\ msgs' = msgs \ {m}
             /\ rejected' = IF verified THEN rejected ELSE rejected \cup {n}
             /\ \/ /\ verified /\ n = leader
                   /\ result' = m.entries
                   /\ phase' = [phase EXCEPT ![n] = "publishing"]
                \/ /\ ~(verified /\ n = leader)
                   /\ phase' = [phase EXCEPT ![n] = "done"]
                   /\ UNCHANGED result
    /\ UNCHANGED <<leader, request, waiter, panicked, up>>

Crash(n) ==
    /\ n \in faults.mayCrash /\ up[n]
    /\ up' = [up EXCEPT ![n] = FALSE]
    /\ UNCHANGED <<leader, request, waiter, phase, result, rejected, panicked, msgs>>

----------------------------------------------------------------------------
LeaderStep == Start \/ PublishResult \/ WaitTimeout \/ HandleServerMsgOnLeader
NodeStep(n) == HandleServerMsg(n) \/ HandleFinishedServerMsg(n)

Next ==
    /\ \/ LeaderStep
       \/ \E n \in Nodes : NodeStep(n) \/ Crash(n)
    /\ UNCHANGED faults

Spec == Init /\ [][Next]_<<vars, faults>>

(* Handlers are run, the API goroutine is scheduled and time.After fires,  *)
(* on the nodes that follow the protocol.                                  *)
Follows(n) == n \notin faults.faulty

Fairness ==
    /\ WF_vars(Follows(leader) /\ Start)
    /\ WF_vars(PublishResult) /\ WF_vars(WaitTimeout)
    /\ \A n \in Nodes : WF_vars(Follows(n) /\ NodeStep(n))

FairSpec == Spec /\ Fairness

----------------------------------------------------------------------------
(* Properties.                                                             *)

(* The servers that have made an entry of the message.                     *)
Served(entries) == {entries[i].index : i \in DOMAIN entries}

ServedOnce(entries) ==
    \A i, j \in DOMAIN entries : i # j => entries[i].index # entries[j].index

(* One server proof of each server, and nothing else.                      *)
ProvenByAll(entries) ==
    /\ Served(entries) = Servers /\ ServedOnce(entries)
    /\ \A i \in DOMAIN entries : entries[i].proof.kind = "server"

(* The tag the client extracts is its one tag in this context, whichever   *)
(* server it asked and whatever its ephemeral key, so that two             *)
(* authentications of a client are linked; a client that misbehaved gets   *)
(* the null tag.  The verifications of ServerProtocol and                  *)
(* GetFinalLinkageTag give it when the servers follow the protocol, and,   *)
(* with faulty servers, when the result has one server proof of each.  That *)
(* it has, they do not ask: it may miss servers, repeat one, or come with a *)
(* misbehaving proof and any tag, and then nothing is said of the tag.     *)
ResultIsLinkageTag ==
    result # <<>> /\ (faults.faulty = {} \/ ProvenByAll(result)) =>
        FinalTag(result) = IF request.wrong = {} THEN LinkageTag ELSE NullTag

(* Servers that follow the protocol accept each other's messages, when the *)
(* client does, too.                                                       *)
HonestMessagesAccepted == faults.faulty = {} /\ request.wrong = {} => rejected = {}

(* client_test.go requires it for a client that misbehaves as well.        *)
MisbehavingAnswered == faults.faulty = {} /\ request.wrong # {} => rejected = {}

(* The ring of the roster and the count of the servers that have served    *)
(* agree: the message never comes back to the leader, whose instance has   *)
(* no acceptContext to call.                                               *)
LeaderNotReentered == faults.faulty = {} => panicked = {}

(* How the servers are to take the client.                                 *)
Judged(r) == IF ~r.proof THEN "unproven" ELSE IF r.wrong = {} THEN "honest" ELSE "misbehaving"

(* Servers that follow the protocol, or stop, or refuse, keep the promise  *)
(* of TagAgreement: one message gathers the entries of the servers, each   *)
(* of them once, it is answered only when it has all of them, with a tag   *)
(* that depends on the client alone, and once it is lost nothing is        *)
(* answered.  (Faulty ones can break it: neither repeated nor missing      *)
(* entries are refused.)                                                   *)
Agreed == INSTANCE TagAgreement WITH
    Server <- Servers, Client <- {"unproven", "honest", "misbehaving"},
    Unproven <- {"unproven"}, NoTag <- Tag("none", Zero), Nobody <- {N},
    TagOf <- [unproven |-> OtherTag, honest |-> LinkageTag, misbehaving |-> NullTag],
    client <- Judged(request),
    contributed <- IF result # <<>> THEN Served(result)
                   ELSE IF msgs = {} /\ waiter # "idle" THEN {N}
                   ELSE UNION {Served(m.entries) : m \in msgs},
    tag <- IF result = <<>> THEN Tag("none", Zero) ELSE FinalTag(result),
    answer <- CASE waiter = "replied" -> "tag"
                [] waiter = "failed" -> "error"
                [] OTHER -> "none"

(* faults.faulty = {} => Agreed!Spec, for a condition that is fixed.        *)
ImplementsTagAgreement ==
    /\ faults.faulty = {} => Agreed!Init
    /\ [][faults.faulty = {} => Agreed!Next]_(Agreed!vars)

(* Without faults every child's instance ends (the last server's, too,     *)
(* which sends the final message to itself) and the client is answered.    *)
InstancesEnd ==
    (waiter = "waiting" /\ NoFaults) ~>
                          /\ waiter \in {"replied", "failed"}
                          /\ \A n \in Nodes \ {leader} : phase[n] = "done"
=============================================================================
