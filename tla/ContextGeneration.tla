------------------------- MODULE ContextGeneration -------------------------
(***************************************************************************)
(* One instance of the context generation protocol                         *)
(* (dagacothority/protocols/dagacontextgeneration) together with the       *)
(* CreateContext API handler that starts it and waits for its result.      *)
(*                                                                         *)
(* Node 0 is the leader: the root of the tree, moved to the front of the   *)
(* roster when the tree is built.  The other nodes are its direct          *)
(* children.  onet runs the handlers of a protocol instance one at a time, *)
(* so a handler is one action, except handleSignReply, which blocks on an  *)
(* unbuffered channel in its middle and is three actions.                  *)
(*                                                                         *)
(* A key, or a commitment to a per-round secret, is named by the node that *)
(* drew it; Foreign is a point that no node of this run drew.              *)
(*                                                                         *)
(* A node that is down stays down (its instances are not stored): an error *)
(* of a send to it appears only where someone else can see its effect.     *)
(***************************************************************************)
EXTENDS PointSlices, FiniteSets

CONSTANTS N,            \* number of nodes of the tree
          Clients,      \* client keys
          Subscribers,  \* the keys of the request, a sequence of client keys
          OtherGroups,  \* sequences of keys a deviating leader may put instead
          MayRefuse,    \* nodes whose acceptRequest() may reject the request
          MayCrash,     \* nodes that may stop
          DeviationSets \* how far the leader may deviate, one of which is chosen:
                        \* what it may alter in the context it has signed, and
                        \* "Done": it may end with another context

ASSUME NAssumption == N \in Nat \ {0}
ASSUME SubscribersAssumption ==
    /\ Subscribers \in Seq(Clients)
    /\ Len(Subscribers) > 0
    /\ OtherGroups \subseteq Seq(Clients)
ASSUME FaultsAssumption ==
    /\ MayRefuse \subseteq 1 .. N - 1
    /\ MayCrash \subseteq 0 .. N - 1
    /\ DeviationSets \subseteq SUBSET {"X", "Y", "R", "H", "shortH", "Done"}

Nodes == 0 .. N - 1
Leader == 0
Children == 1 .. N - 1

Foreign == N
NoPoint == -1
Points == 0 .. N
PointOrNil == Points \cup {NoPoint}

NoIndex == -1
Indices == Nodes

(* daga.GenerateClientGenerator: a hash of the client's index and of the   *)
(* servers' commitments.                                                   *)
Generator(i, R) == [index |-> i, commits |-> R]
Generators(n, R) == [i \in 1 .. n |-> Generator(i - 1, R)]

(* daga.ValidateContext *)
ValidContext(ctx) ==
    /\ Len(ctx.X) = Len(ctx.H)
    /\ Len(ctx.X) > 0

(* A Schnorr signature verifies under the key that made it, on the bytes it *)
(* was made on.                                                             *)
Signature(key, ctx) == [by |-> key, on |-> ctx]
Verifies(sig, key, ctx) == sig = Signature(key, ctx)

----------------------------------------------------------------------------
VARIABLES
    waiter,     \* the CreateContext goroutine
    leader,     \* where the leader's protocol instance stands
    indexOf,    \* leader: the index it gave to each child
    context,    \* leader: the context being built
    signatures, \* leader: the context's Signatures
    child,      \* children: where their protocol instance stands
    original,   \* children: the request they accepted
    server,     \* the index of the node's daga.Server for this context
    msgs,       \* messages in flight
    served,     \* the context a node serves, in its service state
    up,         \* the nodes that run
    deviations  \* what the leader may deviate in

vars == <<waiter, leader, indexOf, context, signatures, child, original,
          server, msgs, served, up>>

NoSignature == [by |-> NoPoint]
NoContext == [ctx |-> NoPoint]
NoRequest == <<>>

Contexts == [X : Seq(Clients), Y : [Nodes -> PointOrNil], R : [Nodes -> PointOrNil],
             H : Seq([index : Nat, commits : [Nodes -> PointOrNil]])]
Signatures == [by : Points, on : Contexts]
FinalContexts == [ctx : Contexts, signatures : [Nodes -> Signatures \cup {NoSignature}]]

Messages ==
         [type : {"Announce"}, to : Children, index : Indices]
    \cup [type : {"AnnounceReply"}, from : Children, Y : Points, R : Points]
    \cup [type : {"Sign"}, to : Children, context : Contexts]
    \cup [type : {"SignReply"}, from : Children, signature : Signatures]
    \cup [type : {"Done"}, to : Children, final : FinalContexts]

TypeOK ==
    /\ waiter \in {"idle", "waiting", "received", "replied", "failed"}
    /\ leader \in {"idle", "announcing", "signing", "publishing",
                   "broadcasting", "done", "failed"}
    /\ indexOf \in [Children -> Indices \cup {NoIndex}]
    /\ context \in Contexts
    /\ signatures \in [Nodes -> Signatures \cup {NoSignature}]
    /\ child \in [Children -> {"idle", "announced", "signed", "done"}]
    /\ original \in [Children -> {NoRequest, Subscribers}]
    /\ server \in [Nodes -> Indices \cup {NoIndex}]
    /\ msgs \subseteq Messages
    /\ served \in [Nodes -> FinalContexts \cup {NoContext}]
    /\ up \in [Nodes -> BOOLEAN]
    /\ deviations \in DeviationSets

Init ==
    /\ waiter = "idle"
    /\ leader = "idle"
    /\ indexOf = [c \in Children |-> NoIndex]
    /\ context = [X |-> Subscribers, Y |-> [n \in Nodes |-> NoPoint],
                  R |-> [n \in Nodes |-> NoPoint], H |-> <<>>]
    /\ signatures = [n \in Nodes |-> NoSignature]
    /\ child = [c \in Children |-> "idle"]
    /\ original = [c \in Children |-> NoRequest]
    /\ server = [n \in Nodes |-> NoIndex]
    /\ msgs = {}
    /\ served = [n \in Nodes |-> NoContext]
    /\ up = [n \in Nodes |-> TRUE]
    /\ deviations \in DeviationSets

(* The nodes a send fails for: some of those that are down (a message to   *)
(* the others is lost when they are down).                                 *)
SendErrors == SUBSET {c \in Children : ~up[c]}

----------------------------------------------------------------------------
(* The leader's side.                                                      *)

(* (Definitions named <name>_<mistake> are mistakes that a change of the    *)
(* code could make; no specification uses them.)                           *)
AssignedIndex_Shifted(c) == c + 1

(* The assigned index of p.Children()[i] is i + 1; child c is the node of  *)
(* position c - 1 in p.Children().                                         *)
Position(c) == c - 1
AssignedIndex(c) == Position(c) + 1

(* Service.CreateContext up to WaitForResult: LeaderSetup and Start.  A    *)
(* failed send makes Start fail, and CreateContext with it, but the other  *)
(* children have their Announce.                                           *)
Start ==
    /\ waiter = "idle" /\ leader = "idle" /\ up[Leader]
    /\ server' = [server EXCEPT ![Leader] = Leader]
    /\ context' = [context EXCEPT !.Y[Leader] = Leader, !.R[Leader] = Leader]
    /\ indexOf' = [c \in Children |-> AssignedIndex(c)]
    /\ \E errs \in SendErrors :
         /\ msgs' = msgs \cup
              {[type |-> "Announce", to |-> c, index |-> AssignedIndex(c)] :
                 c \in Children \ errs}
         /\ IF errs = {}
              THEN leader' = "announcing" /\ waiter' = "waiting"
              ELSE leader' = "failed" /\ waiter' = "failed"
    /\ UNCHANGED <<signatures, child, original, served, up>>

ChildAt(n) == CHOOSE c \in Children : indexOf[c] = n

(* What the leader's aggregated AnnounceReply handler puts in the context: *)
(* Y and R at the indices of the children, and the clients' generators.    *)
BuiltContext(reply) ==
    LET R == [n \in Nodes |-> IF n = Leader THEN context.R[n] ELSE reply[ChildAt(n)].R]
    IN  [context EXCEPT
           !.Y = [n \in Nodes |-> IF n = Leader THEN @[n] ELSE reply[ChildAt(n)].Y],
           !.R = R,
           !.H = Generators(Len(context.X), R)]

(* The contexts a leader that deviates may send for signing, which the     *)
(* children's checks in handleSign are there for: other members, another   *)
(* key or another commitment for a child, generators of other commitments, *)
(* or not one generator per client.                                        *)
DeviatingContexts(ctx) ==
         {[ctx EXCEPT !.X = g] : g \in IF "X" \in deviations THEN OtherGroups ELSE {}}
    \cup {[ctx EXCEPT !.Y[c] = Foreign] :
             c \in IF "Y" \in deviations THEN Children ELSE {}}
    \cup {[ctx EXCEPT !.R[c] = Foreign,
                      !.H = Generators(Len(ctx.X), [ctx.R EXCEPT ![c] = Foreign])] :
             c \in IF "R" \in deviations THEN Children ELSE {}}
    \cup {[ctx EXCEPT !.H = Generators(Len(ctx.X), [n \in Nodes |-> Foreign])] :
             d \in deviations \cap {"H"}}
    \cup {[ctx EXCEPT !.H = <<>>] : d \in deviations \cap {"shortH"}}

(* onet calls an aggregating handler once every child has replied; with no *)
(* child there is no message and it is never called.                       *)
Replies(type) == {m \in msgs : m.type = type}
Aggregated(type) ==
    {reply \in [Children -> Replies(type)] :
        Children # {} /\ \A c \in Children : reply[c].from = c}

HandleAnnounceReply ==
    /\ leader = "announcing" /\ up[Leader]
    /\ \E reply \in Aggregated("AnnounceReply") :
         /\ \E ctx \in {BuiltContext(reply)} \cup DeviatingContexts(BuiltContext(reply)),
               errs \in SendErrors :
              /\ context' = ctx
              /\ msgs' = (msgs \ Replies("AnnounceReply")) \cup
                   {[type |-> "Sign", to |-> c, context |-> ctx] : c \in Children \ errs}
              /\ leader' = IF errs = {} THEN "signing" ELSE "failed"
    /\ UNCHANGED <<waiter, indexOf, signatures, child, original, server, served, up>>

(* handleSignReply up to the result channel: verify the signatures under   *)
(* the keys of the context, store them, add the leader's own, and build    *)
(* the final context (NewContext validates it).                            *)
AllVerify(reply) ==
    \A c \in Children :
        Verifies(reply[c].signature, context.Y[indexOf[c]], context)

HandleSignReply ==
    /\ leader = "signing" /\ up[Leader]
    /\ \E reply \in Aggregated("SignReply") :
         /\ msgs' = msgs \ Replies("SignReply")
         /\ \/ /\ AllVerify(reply) /\ ValidContext(context)
               /\ signatures' = [n \in Nodes |->
                     IF n = Leader THEN Signature(Leader, context)
                     ELSE reply[ChildAt(n)].signature]
               /\ leader' = "publishing"
            \/ /\ ~(AllVerify(reply) /\ ValidContext(context))
               /\ leader' = "failed"
               /\ UNCHANGED signatures
    /\ UNCHANGED <<waiter, indexOf, context, child, original, server, served, up>>

Final == [ctx |-> context, signatures |-> signatures]

(* p.result <- finalContext meets <-p.result in WaitForResult.             *)
PublishResult ==
    /\ leader = "publishing" /\ waiter = "waiting" /\ up[Leader]
    /\ leader' = "broadcasting"
    /\ waiter' = "received"
    /\ UNCHANGED <<indexOf, context, signatures, child, original, server, msgs, served, up>>

(* Done broadcast before the result is handed over.                        *)
BroadcastDone_BeforeResult ==
    /\ leader = "publishing" /\ up[Leader]
    /\ msgs' = msgs \cup {[type |-> "Done", to |-> c, final |-> Final] : c \in Children}
    /\ leader' = "done"
    /\ UNCHANGED <<waiter, indexOf, context, signatures, child, original, server, served, up>>

(* The last child left out of the broadcast.                               *)
BroadcastDone_MissesLast ==
    /\ leader = "broadcasting" /\ up[Leader]
    /\ msgs' = msgs \cup {[type |-> "Done", to |-> c, final |-> Final] : c \in 1 .. N - 2}
    /\ leader' = "done"
    /\ UNCHANGED <<waiter, indexOf, context, signatures, child, original, server, served, up>>

(* The end of handleSignReply: the Done broadcast (a failed send is only   *)
(* reported) and p.Done().                                                 *)
BroadcastDone ==
    /\ leader = "broadcasting" /\ up[Leader]
    /\ \E errs \in SendErrors :
         msgs' = msgs \cup {[type |-> "Done", to |-> c, final |-> Final] :
                              c \in Children \ errs}
    /\ leader' = "done"
    /\ UNCHANGED <<waiter, indexOf, context, signatures, child, original, server, served, up>>

(* The signature for n that a leader has for another context: it makes     *)
(* those of its own key and of Foreign, which is a key of its choice then; *)
(* of another key it has what it was sent.                                 *)
Obtained(n, ctx) ==
    LET sent == {m \in Replies("SignReply") : m.from = n}
    IN  IF ctx.Y[n] \in {Leader, Foreign} THEN Signature(ctx.Y[n], ctx)
        ELSE IF sent # {} THEN (CHOOSE m \in sent : TRUE).signature
        ELSE signatures[n]

(* The contexts it may end with: the signed one or one with other members, *)
(* under the keys of the nodes or under keys that are all its own.         *)
KeysOfItsOwn == [n \in Nodes |-> Foreign]
OtherContext(g, keys) == [context EXCEPT !.X = g, !.Y = keys]
OtherContexts ==
    {OtherContext(g, keys) :
        g \in OtherGroups \cup {context.X}, keys \in {context.Y, KeysOfItsOwn}}

(* Such a Done, before, instead of or beside the one of the protocol.      *)
(* (Bound: one at a time for a child, and none for one that is done.)      *)
SendOtherDone(c) ==
    /\ "Done" \in deviations /\ leader # "idle" /\ up[Leader]
    /\ child[c] # "done" /\ \A m \in Replies("Done") : m.to # c
    /\ \E ctx \in OtherContexts :
         msgs' = msgs \cup
           {[type |-> "Done", to |-> c,
             final |-> [ctx |-> ctx, signatures |-> [n \in Nodes |-> Obtained(n, ctx)]]]}
    /\ UNCHANGED <<waiter, leader, indexOf, context, signatures, child, original, server,
                   served, up>>

(* The timeout not disarmed by the result.                                 *)
WaitTimeout_NotDisarmed ==
    /\ waiter \in {"waiting", "received"} /\ up[Leader]
    /\ waiter' = "failed"
    /\ UNCHANGED <<leader, indexOf, context, signatures, child, original, server,
                   msgs, served, up>>

(* The wait ended by the leader's own failure only, not by the time.       *)
WaitTimeout_OnFailure ==
    /\ waiter = "waiting" /\ leader = "failed" /\ up[Leader]
    /\ waiter' = "failed"
    /\ UNCHANGED <<leader, indexOf, context, signatures, child, original, server,
                   msgs, served, up>>

(* WaitForResult's other case: Timeout has passed.                         *)
WaitTimeout ==
    /\ waiter = "waiting" /\ up[Leader]
    /\ waiter' = "failed"
    /\ UNCHANGED <<leader, indexOf, context, signatures, child, original, server,
                   msgs, served, up>>

(* The rest of CreateContext: serve the context and reply to the client.   *)
ServeAndReply ==
    /\ waiter = "received" /\ up[Leader]
    /\ served' = [served EXCEPT ![Leader] = Final]
    /\ waiter' = "replied"
    /\ UNCHANGED <<leader, indexOf, context, signatures, child, original, server, msgs, up>>

----------------------------------------------------------------------------
(* The children's side: every handler consumes its message; an error ends  *)
(* the instance (p.Done()), which no one tells the leader.                 *)

HandleAnnounce(c) ==
    /\ up[c] /\ child[c] = "idle"
    /\ \E m \in {m \in Replies("Announce") : m.to = c} :
         \/ /\ c \in MayRefuse
            /\ child' = [child EXCEPT ![c] = "done"]
            /\ msgs' = msgs \ {m}
            /\ UNCHANGED <<original, server>>
         \/ /\ child' = [child EXCEPT ![c] = "announced"]
            /\ original' = [original EXCEPT ![c] = Subscribers]
            /\ server' = [server EXCEPT ![c] = m.index]
            /\ msgs' = (msgs \ {m}) \cup
                 {[type |-> "AnnounceReply", from |-> c, Y |-> c, R |-> c]}
    /\ UNCHANGED <<waiter, leader, indexOf, context, signatures, served, up>>

(* The commitment R not checked.                                           *)
Approves_AnyCommitment(c, ctx) ==
    /\ ctx.Y[server[c]] = c
    /\ \A i \in DOMAIN ctx.H : ctx.H[i] = Generator(i - 1, ctx.R)
    /\ ContainsSameElems(original[c], ctx.X)

(* The members not checked.                                                *)
Approves_AnyMembers(c, ctx) ==
    /\ ctx.R[server[c]] = c
    /\ ctx.Y[server[c]] = c
    /\ \A i \in DOMAIN ctx.H : ctx.H[i] = Generator(i - 1, ctx.R)

(* What a child checks of the context it is asked to sign: its own         *)
(* commitment and key, every generator, and the members of the request.    *)
Approves(c, ctx) ==
    /\ ctx.R[server[c]] = c
    /\ ctx.Y[server[c]] = c
    /\ \A i \in DOMAIN ctx.H : ctx.H[i] = Generator(i - 1, ctx.R)
    /\ ContainsSameElems(original[c], ctx.X)

HandleSign(c) ==
    /\ up[c] /\ child[c] = "announced"
    /\ \E m \in {m \in Replies("Sign") : m.to = c} :
         \/ /\ Approves(c, m.context)
            /\ child' = [child EXCEPT ![c] = "signed"]
            /\ msgs' = (msgs \ {m}) \cup
                 {[type |-> "SignReply", from |-> c, signature |-> Signature(c, m.context)]}
         \/ /\ ~Approves(c, m.context)
            /\ child' = [child EXCEPT ![c] = "done"]
            /\ msgs' = msgs \ {m}
    /\ UNCHANGED <<waiter, leader, indexOf, context, signatures, original, server, served, up>>

(* The signatures of the final context, each under the key of its index.   *)
FullySigned(final) ==
    \A n \in Nodes : Verifies(final.signatures[n], final.ctx.Y[n], final.ctx)

(* The signatures not verified.                                            *)
HandleDone_Unverified(c) ==
    /\ up[c] /\ child[c] \in {"announced", "signed"}
    /\ \E m \in {m \in Replies("Done") : m.to = c} :
         /\ served' = [served EXCEPT ![c] = m.final]
         /\ msgs' = msgs \ {m}
    /\ child' = [child EXCEPT ![c] = "done"]
    /\ UNCHANGED <<waiter, leader, indexOf, context, signatures, original, server, up>>

(* The signatures are all that is checked, under the keys of the message:  *)
(* neither the child's own entry nor the context it signed, if it has      *)
(* signed any.  (A Done for a child that has no daga.Server yet, which a   *)
(* deviating leader could send, panics in startServingContext.)            *)
HandleDone(c) ==
    /\ up[c] /\ child[c] \in {"announced", "signed"}
    /\ \E m \in {m \in Replies("Done") : m.to = c} :
         /\ served' = IF FullySigned(m.final) THEN [served EXCEPT ![c] = m.final]
                                              ELSE served
         /\ msgs' = msgs \ {m}
    /\ child' = [child EXCEPT ![c] = "done"]
    /\ UNCHANGED <<waiter, leader, indexOf, context, signatures, original, server, up>>

(* A node stops: its protocol instance is in memory only, the contexts it  *)
(* serves are in its saved state.                                          *)
Crash(n) ==
    /\ n \in MayCrash /\ up[n]
    /\ up' = [up EXCEPT ![n] = FALSE]
    /\ UNCHANGED <<waiter, leader, indexOf, context, signatures, child, original,
                   server, msgs, served>>

----------------------------------------------------------------------------
LeaderStep ==
    \/ Start \/ HandleAnnounceReply \/ HandleSignReply \/ PublishResult
    \/ BroadcastDone \/ WaitTimeout \/ ServeAndReply

ChildStep(c) == HandleAnnounce(c) \/ HandleSign(c) \/ HandleDone(c)

Next ==
    /\ \/ LeaderStep
       \/ \E c \in Children : ChildStep(c) \/ SendOtherDone(c)
       \/ \E n \in Nodes : Crash(n)
    /\ UNCHANGED deviations

Spec == Init /\ [][Next]_<<vars, deviations>>

(* onet delivers what it has accepted and runs the handlers; the goroutine *)
(* of CreateContext is scheduled, and time.After fires.                    *)
Fairness ==
    /\ WF_vars(Start) /\ WF_vars(HandleAnnounceReply) /\ WF_vars(HandleSignReply)
    /\ WF_vars(PublishResult) /\ WF_vars(BroadcastDone)
    /\ WF_vars(WaitTimeout) /\ WF_vars(ServeAndReply)
    /\ \A c \in Children : WF_vars(ChildStep(c))

FairSpec == Spec /\ Fairness

----------------------------------------------------------------------------
(* Properties.                                                             *)

Serves(n) == served[n] # NoContext

(* The leader follows the protocol in Done: it sends the context that was  *)
(* signed.  (It may have altered this context before.)                     *)
EndsAsSigned == "Done" \notin deviations

(* A context a node serves is one every node agreed to: each signature     *)
(* verifies under the key of its index, every node's own entry is the key  *)
(* and the commitment it drew, at the index of its daga.Server (which the  *)
(* later protocols use as its place in the context), and the generators    *)
(* are those of the servers' commitments.  The checks of handleSign,       *)
(* handleSignReply and handleDone are spread over three handlers of two    *)
(* nodes; this is what they add up to when the leader ends with the        *)
(* context it had signed, although that may have been any of               *)
(* DeviatingContexts.                                                      *)
ServedIsApproved ==
    EndsAsSigned =>
        \A n \in Nodes : Serves(n) =>
            LET ctx == served[n].ctx
            IN  /\ FullySigned(served[n])
                /\ \A m \in Nodes : ctx.Y[server[m]] = m /\ ctx.R[server[m]] = m
                /\ ctx.H = Generators(Len(ctx.X), ctx.R)

(* What is left of it when the leader may send OtherContexts in Done (it   *)
(* may then have a context served that no child has built or approved,     *)
(* under keys of its own: handleDone compares it with nothing): a child's  *)
(* key is in a context that is served only where the child has approved    *)
(* this context (its own entry, generators and members), for handleDone    *)
(* asks for its signature on it.                                           *)
ServedHasConsent ==
    \A n \in Nodes : Serves(n) =>
        LET ctx == served[n].ctx
        IN  \A c \in Children : (\E i \in Nodes : ctx.Y[i] = c) =>
                /\ ctx.Y[server[c]] = c /\ ctx.R[server[c]] = c
                /\ \A i \in DOMAIN ctx.H : ctx.H[i] = Generator(i - 1, ctx.R)
                /\ Range(ctx.X) \subseteq Range(Subscribers)

(* A CreateContext call that has reported a failure left no node serving   *)
(* the context it was creating: the leader hands its result over before it *)
(* broadcasts Done, so a result nobody waits for any more is never         *)
(* broadcast (handleSignReply, WaitForResult).                             *)
FailedMeansUnserved ==
    EndsAsSigned /\ waiter = "failed" => \A n \in Nodes : ~Serves(n)

(* What the comment above Service.CreateContext says: on success the       *)
(* cothority serves the new context.                                       *)
ReplyMeansServed == waiter = "replied" => \A n \in Nodes : Serves(n)

(* What handleSign's comment says of its check of the members: a context   *)
(* that is signed and served has the subscribers of the request.           *)
ServedAnswersRequest ==
    \A n \in Nodes : Serves(n) => SameElements(Subscribers, served[n].ctx.X)

(* What that check does guarantee, when Done brings the context that was   *)
(* signed: the leader can put nobody into it who is not a subscriber of    *)
(* the request, and leave one out only by putting another in twice.        *)
ServedMembersSubscribed ==
    EndsAsSigned =>
        \A n \in Nodes : Serves(n) =>
            LET X == served[n].ctx.X
            IN  /\ Range(X) \subseteq Range(Subscribers)
                /\ IsInjective(X) => SameElements(Subscribers, X)

(* Once the API handler of a leader that ends with the context it had      *)
(* signed has the result, every node that stays up ends up serving it,     *)
(* unless it is the leader that stops.                                     *)
AllServe ==
    (EndsAsSigned /\ waiter = "received") ~>
        (~up[Leader] \/ \A n \in Nodes : Serves(n) \/ ~up[n])

(* CreateContext returns, with a reply or with an error, whatever becomes  *)
(* of the children (refusals and errors are not reported to the leader).   *)
CreateReturns == waiter = "waiting" ~> (waiter \in {"replied", "failed"} \/ ~up[Leader])

(* The agreement the protocol implements when its leader ends with the     *)
(* context that was signed: the decision is the answer of WaitForResult.   *)
Undecided == [decided |-> FALSE]
Failed == [failed |-> TRUE]

Decision ==
    IF waiter = "failed" THEN Failed
    ELSE IF waiter \in {"received", "replied"} THEN Final ELSE Undecided

Agreement == INSTANCE ContextAgreement WITH
    Agreed <- {f \in FinalContexts : FullySigned(f)}, decision <- Decision

(* The protocol implements the agreement: one decision, final once made,   *)
(* and no node serves anything but a fully signed context that was decided *)
(* on.  (EndsAsSigned => Agreement!Spec, for a condition that is fixed.)   *)
ImplementsAgreement ==
    /\ EndsAsSigned => Agreement!Init
    /\ [][EndsAsSigned => Agreement!Next]_(Agreement!vars)
=============================================================================
