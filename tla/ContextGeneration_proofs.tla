---------------------- MODULE ContextGeneration_proofs ----------------------
(***************************************************************************)
(* Proofs about the context generation protocol, for any number of nodes,  *)
(* any group and any choice of the faults and deviations of the model.     *)
(***************************************************************************)
EXTENDS ContextGeneration, SequenceTheorems, FiniteSetTheorems, TLAPS

(* A node's entry of a context is its own, and the generators are those of *)
(* the commitments: what a child has checked of a context it signed.       *)
OwnEntry(n, ctx) == ctx.Y[n] = n /\ ctx.R[n] = n

GoodGenerators(ctx) == \A i \in DOMAIN ctx.H : ctx.H[i] = Generator(i - 1, ctx.R)

(* Indices are assigned once, by the position of the child.                *)
IndexInv ==
    /\ leader # "idle" => /\ server[Leader] = Leader
                          /\ OwnEntry(Leader, context)
                          /\ \A c \in Children : indexOf[c] = c
    /\ \A c \in Children : child[c] \in {"announced", "signed"} => server[c] = c

(* What the messages in flight say of the nodes that sent them.            *)
MessageInv ==
    \A m \in msgs :
        /\ m.type = "Announce" => m.index = m.to
        /\ m.type = "SignReply" =>
             /\ m.signature.by = m.from
             /\ OwnEntry(m.from, m.signature.on)
             /\ GoodGenerators(m.signature.on)
             /\ server[m.from] = m.from
        /\ m.type = "Done" /\ EndsAsSigned => leader = "done" /\ m.final = Final

(* The context the leader publishes was approved by every node.            *)
PublishInv ==
    leader \in {"publishing", "broadcasting", "done"} =>
        /\ FullySigned(Final)
        /\ \A n \in Nodes : server[n] = n /\ OwnEntry(n, context)
        /\ context.H = Generators(Len(context.X), context.R)

(* The API handler and the leader's protocol instance agree on whether     *)
(* there is a result, and nobody serves before.                            *)
ResultInv ==
    /\ waiter = "idle" <=> leader = "idle"
    /\ waiter \in {"received", "replied"} <=> leader \in {"broadcasting", "done"}
    /\ EndsAsSigned => \A n \in Nodes : Serves(n) =>
          leader \in {"broadcasting", "done"} /\ served[n] = Final

IInv == TypeOK /\ IndexInv /\ MessageInv /\ PublishInv /\ ResultInv

----------------------------------------------------------------------------
GeneratorList == Seq([index : Nat, commits : [Nodes -> PointOrNil]])

(* A function on 1 .. n is a sequence of length n.                         *)
LEMMA FunctionIsSeq ==
    ASSUME NEW S, NEW n \in Nat, NEW f \in [1 .. n -> S]
    PROVE  f \in Seq(S) /\ Len(f) = n
  BY SMT

(* Generators returns a list of the asked length.                          *)
LEMMA GeneratorsType ==
    ASSUME NEW n \in Nat, NEW R \in [Nodes -> PointOrNil]
    PROVE  /\ Generators(n, R) \in GeneratorList
           /\ Len(Generators(n, R)) = n
<1> DEFINE Item == [index : Nat, commits : [Nodes -> PointOrNil]]
           gens == Generators(n, R)
<1>1. gens \in [1 .. n -> Item]
  BY SMT DEF Generators, Generator
<1> HIDE DEF Item, gens
<1>2. gens \in Seq(Item) /\ Len(gens) = n
  BY <1>1, FunctionIsSeq
<1> QED
  BY <1>2 DEF GeneratorList, Item, gens

(* A list with one generator of the commitments per client is Generators.  *)
LEMMA GeneratorsUnique ==
    ASSUME NEW ctx \in Contexts, GoodGenerators(ctx), ValidContext(ctx)
    PROVE  ctx.H = Generators(Len(ctx.X), ctx.R)
  BY SMT DEF Contexts, GoodGenerators, ValidContext, Generators

(* The map from children to indices is what it is inverted as.             *)
LEMMA ChildAtIndex ==
    ASSUME \A c \in Children : indexOf[c] = c, NEW n \in Children
    PROVE  ChildAt(n) = n
<1>1. \A c \in Children : (indexOf[c] = n) <=> (c = n)
  OBVIOUS
<1> QED
  BY <1>1 DEF ChildAt

LEMMA InitInv == Init => IInv
<1> SUFFICES ASSUME Init PROVE IInv
  OBVIOUS
<1> USE NAssumption, SubscribersAssumption
<1>1. TypeOK
  <2>1. context \in Contexts
    BY DEF Init, Contexts, PointOrNil
  <2> QED
    BY <2>1 DEF Init, TypeOK
<1>2. IndexInv /\ MessageInv /\ PublishInv /\ ResultInv
  BY DEF Init, IndexInv, MessageInv, PublishInv, ResultInv, Serves, NoContext
<1> QED
  BY <1>1, <1>2 DEF IInv

(* The messages of one type, as the types of their fields.                 *)
LEMMA MessageTypes ==
    ASSUME NEW m \in Messages
    PROVE  /\ m.type = "Announce" => m.to \in Children /\ m.index \in Indices
           /\ m.type = "AnnounceReply" =>
                m.from \in Children /\ m.Y \in Points /\ m.R \in Points
           /\ m.type = "Sign" => m.to \in Children /\ m.context \in Contexts
           /\ m.type = "SignReply" => m.from \in Children /\ m.signature \in Signatures
           /\ m.type = "Done" => m.to \in Children /\ m.final \in FinalContexts
  BY DEF Messages

(* The context a leader builds from the replies keeps its own entry.       *)
LEMMA BuiltContextType ==
    ASSUME TypeOK, \A c \in Children : indexOf[c] = c, OwnEntry(Leader, context),
           NEW reply \in Aggregated("AnnounceReply")
    PROVE  /\ BuiltContext(reply) \in Contexts
           /\ OwnEntry(Leader, BuiltContext(reply))
<1> DEFINE R == [n \in Nodes |-> IF n = Leader THEN context.R[n] ELSE reply[ChildAt(n)].R]
           Y == [n \in Nodes |-> IF n = Leader THEN context.Y[n] ELSE reply[ChildAt(n)].Y]
           gens == Generators(Len(context.X), R)
<1>1. /\ context.X \in Seq(Clients)
      /\ context.Y \in [Nodes -> PointOrNil] /\ context.R \in [Nodes -> PointOrNil]
      /\ Len(context.X) \in Nat
  BY DEF TypeOK, Contexts
<1>2. ASSUME NEW n \in Nodes, n # Leader
      PROVE  reply[ChildAt(n)].Y \in PointOrNil /\ reply[ChildAt(n)].R \in PointOrNil
  <2>1. n \in Children /\ ChildAt(n) = n
    BY <1>2, NAssumption, ChildAtIndex DEF Nodes, Children, Leader
  <2>2. reply[n] \in msgs /\ reply[n].type = "AnnounceReply"
    BY <2>1 DEF Aggregated, Replies
  <2> QED
    BY <2>1, <2>2, MessageTypes DEF TypeOK, PointOrNil
<1>3. R \in [Nodes -> PointOrNil] /\ Y \in [Nodes -> PointOrNil]
  BY <1>1, <1>2
<1>4. gens \in GeneratorList
  BY <1>1, <1>3, GeneratorsType
<1>5. Leader \in Nodes /\ Y[Leader] = Leader /\ R[Leader] = Leader
  BY NAssumption DEF OwnEntry, Leader, Nodes
<1>6. BuiltContext(reply) = [context EXCEPT !.Y = Y, !.R = R, !.H = gens]
  BY DEF BuiltContext
<1> HIDE DEF Y, R, gens
<1> QED
  BY <1>1, <1>3, <1>4, <1>5, <1>6 DEF TypeOK, Contexts, GeneratorList, OwnEntry

(* In no context that a deviating leader has signed its own entry changes. *)
LEMMA DeviatingContextsType ==
    ASSUME NEW ctx \in Contexts, OwnEntry(Leader, ctx), NEW dev \in DeviatingContexts(ctx)
    PROVE  dev \in Contexts /\ OwnEntry(Leader, dev)
<1> USE NAssumption, SubscribersAssumption
<1>1. /\ ctx.X \in Seq(Clients) /\ Len(ctx.X) \in Nat /\ ctx.H \in GeneratorList
      /\ ctx.Y \in [Nodes -> PointOrNil] /\ ctx.R \in [Nodes -> PointOrNil]
  BY DEF Contexts, GeneratorList
<1>2. Foreign \in PointOrNil /\ \A c \in Children : c \in Nodes /\ c # Leader
  BY DEF Foreign, PointOrNil, Points, Children, Nodes, Leader
<1>3. CASE \E g \in OtherGroups : dev = [ctx EXCEPT !.X = g]
  BY <1>1, <1>3 DEF Contexts, OwnEntry
<1>4. ASSUME NEW c \in Children, dev = [ctx EXCEPT !.Y[c] = Foreign]
      PROVE  dev \in Contexts /\ OwnEntry(Leader, dev)
  <2> DEFINE Y == [ctx.Y EXCEPT ![c] = Foreign]
  <2>1. Y \in [Nodes -> PointOrNil] /\ Y[Leader] = ctx.Y[Leader]
    BY <1>1, <1>2
  <2>2. dev = [ctx EXCEPT !.Y = Y]
    BY <1>4 DEF Contexts
  <2> HIDE DEF Y
  <2> QED
    BY <1>1, <2>1, <2>2 DEF Contexts, OwnEntry
<1>5. ASSUME NEW c \in Children,
             dev = [ctx EXCEPT !.R[c] = Foreign,
                               !.H = Generators(Len(ctx.X), [ctx.R EXCEPT ![c] = Foreign])]
      PROVE  dev \in Contexts /\ OwnEntry(Leader, dev)
  <2> DEFINE R == [ctx.R EXCEPT ![c] = Foreign]
             gens == Generators(Len(ctx.X), R)
  <2>1. R \in [Nodes -> PointOrNil] /\ R[Leader] = ctx.R[Leader]
    BY <1>1, <1>2
  <2>2. gens \in GeneratorList
    BY <1>1, <2>1, GeneratorsType
  <2>3. dev = [ctx EXCEPT !.R = R, !.H = gens]
    BY <1>5 DEF Contexts
  <2> HIDE DEF R, gens
  <2> QED
    BY <1>1, <2>1, <2>2, <2>3 DEF Contexts, GeneratorList, OwnEntry
<1>6. CASE dev = [ctx EXCEPT !.H = Generators(Len(ctx.X), [n \in Nodes |-> Foreign])]
  <2> DEFINE R == [n \in Nodes |-> Foreign]
             gens == Generators(Len(ctx.X), R)
  <2>1. R \in [Nodes -> PointOrNil]
    BY <1>2
  <2>2. gens \in GeneratorList
    BY <1>1, <2>1, GeneratorsType
  <2>3. dev = [ctx EXCEPT !.H = gens]
    BY <1>6
  <2> HIDE DEF R, gens
  <2> QED
    BY <1>1, <2>2, <2>3 DEF Contexts, GeneratorList, OwnEntry
<1>7. CASE dev = [ctx EXCEPT !.H = <<>>]
  <2>1. <<>> \in GeneratorList
    BY EmptySeq DEF GeneratorList
  <2> QED
    BY <1>1, <1>7, <2>1 DEF Contexts, GeneratorList, OwnEntry
<1> QED
  BY <1>3, <1>4, <1>5, <1>6, <1>7 DEF DeviatingContexts

(* The leader's handlers and its API goroutine.                            *)
LEMMA StartInv ==
    ASSUME IInv, Start, UNCHANGED deviations PROVE IInv'
<1> USE NAssumption DEF IInv, EndsAsSigned
<1>1. /\ msgs \subseteq Messages /\ context \in Contexts
      /\ Leader \in Nodes /\ Leader \in Points /\ Leader \in PointOrNil /\ Leader \in Indices
      /\ \A c \in Children : AssignedIndex(c) = c /\ c \in Indices
  BY DEF TypeOK, Leader, Nodes, Points, PointOrNil, Indices, Children, AssignedIndex, Position
<1>2. PICK errs \in SendErrors :
         /\ msgs' = msgs \cup
              {[type |-> "Announce", to |-> c, index |-> AssignedIndex(c)] :
                 c \in Children \ errs}
         /\ IF errs = {}
              THEN leader' = "announcing" /\ waiter' = "waiting"
              ELSE leader' = "failed" /\ waiter' = "failed"
  BY DEF Start
<1>3. context' \in Contexts /\ OwnEntry(Leader, context')
  <2>1. /\ context.Y \in [Nodes -> PointOrNil] /\ context.R \in [Nodes -> PointOrNil]
        /\ context' = [context EXCEPT !.Y[Leader] = Leader, !.R[Leader] = Leader]
    BY <1>1 DEF Contexts, Start
  <2> QED
    BY <1>1, <2>1 DEF Contexts, OwnEntry
<1>4. \A m \in msgs' : m \in msgs \/ (m \in Messages /\ m.type = "Announce" /\ m.index = m.to)
  BY <1>1, <1>2 DEF Messages
<1>5. TypeOK'
  BY <1>1, <1>2, <1>3, <1>4 DEF TypeOK, Start
<1>6. IndexInv'
  BY <1>1, <1>3 DEF Start, IndexInv, TypeOK, ResultInv, Children, Leader
<1>7. MessageInv'
  BY <1>4, <1>2 DEF MessageInv, Start, TypeOK, Children, Leader
<1>8. PublishInv' /\ ResultInv'
  BY <1>2 DEF PublishInv, ResultInv, Start, Serves
<1> QED
  BY <1>5, <1>6, <1>7, <1>8

LEMMA HandleAnnounceReplyInv ==
    ASSUME IInv, HandleAnnounceReply, UNCHANGED deviations PROVE IInv'
<1> USE DEF IInv, EndsAsSigned
<1>1. leader = "announcing" /\ \A c \in Children : indexOf[c] = c
  BY DEF HandleAnnounceReply, IndexInv
<1>2. PICK ctx \in Contexts, errs \in SendErrors :
         /\ OwnEntry(Leader, ctx)
         /\ context' = ctx
         /\ msgs' = (msgs \ Replies("AnnounceReply")) \cup
              {[type |-> "Sign", to |-> c, context |-> ctx] : c \in Children \ errs}
         /\ leader' = IF errs = {} THEN "signing" ELSE "failed"
  <2>1. \A reply \in Aggregated("AnnounceReply") :
          \A ctx \in {BuiltContext(reply)} \cup DeviatingContexts(BuiltContext(reply)) :
             ctx \in Contexts /\ OwnEntry(Leader, ctx)
    BY <1>1, BuiltContextType, DeviatingContextsType DEF IndexInv
  <2> QED
    BY <2>1 DEF HandleAnnounceReply
<1>3. \A m \in msgs' : m \in msgs \/ (m \in Messages /\ m.type = "Sign")
  BY <1>2 DEF Messages
<1>4. TypeOK'
  BY <1>2, <1>3 DEF TypeOK, HandleAnnounceReply
<1>5. IndexInv'
  BY <1>1, <1>2 DEF IndexInv, HandleAnnounceReply
<1>6. MessageInv'
  BY <1>1, <1>3 DEF MessageInv, HandleAnnounceReply
<1>7. PublishInv' /\ ResultInv'
  BY <1>1, <1>2 DEF PublishInv, ResultInv, HandleAnnounceReply, Serves
<1> QED
  BY <1>4, <1>5, <1>6, <1>7

LEMMA HandleSignReplyInv ==
    ASSUME IInv, HandleSignReply, UNCHANGED deviations PROVE IInv'
<1> USE DEF IInv, EndsAsSigned
<1>1. PICK reply \in Aggregated("SignReply") :
         /\ msgs' = msgs \ Replies("SignReply")
         /\ \/ /\ AllVerify(reply) /\ ValidContext(context)
               /\ signatures' = [n \in Nodes |->
                     IF n = Leader THEN Signature(Leader, context)
                     ELSE reply[ChildAt(n)].signature]
               /\ leader' = "publishing"
            \/ /\ leader' = "failed"
               /\ UNCHANGED signatures
  BY DEF HandleSignReply
<1>2. leader = "signing" /\ waiter' = waiter /\ context' = context
  BY DEF HandleSignReply
<1>3. CASE leader' = "failed"
  <2>1. TypeOK' /\ IndexInv' /\ MessageInv'
    BY <1>1, <1>2, <1>3 DEF TypeOK, IndexInv, MessageInv, HandleSignReply
  <2>2. PublishInv' /\ ResultInv'
    BY <1>2, <1>3 DEF PublishInv, ResultInv, HandleSignReply, Serves
  <2> QED
    BY <2>1, <2>2
<1>4. CASE leader' = "publishing"
  <2>1. /\ AllVerify(reply) /\ ValidContext(context)
        /\ signatures' = [n \in Nodes |->
              IF n = Leader THEN Signature(Leader, context)
              ELSE reply[ChildAt(n)].signature]
    BY <1>1, <1>4
  <2>2. OwnEntry(Leader, context) /\ server[Leader] = Leader /\ context \in Contexts
    BY <1>2 DEF IndexInv, TypeOK
  <2>3. ASSUME NEW c \in Children
        PROVE  /\ ChildAt(c) = c
               /\ reply[c].signature = Signature(c, context)
               /\ OwnEntry(c, context) /\ GoodGenerators(context) /\ server[c] = c
    <3>1. indexOf[c] = c /\ ChildAt(c) = c
      BY <1>2, ChildAtIndex DEF IndexInv
    <3>2. reply[c] \in msgs /\ reply[c].type = "SignReply" /\ reply[c].from = c
      BY DEF Aggregated, Replies
    <3>3. /\ reply[c].signature.by = c
          /\ OwnEntry(c, reply[c].signature.on) /\ GoodGenerators(reply[c].signature.on)
          /\ server[c] = c
      BY <3>2 DEF MessageInv
    <3>4. reply[c].signature = Signature(context.Y[c], context)
      BY <2>1, <3>1 DEF AllVerify, Verifies
    <3> QED
      BY <3>1, <3>3, <3>4 DEF Signature
  <2>4. \A n \in Nodes : n = Leader \/ n \in Children
    BY NAssumption DEF Nodes, Leader, Children
  <2>5. \A n \in Nodes : signatures'[n] = Signature(n, context)
    BY <2>1, <2>3, <2>4
  <2>6. \A n \in Nodes : OwnEntry(n, context) /\ server[n] = n
    BY <2>2, <2>3, <2>4
  <2>7. context.H = Generators(Len(context.X), context.R)
    <3>1. Children # {}
      BY DEF Aggregated
    <3> QED
      BY <2>1, <2>2, <2>3, <3>1, GeneratorsUnique
  <2>8. TypeOK'
    <3>1. \A n \in Nodes : Signature(n, context) \in Signatures
      BY <2>2, NAssumption DEF Signature, Signatures, Nodes, Points
    <3>2. signatures' \in [Nodes -> Signatures \cup {NoSignature}]
      BY <2>1, <2>5, <3>1
    <3> QED
      BY <1>1, <1>2, <1>4, <3>2 DEF TypeOK, HandleSignReply
  <2>9. IndexInv' /\ MessageInv'
    BY <1>1, <1>2, <1>4 DEF IndexInv, MessageInv, HandleSignReply
  <2>10. PublishInv'
    <3>1. \A n \in Nodes : Verifies(signatures'[n], context'.Y[n], context')
      BY <1>2, <2>5, <2>6 DEF Verifies, OwnEntry
    <3>2. FullySigned(Final)'
      BY <3>1 DEF FullySigned, Final
    <3> QED
      BY <1>2, <2>6, <2>7, <3>2 DEF PublishInv, HandleSignReply
  <2>11. ResultInv'
    BY <1>2, <1>4 DEF ResultInv, HandleSignReply, Serves
  <2> QED
    BY <2>8, <2>9, <2>10, <2>11
<1> QED
  BY <1>1, <1>3, <1>4

(* The two halves of the result: the rendezvous with WaitForResult, and    *)
(* the broadcast that follows it.                                          *)
LEMMA PublishResultInv ==
    ASSUME IInv, PublishResult, UNCHANGED deviations PROVE IInv'
<1> USE DEF IInv, EndsAsSigned, PublishResult
<1>1. TypeOK'
  BY DEF TypeOK
<1>2. IndexInv' /\ MessageInv' /\ PublishInv'
  BY DEF IndexInv, MessageInv, PublishInv, FullySigned, Final, OwnEntry
<1>3. ResultInv'
  BY DEF ResultInv, Serves, Final
<1> QED
  BY <1>1, <1>2, <1>3

(* What the leader publishes is a final context.                           *)
LEMMA FinalType == TypeOK => Final \in FinalContexts
  BY DEF TypeOK, Final, FinalContexts

LEMMA BroadcastDoneInv ==
    ASSUME IInv, BroadcastDone, UNCHANGED deviations PROVE IInv'
<1> USE DEF IInv, EndsAsSigned
<1>1. PICK errs \in SendErrors :
         msgs' = msgs \cup {[type |-> "Done", to |-> c, final |-> Final] :
                              c \in Children \ errs}
  BY DEF BroadcastDone
<1>2. Final \in FinalContexts /\ Final' = Final
  BY FinalType DEF BroadcastDone, Final
<1>3. \A m \in msgs' : m \in msgs \/ (m \in Messages /\ m.type = "Done" /\ m.final = Final)
  BY <1>1, <1>2 DEF Messages
<1>4. TypeOK'
  BY <1>3 DEF TypeOK, BroadcastDone
<1>5. IndexInv' /\ PublishInv'
  BY <1>2 DEF IndexInv, PublishInv, BroadcastDone
<1>6. MessageInv'
  BY <1>2, <1>3 DEF MessageInv, BroadcastDone
<1>7. ResultInv'
  BY <1>2 DEF ResultInv, Serves, BroadcastDone
<1> QED
  BY <1>4, <1>5, <1>6, <1>7

LEMMA WaitTimeoutInv ==
    ASSUME IInv, WaitTimeout, UNCHANGED deviations PROVE IInv'
<1> USE DEF IInv, EndsAsSigned, WaitTimeout
<1>1. TypeOK' /\ IndexInv'
  BY DEF TypeOK, IndexInv
<1>2. MessageInv' /\ PublishInv' /\ ResultInv'
  BY DEF MessageInv, PublishInv, ResultInv, FullySigned, Final, Serves
<1> QED
  BY <1>1, <1>2

LEMMA ServeAndReplyInv ==
    ASSUME IInv, ServeAndReply, UNCHANGED deviations PROVE IInv'
<1> USE DEF IInv, EndsAsSigned
<1>1. leader \in {"broadcasting", "done"}
  BY DEF ServeAndReply, ResultInv
<1>2. Final \in FinalContexts /\ Final' = Final
  BY <1>1, FinalType DEF ServeAndReply, Final
<1>3. TypeOK'
  BY <1>2 DEF TypeOK, ServeAndReply
<1>4. IndexInv' /\ MessageInv' /\ PublishInv'
  BY <1>2 DEF IndexInv, MessageInv, PublishInv, ServeAndReply
<1>5. ResultInv'
  BY <1>1, <1>2 DEF ResultInv, ServeAndReply, Serves, TypeOK
<1> QED
  BY <1>3, <1>4, <1>5

(* The children's handlers.                                                *)
LEMMA HandleAnnounceInv ==
    ASSUME IInv, NEW c \in Children, HandleAnnounce(c), UNCHANGED deviations PROVE IInv'
<1> USE DEF IInv, EndsAsSigned
<1>1. PICK m \in msgs : m.type = "Announce" /\ m.to = c /\
         \/ /\ child' = [child EXCEPT ![c] = "done"]
            /\ msgs' = msgs \ {m}
            /\ UNCHANGED <<original, server>>
         \/ /\ child' = [child EXCEPT ![c] = "announced"]
            /\ original' = [original EXCEPT ![c] = Subscribers]
            /\ server' = [server EXCEPT ![c] = m.index]
            /\ msgs' = (msgs \ {m}) \cup
                 {[type |-> "AnnounceReply", from |-> c, Y |-> c, R |-> c]}
  BY DEF HandleAnnounce, Replies
<1>2. m.index = c /\ c \in Indices /\ c \in Nodes /\ c \in Points /\ c # Leader
  BY <1>1, NAssumption
  DEF MessageInv, Children, Indices, Nodes, Points, Leader
<1>3. child[c] = "idle"
  BY DEF HandleAnnounce
<1>4. /\ server' \in [Nodes -> Indices \cup {NoIndex}]
      /\ \A n \in Nodes : n # c => server'[n] = server[n]
      /\ server[c] = c => server'[c] = c
      /\ child'[c] = "announced" => server'[c] = c
  BY <1>1, <1>2 DEF TypeOK
<1>5. \A k \in msgs' : k \in msgs \/ (k \in Messages /\ k.type = "AnnounceReply")
  BY <1>1, <1>2 DEF Messages
<1>6. TypeOK'
  BY <1>1, <1>4, <1>5 DEF TypeOK, HandleAnnounce
<1>7. IndexInv'
  <2>1. \A d \in Children : d \in Nodes /\ (d # c => child'[d] = child[d] /\ server'[d] = server[d])
    BY <1>1, <1>4, NAssumption DEF TypeOK, Children, Nodes
  <2>2. server'[Leader] = server[Leader]
    BY <1>2, <1>4, NAssumption DEF Nodes, Leader
  <2>3. child'[c] \in {"announced", "done"}
    BY <1>1 DEF TypeOK
  <2> QED
    BY <1>4, <2>1, <2>2, <2>3 DEF IndexInv, HandleAnnounce
<1>8. MessageInv'
  <2>1. \A n : server[n] = n /\ n \in Children => server'[n] = n
    BY <1>4, NAssumption DEF Children, Nodes
  <2> QED
    BY <1>5, <2>1, MessageTypes DEF MessageInv, HandleAnnounce, Final, TypeOK
<1>9. PublishInv' /\ ResultInv'
  BY <1>4 DEF PublishInv, ResultInv, HandleAnnounce, Serves, Final, FullySigned
<1> QED
  BY <1>6, <1>7, <1>8, <1>9

LEMMA HandleSignInv ==
    ASSUME IInv, NEW c \in Children, HandleSign(c), UNCHANGED deviations PROVE IInv'
<1> USE DEF IInv, EndsAsSigned
<1>1. PICK m \in msgs : m.type = "Sign" /\ m.to = c /\
         \/ /\ Approves(c, m.context)
            /\ child' = [child EXCEPT ![c] = "signed"]
            /\ msgs' = (msgs \ {m}) \cup
                 {[type |-> "SignReply", from |-> c, signature |-> Signature(c, m.context)]}
         \/ /\ child' = [child EXCEPT ![c] = "done"]
            /\ msgs' = msgs \ {m}
  BY DEF HandleSign, Replies
<1>2. server[c] = c /\ c \in Points /\ m.context \in Contexts
  BY <1>1, NAssumption, MessageTypes
  DEF HandleSign, IndexInv, Children, Points, TypeOK
<1>3. \A k \in msgs' : k \in msgs \/
        /\ k \in Messages /\ k.type = "SignReply" /\ k.from = c
        /\ k.signature = Signature(c, m.context)
        /\ OwnEntry(c, m.context) /\ GoodGenerators(m.context)
  BY <1>1, <1>2 DEF Messages, Signatures, Signature, Approves, OwnEntry, GoodGenerators
<1>4. TypeOK'
  BY <1>1, <1>3 DEF TypeOK, HandleSign
<1>5. IndexInv'
  BY <1>1, <1>2 DEF IndexInv, HandleSign, TypeOK
<1>6. MessageInv'
  BY <1>2, <1>3 DEF MessageInv, HandleSign, Final, Signature
<1>7. PublishInv' /\ ResultInv'
  BY DEF PublishInv, ResultInv, HandleSign, Serves, Final, FullySigned
<1> QED
  BY <1>4, <1>5, <1>6, <1>7

(* A Done of a leader that deviates says nothing but what its type is.     *)
LEMMA SendOtherDoneInv ==
    ASSUME IInv, NEW c \in Children, SendOtherDone(c), UNCHANGED deviations PROVE IInv'
<1> USE DEF IInv, EndsAsSigned
<1>1. PICK ctx \in OtherContexts :
         msgs' = msgs \cup
           {[type |-> "Done", to |-> c,
             final |-> [ctx |-> ctx, signatures |-> [n \in Nodes |-> Obtained(n, ctx)]]]}
  BY DEF SendOtherDone
<1>2. ctx \in Contexts
  <2>1. Foreign \in PointOrNil
    BY NAssumption DEF Foreign, PointOrNil, Points
  <2>2. context \in Contexts
    BY DEF TypeOK
  <2>3. context.X \in Seq(Clients) /\ context.Y \in [Nodes -> PointOrNil]
    BY <2>2 DEF Contexts
  <2>4. KeysOfItsOwn \in [Nodes -> PointOrNil]
    BY <2>1 DEF KeysOfItsOwn
  <2>5. PICK g \in OtherGroups \cup {context.X}, keys \in {context.Y, KeysOfItsOwn} :
           ctx = OtherContext(g, keys)
    BY DEF OtherContexts
  <2>6. g \in Seq(Clients) /\ keys \in [Nodes -> PointOrNil]
    BY <2>3, <2>4, <2>5, SubscribersAssumption
  <2> QED
    BY <2>2, <2>5, <2>6 DEF Contexts, OtherContext
<1>3. \A n \in Nodes : Obtained(n, ctx) \in Signatures \cup {NoSignature}
  <2> SUFFICES ASSUME NEW n \in Nodes
               PROVE  Obtained(n, ctx) \in Signatures \cup {NoSignature}
    OBVIOUS
  <2>1. Leader \in Points /\ Foreign \in Points
    BY NAssumption DEF Leader, Foreign, Points
  <2>2. \A m \in Replies("SignReply") : m.signature \in Signatures
    BY MessageTypes DEF Replies, TypeOK
  <2>3. CASE ctx.Y[n] \in {Leader, Foreign}
    BY <1>2, <2>1, <2>3 DEF Obtained, Signature, Signatures
  <2>4. CASE ctx.Y[n] \notin {Leader, Foreign}
    BY <2>2, <2>4 DEF Obtained, TypeOK
  <2> QED
    BY <2>3, <2>4
<1> DEFINE final == [ctx |-> ctx, signatures |-> [n \in Nodes |-> Obtained(n, ctx)]]
<1>4. final \in FinalContexts
  BY <1>2, <1>3 DEF FinalContexts
<1> HIDE DEF final
<1>5. \A m \in msgs' : m \in msgs \/ (m \in Messages /\ m.type = "Done")
  BY <1>1, <1>4 DEF Messages, final
<1>6. TypeOK'
  BY <1>5 DEF TypeOK, SendOtherDone
<1>7. /\ UNCHANGED <<waiter, leader, indexOf, context, signatures, child, original, server,
                      served, up>>
      /\ ~EndsAsSigned
  BY DEF SendOtherDone
<1>8. IndexInv' /\ PublishInv' /\ ResultInv'
  BY <1>7 DEF IndexInv, PublishInv, ResultInv, Serves, Final, FullySigned
<1>9. MessageInv'
  BY <1>5, <1>7 DEF MessageInv
<1> QED
  BY <1>6, <1>8, <1>9

LEMMA HandleDoneInv ==
    ASSUME IInv, NEW c \in Children, HandleDone(c), UNCHANGED deviations PROVE IInv'
<1> USE DEF IInv, EndsAsSigned
<1>1. PICK m \in msgs : /\ m.type = "Done" /\ m.to = c
                        /\ served' = IF FullySigned(m.final)
                                       THEN [served EXCEPT ![c] = m.final] ELSE served
                        /\ msgs' = msgs \ {m}
  BY DEF HandleDone, Replies
<1>2. m.final \in FinalContexts /\ Final' = Final
  BY <1>1, MessageTypes DEF HandleDone, Final, TypeOK
<1>3. EndsAsSigned => leader = "done" /\ m.final = Final
  BY <1>1 DEF MessageInv
<1>4. TypeOK'
  BY <1>1, <1>2 DEF TypeOK, HandleDone
<1>5. IndexInv' /\ MessageInv' /\ PublishInv'
  BY <1>1, <1>2 DEF IndexInv, MessageInv, PublishInv, HandleDone, TypeOK
<1>6. ResultInv'
  BY <1>1, <1>2, <1>3 DEF ResultInv, HandleDone, Serves, TypeOK
<1> QED
  BY <1>4, <1>5, <1>6

LEMMA CrashInv ==
    ASSUME IInv, NEW n \in Nodes, Crash(n), UNCHANGED deviations PROVE IInv'
<1> USE DEF IInv, EndsAsSigned, Crash
<1>1. TypeOK' /\ IndexInv'
  BY DEF TypeOK, IndexInv
<1>2. MessageInv' /\ PublishInv' /\ ResultInv'
  BY DEF MessageInv, PublishInv, ResultInv, FullySigned, Final, Serves
<1> QED
  BY <1>1, <1>2

----------------------------------------------------------------------------
(* The invariant holds of every reachable state.                           *)
THEOREM Invariant == Spec => []IInv
<1>1. IInv /\ [Next]_<<vars, deviations>> => IInv'
  <2> SUFFICES ASSUME IInv, [Next]_<<vars, deviations>> PROVE IInv'
    OBVIOUS
  <2>5. UNCHANGED deviations
    BY DEF Next
  <2>1. CASE LeaderStep
    BY <2>1, <2>5, StartInv, HandleAnnounceReplyInv, HandleSignReplyInv, PublishResultInv,
       BroadcastDoneInv, WaitTimeoutInv, ServeAndReplyInv DEF LeaderStep
  <2>2. ASSUME NEW c \in Children, ChildStep(c) \/ SendOtherDone(c) PROVE IInv'
    BY <2>2, <2>5, HandleAnnounceInv, HandleSignInv, HandleDoneInv, SendOtherDoneInv DEF ChildStep
  <2>3. ASSUME NEW n \in Nodes, Crash(n) PROVE IInv'
    BY <2>3, <2>5, CrashInv
  <2>4. CASE UNCHANGED <<vars, deviations>>
    <3> USE <2>4 DEF vars, IInv, EndsAsSigned
    <3>1. TypeOK' /\ IndexInv'
      BY DEF TypeOK, IndexInv
    <3>2. MessageInv' /\ PublishInv' /\ ResultInv'
      BY DEF MessageInv, PublishInv, ResultInv, FullySigned, Final, Serves
    <3> QED
      BY <3>1, <3>2
  <2> QED
    BY <2>1, <2>2, <2>3, <2>4 DEF Next
<1> QED
  BY InitInv, <1>1, PTL DEF Spec

(* Every variable keeps its type.                                          *)
THEOREM TypeCorrect == Spec => []TypeOK
<1>1. IInv => TypeOK
  BY DEF IInv
<1> QED
  BY Invariant, <1>1, PTL

(* handleSign, handleSignReply and handleDone together, when Done brings   *)
(* the context that was signed: a context that a node serves was approved  *)
(* by all of them, also when the leader had one of DeviatingContexts       *)
(* signed, whichever nodes stop, refuse or are slow.  When Done brings     *)
(* another the code does not guarantee it; what it does then is            *)
(* ServedContextsHaveConsent.                                              *)
THEOREM OnlyApprovedContextsAreServed == Spec => []ServedIsApproved
<1>1. IInv => ServedIsApproved
  <2> SUFFICES ASSUME IInv, EndsAsSigned, NEW n \in Nodes, Serves(n)
               PROVE  /\ FullySigned(served[n])
                      /\ \A m \in Nodes : /\ served[n].ctx.Y[server[m]] = m
                                          /\ served[n].ctx.R[server[m]] = m
                      /\ served[n].ctx.H = Generators(Len(served[n].ctx.X), served[n].ctx.R)
    BY DEF ServedIsApproved
  <2>1. served[n] = Final /\ Final.ctx = context /\ leader \in {"broadcasting", "done"}
    BY DEF IInv, ResultInv, Final
  <2> QED
    BY <2>1 DEF IInv, PublishInv, OwnEntry
<1> QED
  BY Invariant, <1>1, PTL

(* A creation that WaitForResult has given up leaves no node serving, now  *)
(* or later: handleSignReply hands the result over before it broadcasts.   *)
THEOREM FailedCreationsAreUnserved == Spec => []FailedMeansUnserved
<1>1. IInv => FailedMeansUnserved
  BY DEF IInv, ResultInv, FailedMeansUnserved
<1> QED
  BY Invariant, <1>1, PTL

----------------------------------------------------------------------------
(* A node starts serving in one step only.                                 *)
UnservedInv ==
    /\ \A c \in Children : child[c] # "done" => ~Serves(c)
    /\ waiter # "replied" => ~Serves(Leader)

LEMMA ServedOnce == Spec => []UnservedInv
<1> USE NAssumption
<1>1. Init => UnservedInv
  BY DEF Init, UnservedInv, Serves, Nodes, Children, Leader
<1>2. IInv /\ UnservedInv /\ [Next]_<<vars, deviations>> => UnservedInv'
  <2> SUFFICES ASSUME IInv, UnservedInv, [Next]_<<vars, deviations>> PROVE UnservedInv'
    OBVIOUS
  <2> USE DEF UnservedInv, Serves
  <2>1. \A c \in Children : c # Leader /\ c \in Nodes
    BY DEF Children, Leader, Nodes
  <2>2. CASE LeaderStep
    <3>1. CASE ServeAndReply
      BY <2>1, <3>1 DEF ServeAndReply, IInv, TypeOK
    <3>2. CASE UNCHANGED <<served, child>> /\ waiter # "replied"
      BY <3>2
    <3> QED
      BY <2>2, <3>1, <3>2 DEF LeaderStep, Start, HandleAnnounceReply, HandleSignReply,
         PublishResult, BroadcastDone, WaitTimeout, IInv, ResultInv
  <2>3. ASSUME NEW c \in Children, ChildStep(c) \/ SendOtherDone(c) PROVE UnservedInv'
    <3>1. CASE HandleAnnounce(c)
      BY <3>1 DEF HandleAnnounce, IInv, TypeOK
    <3>2. CASE HandleSign(c)
      BY <3>2 DEF HandleSign, IInv, TypeOK
    <3>3. CASE HandleDone(c)
      BY <2>1, <3>3 DEF HandleDone, IInv, TypeOK
    <3>4. CASE SendOtherDone(c)
      BY <3>4 DEF SendOtherDone
    <3> QED
      BY <2>3, <3>1, <3>2, <3>3, <3>4 DEF ChildStep
  <2>4. ASSUME NEW n \in Nodes, Crash(n) PROVE UnservedInv'
    BY <2>4 DEF Crash
  <2>5. CASE UNCHANGED <<vars, deviations>>
    BY <2>5 DEF vars
  <2> QED
    BY <2>2, <2>3, <2>4, <2>5 DEF Next
<1> QED
  BY <1>1, <1>2, Invariant, PTL DEF Spec

(* The protocol implements the agreement on one context: every step is a   *)
(* decision, a node that starts serving what was decided, or nothing, when *)
(* the leader ends with the context that was signed.                       *)
THEOREM ProtocolImplementsAgreement == Spec => ImplementsAgreement
<1> USE NAssumption
<1>1. Init => Agreement!Init
  BY DEF Init, Agreement!Init, Decision
<1>2. IInv /\ IInv' /\ UnservedInv /\ [Next]_<<vars, deviations>>
        => [EndsAsSigned => Agreement!Next]_(Agreement!vars)
  <2> SUFFICES ASSUME IInv, IInv', UnservedInv, [Next]_<<vars, deviations>>, EndsAsSigned
               PROVE  Agreement!Next \/ UNCHANGED <<Decision, served>>
    BY DEF Agreement!vars
  <2> DEFINE Agreed == {f \in FinalContexts : FullySigned(f)}
  <2>1. ASSUME leader \in {"publishing", "broadcasting", "done"}
        PROVE  Final \in Agreed
    BY <2>1, FinalType DEF IInv, PublishInv
  <2>2. ASSUME NEW n \in Nodes, waiter \in {"received", "replied"}, ~Serves(n),
               served' = [served EXCEPT ![n] = Final], Decision' = Decision
        PROVE  Agreement!Next
    <3>1. Decision = Final /\ Final \in Agreed
      BY <2>1, <2>2 DEF Decision, IInv, ResultInv
    <3>2. Agreement!Serve(n)
      BY <2>2, <3>1 DEF Agreement!Serve, Serves
    <3> QED
      BY <3>2 DEF Agreement!Next
  <2>3. ASSUME waiter \notin {"received", "replied", "failed"}, waiter' = "failed",
               UNCHANGED served
        PROVE  Agreement!Next
    BY <2>3 DEF Agreement!Next, Agreement!Decide, Decision
  <2>4. CASE Start
    <3>1. CASE waiter' = "failed"
      BY <2>3, <2>4, <3>1 DEF Start
    <3>2. CASE waiter' = "waiting"
      BY <2>4, <3>2 DEF Start, Decision
    <3> QED
      BY <2>4, <3>1, <3>2 DEF Start
  <2>5. CASE HandleAnnounceReply \/ HandleSignReply
    <3>1. waiter \notin {"received", "replied"} /\ waiter' = waiter /\ served' = served
      BY <2>5 DEF HandleAnnounceReply, HandleSignReply, IInv, ResultInv
    <3> QED
      BY <3>1 DEF Decision
  <2>6. CASE PublishResult
    <3>1. Final' = Final /\ Final \in Agreed
      BY <2>1, <2>6 DEF PublishResult, Final
    <3>2. Decision = Undecided /\ Decision' = Final
      BY <2>6, <3>1 DEF PublishResult, Decision
    <3> QED
      BY <2>6, <3>1, <3>2 DEF Agreement!Next, Agreement!Decide, PublishResult
  <2>7. CASE BroadcastDone
    BY <2>7 DEF BroadcastDone, Decision, Final
  <2>8. CASE WaitTimeout
    BY <2>3, <2>8 DEF WaitTimeout
  <2>9. CASE ServeAndReply
    <3>1. Decision' = Decision /\ ~Serves(Leader) /\ Leader \in Nodes
      BY <2>9 DEF ServeAndReply, Decision, Final, UnservedInv, Leader, Nodes
    <3> QED
      BY <2>2, <2>9, <3>1 DEF ServeAndReply
  <2>10. ASSUME NEW c \in Children, HandleAnnounce(c) \/ HandleSign(c)
         PROVE  UNCHANGED <<Decision, served>>
    BY <2>10 DEF HandleAnnounce, HandleSign, Decision, Final
  <2>11. ASSUME NEW c \in Children, HandleDone(c)
         PROVE  Agreement!Next \/ UNCHANGED <<Decision, served>>
    <3>1. /\ ~Serves(c) /\ c \in Nodes
          /\ Decision' = Decision
      BY <2>11 DEF HandleDone, Decision, Final, UnservedInv, Children, Nodes
    <3>2. leader = "done" /\ (served' = [served EXCEPT ![c] = Final] \/ served' = served)
      BY <2>11 DEF HandleDone, Replies, IInv, MessageInv
    <3>3. waiter \in {"received", "replied"}
      BY <3>2 DEF IInv, ResultInv
    <3> QED
      BY <2>2, <3>1, <3>2, <3>3
  <2>12. ASSUME NEW n \in Nodes, Crash(n) PROVE UNCHANGED <<Decision, served>>
    BY <2>12 DEF Crash, Decision, Final
  <2>13. CASE UNCHANGED <<vars, deviations>>
    BY <2>13 DEF vars, Decision, Final
  <2>14. \A c \in Children : ~SendOtherDone(c)
    BY DEF SendOtherDone, EndsAsSigned
  <2> QED
    BY <2>4, <2>5, <2>6, <2>7, <2>8, <2>9, <2>10, <2>11, <2>12, <2>13, <2>14
    DEF Next, LeaderStep, ChildStep
<1> QED
  BY <1>1, <1>2, Invariant, ServedOnce, PTL DEF Spec, ImplementsAgreement

----------------------------------------------------------------------------
(* The members.                                                            *)

(* What ContainsSameElems says of slices without repeated elements: as     *)
(* many different elements as there may be are all there are.              *)
LEMMA SameWithoutRepeats ==
    ASSUME NEW S, NEW a \in Seq(S), NEW b \in Seq(S), ContainsSameElems(a, b),
           IsInjective(b)
    PROVE  SameElements(a, b)
<1> DEFINE D == 1 .. Len(a)
<1>1. /\ Len(a) \in Nat /\ DOMAIN a = D /\ DOMAIN b = D
      /\ Range(b) \subseteq Range(a)
  BY DEF ContainsSameElems
<1>2. IsFiniteSet(D)
  BY <1>1, FS_Interval
<1>3. a \in Surjection(D, Range(a)) /\ b \in Injection(D, Range(b)) /\ b \in Surjection(D, Range(b))
  <2>1. a \in [D -> Range(a)] /\ b \in [D -> Range(b)]
    BY <1>1 DEF Range
  <2> QED
    BY <1>1, <2>1 DEF Surjection, Injection, IsInjective, Range
<1> HIDE DEF D
<1>4. IsFiniteSet(Range(a)) /\ Cardinality(Range(a)) <= Cardinality(D)
  BY <1>2, <1>3, FS_Surjection
<1>5. IsFiniteSet(Range(b)) /\ Cardinality(Range(b)) = Cardinality(D)
  BY <1>2, <1>3, FS_Surjection
<1>6. Cardinality(Range(b)) <= Cardinality(Range(a))
  BY <1>1, <1>4, FS_Subset
<1>7. Cardinality(Range(a)) = Cardinality(Range(b))
  <2>1. Cardinality(Range(a)) \in Nat /\ Cardinality(Range(b)) \in Nat
    BY <1>4, <1>5, FS_CardinalityType
  <2> QED
    BY <1>4, <1>5, <1>6, <2>1
<1>8. Range(a) = Range(b)
  BY <1>1, <1>4, <1>7, FS_Subset
<1> QED
  BY <1>8 DEF SameElements, ContainsSameElems

(* A child that signs has compared the members with those of the request   *)
(* it accepted, and there is a child.                                      *)
MembersInv ==
    /\ \A c \in Children : child[c] = "announced" => original[c] = Subscribers
    /\ \A m \in msgs : m.type = "SignReply" => ContainsSameElems(Subscribers, m.signature.on.X)
    /\ leader \in {"publishing", "broadcasting", "done"} =>
         ContainsSameElems(Subscribers, context.X)

LEMMA MembersStep == IInv /\ MembersInv /\ [Next]_<<vars, deviations>> => MembersInv'
<1> SUFFICES ASSUME IInv, MembersInv, [Next]_<<vars, deviations>> PROVE MembersInv'
  OBVIOUS
<1> USE DEF MembersInv
<1>1. CASE Start
  BY <1>1 DEF Start
<1>2. CASE HandleAnnounceReply
  BY <1>2 DEF HandleAnnounceReply
<1>3. CASE HandleSignReply
  <2>1. CASE leader' = "publishing"
    <3>1. PICK reply \in Aggregated("SignReply") :
            AllVerify(reply) /\ msgs' = msgs \ Replies("SignReply")
      BY <1>3, <2>1 DEF HandleSignReply
    <3>2. PICK c \in Children : TRUE
      BY <3>1 DEF Aggregated
    <3>3. reply[c] \in msgs /\ reply[c].type = "SignReply"
      BY <3>1, <3>2 DEF Aggregated, Replies
    <3>4. reply[c].signature.on = context
      <4>1. reply[c].signature = [by |-> context.Y[indexOf[c]], on |-> context]
        BY <3>1, <3>2 DEF AllVerify, Verifies, Signature
      <4> QED
        BY <4>1
    <3>5. ContainsSameElems(Subscribers, context.X)
      BY <3>3, <3>4
    <3> QED
      BY <1>3, <3>1, <3>5 DEF HandleSignReply
  <2>2. CASE leader' = "failed"
    BY <1>3, <2>2 DEF HandleSignReply
  <2> QED
    BY <1>3, <2>1, <2>2 DEF HandleSignReply
<1>4. CASE PublishResult \/ BroadcastDone \/ WaitTimeout \/ ServeAndReply
  BY <1>4 DEF PublishResult, BroadcastDone, WaitTimeout, ServeAndReply
<1>5. ASSUME NEW c \in Children, HandleAnnounce(c) PROVE MembersInv'
  BY <1>5 DEF HandleAnnounce, IInv, TypeOK
<1>6. ASSUME NEW c \in Children, HandleSign(c) PROVE MembersInv'
  BY <1>6 DEF HandleSign, Approves, Signature, IInv, TypeOK
<1>7. ASSUME NEW c \in Children, HandleDone(c) PROVE MembersInv'
  BY <1>7 DEF HandleDone, IInv, TypeOK
<1>8. ASSUME NEW n \in Nodes, Crash(n) PROVE MembersInv'
  BY <1>8 DEF Crash
<1>9. CASE UNCHANGED <<vars, deviations>>
  BY <1>9 DEF vars
<1>10. ASSUME NEW c \in Children, SendOtherDone(c) PROVE MembersInv'
  BY <1>10 DEF SendOtherDone
<1> QED
  BY <1>1, <1>2, <1>3, <1>4, <1>5, <1>6, <1>7, <1>8, <1>9, <1>10
  DEF Next, LeaderStep, ChildStep

(* When Done brings the context that was signed, nobody is in it who is    *)
(* not a subscriber of the request, and with no member twice it has all of *)
(* them.                                                                   *)
THEOREM OnlySubscribersAreMembers == Spec => []ServedMembersSubscribed
<1>1. Init => MembersInv
  BY DEF Init, MembersInv
<1>2. IInv /\ MembersInv => ServedMembersSubscribed
  <2> SUFFICES ASSUME IInv, MembersInv, EndsAsSigned, NEW n \in Nodes, Serves(n)
               PROVE  LET X == served[n].ctx.X
                      IN  /\ Range(X) \subseteq Range(Subscribers)
                          /\ IsInjective(X) => SameElements(Subscribers, X)
    BY DEF ServedMembersSubscribed
  <2>1. served[n].ctx = context /\ leader \in {"broadcasting", "done"}
    BY DEF IInv, ResultInv, Final
  <2>2. ContainsSameElems(Subscribers, context.X)
    BY <2>1 DEF MembersInv
  <2>3. Subscribers \in Seq(Clients) /\ context.X \in Seq(Clients)
    BY SubscribersAssumption DEF IInv, TypeOK, Contexts
  <2>4. IsInjective(context.X) => SameElements(Subscribers, context.X)
    BY <2>2, <2>3, SameWithoutRepeats
  <2> QED
    BY <2>1, <2>2, <2>4 DEF ContainsSameElems
<1> QED
  BY <1>1, <1>2, MembersStep, Invariant, PTL DEF Spec

----------------------------------------------------------------------------
(* Any context in Done.                                                    *)

(* Signatures of children cannot be forged: one that is somewhere was made *)
(* by handleSign, on a context this child approved.                        *)
Given(sig) ==
    \A c \in Children : sig.by = c =>
        child[c] # "idle" /\ original[c] = Subscribers /\ Approves(c, sig.on)

ConsentInv ==
    /\ \A c \in Children : child[c] \in {"announced", "signed"} => original[c] = Subscribers
    /\ \A m \in msgs : m.type = "SignReply" => Given(m.signature)
    /\ \A m \in msgs : m.type = "Done" => \A n \in Nodes : Given(m.final.signatures[n])
    /\ \A n \in Nodes : Given(signatures[n])
    /\ \A n \in Nodes : Serves(n) =>
          /\ FullySigned(served[n])
          /\ \A i \in Nodes : Given(served[n].signatures[i])

(* What a child has approved stays approved: its index and its request are *)
(* set with its first message.                                             *)
LEMMA StillGiven ==
    ASSUME NEW sig, Given(sig),
           \A c \in Children : child[c] # "idle" =>
              child'[c] # "idle" /\ server'[c] = server[c] /\ original'[c] = original[c]
    PROVE  Given(sig)'
  BY DEF Given, Approves

LEMMA NotOfAChild == NoSignature.by \notin Children /\ Leader \notin Children /\ Foreign \notin Children
  BY NAssumption DEF NoSignature, NoPoint, Children, Leader, Foreign

LEMMA ConsentStep == IInv /\ ConsentInv /\ [Next]_<<vars, deviations>> => ConsentInv'
<1> SUFFICES ASSUME IInv, ConsentInv, [Next]_<<vars, deviations>> PROVE ConsentInv'
  OBVIOUS
<1> USE DEF ConsentInv, Serves
<1>1. \A c \in Children : child[c] # "idle" =>
        child'[c] # "idle" /\ server'[c] = server[c] /\ original'[c] = original[c]
  <2>1. \A c \in Children : c \in Nodes /\ c # Leader
    BY NAssumption DEF Children, Nodes, Leader
  <2>2. CASE \E d \in Children : HandleAnnounce(d)
    BY <2>1, <2>2 DEF HandleAnnounce, IInv, TypeOK
  <2>3. CASE \E d \in Children : HandleSign(d) \/ HandleDone(d)
    BY <2>3 DEF HandleSign, HandleDone, IInv, TypeOK
  <2>4. CASE Start
    BY <2>1, <2>4 DEF Start, IInv, TypeOK
  <2>5. CASE UNCHANGED <<child, server, original>>
    BY <2>5
  <2> QED
    BY <2>2, <2>3, <2>4, <2>5 DEF Next, LeaderStep, ChildStep, HandleAnnounceReply,
       HandleSignReply, PublishResult, BroadcastDone, WaitTimeout, ServeAndReply, Crash,
       SendOtherDone, vars
<1>2. \A sig : Given(sig) => Given(sig)'
  BY <1>1, StillGiven
<1>3. \A c \in Children : c \in Nodes /\ c # Leader
  BY NAssumption DEF Children, Nodes, Leader
<1>4. CASE Start
  <2>1. \A m \in msgs' : m \in msgs \/ m.type = "Announce"
    BY <1>4 DEF Start
  <2> QED
    BY <1>2, <1>3, <1>4, <2>1 DEF Start, IInv, TypeOK
<1>5. CASE HandleAnnounceReply
  <2>1. \A m \in msgs' : m \in msgs \/ m.type = "Sign"
    BY <1>5 DEF HandleAnnounceReply
  <2> QED
    BY <1>2, <1>5, <2>1 DEF HandleAnnounceReply
<1>6. CASE HandleSignReply
  <2>1. \A n \in Nodes : Given(signatures'[n])
    <3>1. CASE UNCHANGED signatures
      BY <3>1
    <3>2. ASSUME NEW reply \in Aggregated("SignReply"),
                 signatures' = [n \in Nodes |->
                     IF n = Leader THEN Signature(Leader, context)
                     ELSE reply[ChildAt(n)].signature],
                 \A c \in Children : indexOf[c] = c
          PROVE  \A n \in Nodes : Given(signatures'[n])
      <4>1. Given(Signature(Leader, context))
        BY NotOfAChild DEF Given, Signature
      <4>2. ASSUME NEW c \in Children PROVE Given(reply[ChildAt(c)].signature)
        <5>1. ChildAt(c) = c
          BY <3>2, ChildAtIndex
        <5>2. reply[c] \in msgs /\ reply[c].type = "SignReply"
          BY DEF Aggregated, Replies
        <5> QED
          BY <5>1, <5>2
      <4>3. \A n \in Nodes : n = Leader \/ n \in Children
        BY NAssumption DEF Nodes, Leader, Children
      <4> QED
        BY <3>2, <4>1, <4>2, <4>3
    <3>3. \A c \in Children : indexOf[c] = c
      BY <1>6 DEF HandleSignReply, IInv, IndexInv
    <3> QED
      BY <1>6, <3>1, <3>2, <3>3 DEF HandleSignReply
  <2>2. \A m \in msgs' : m \in msgs
    BY <1>6 DEF HandleSignReply
  <2> QED
    BY <1>2, <1>6, <2>1, <2>2 DEF HandleSignReply
<1>7. CASE PublishResult
  BY <1>2, <1>7 DEF PublishResult
<1>8. CASE BroadcastDone
  <2>1. \A m \in msgs' : m \in msgs \/ (m.type = "Done" /\ m.final.signatures = signatures)
    BY <1>8 DEF BroadcastDone, Final
  <2> QED
    BY <1>2, <1>8, <2>1 DEF BroadcastDone
<1>9. CASE WaitTimeout
  BY <1>2, <1>9 DEF WaitTimeout
<1>10. CASE ServeAndReply
  <2>1. FullySigned(Final) /\ Final.signatures = signatures
    BY <1>10 DEF ServeAndReply, IInv, ResultInv, PublishInv, Final
  <2>2. \A n \in Nodes : served'[n] = served[n] \/ served'[n] = Final
    BY <1>10 DEF ServeAndReply, IInv, TypeOK
  <2>3. \A n \in Nodes : Serves(n)' =>
          /\ FullySigned(served'[n]) /\ \A i \in Nodes : Given(served'[n].signatures[i])
    BY <2>1, <2>2
  <2> QED
    BY <1>2, <1>10, <2>3 DEF ServeAndReply, FullySigned
<1>11. ASSUME NEW d \in Children, HandleAnnounce(d) PROVE ConsentInv'
  <2>1. \A m \in msgs' : m \in msgs \/ m.type = "AnnounceReply"
    BY <1>11 DEF HandleAnnounce
  <2>2. \A c \in Children : child'[c] \in {"announced", "signed"} => original'[c] = Subscribers
    BY <1>3, <1>11 DEF HandleAnnounce, IInv, TypeOK
  <2> QED
    BY <1>2, <1>11, <2>1, <2>2 DEF HandleAnnounce, FullySigned
<1>12. ASSUME NEW d \in Children, HandleSign(d) PROVE ConsentInv'
  <2>1. \A m \in msgs' : m \in msgs \/ (m.type = "SignReply" /\ Given(m.signature))
    <3>1. child[d] # "idle" /\ original[d] = Subscribers
      BY <1>12 DEF HandleSign
    <3> QED
      BY <1>12, <3>1 DEF HandleSign, Given, Signature
  <2> QED
    BY <1>2, <1>12, <2>1 DEF HandleSign, IInv, TypeOK, FullySigned
<1>13. ASSUME NEW d \in Children, HandleDone(d) PROVE ConsentInv'
  <2>1. PICK m \in msgs : /\ m.type = "Done"
                          /\ served' = IF FullySigned(m.final)
                                         THEN [served EXCEPT ![d] = m.final] ELSE served
                          /\ msgs' = msgs \ {m}
    BY <1>13 DEF HandleDone, Replies
  <2>2. \A n \in Nodes : served'[n] = served[n]
                            \/ (served'[n] = m.final /\ FullySigned(m.final))
    BY <2>1 DEF IInv, TypeOK
  <2>3. \A n \in Nodes : Serves(n)' =>
          /\ FullySigned(served'[n]) /\ \A i \in Nodes : Given(served'[n].signatures[i])
    BY <2>1, <2>2
  <2> QED
    BY <1>2, <1>13, <2>1, <2>3 DEF HandleDone, IInv, TypeOK, FullySigned
<1>14. ASSUME NEW d \in Children, SendOtherDone(d) PROVE ConsentInv'
  <2>1. PICK ctx \in OtherContexts :
         msgs' = msgs \cup
           {[type |-> "Done", to |-> d,
             final |-> [ctx |-> ctx, signatures |-> [n \in Nodes |-> Obtained(n, ctx)]]]}
    BY <1>14 DEF SendOtherDone
  <2>2. \A n \in Nodes : Given(Obtained(n, ctx))
    <3> SUFFICES ASSUME NEW n \in Nodes PROVE Given(Obtained(n, ctx))
      OBVIOUS
    <3>1. CASE ctx.Y[n] \in {Leader, Foreign}
      BY <3>1, NotOfAChild DEF Obtained, Given, Signature
    <3>2. CASE ctx.Y[n] \notin {Leader, Foreign}
      BY <3>2 DEF Obtained, Replies
    <3> QED
      BY <3>1, <3>2
  <2>3. \A m \in msgs' : m \in msgs \/
          (m.type = "Done" /\ \A n \in Nodes : Given(m.final.signatures[n]))
    BY <2>1, <2>2
  <2> QED
    BY <1>2, <1>14, <2>3 DEF SendOtherDone, FullySigned
<1>15. ASSUME NEW n \in Nodes, Crash(n) PROVE ConsentInv'
  BY <1>2, <1>15 DEF Crash, FullySigned
<1>16. CASE UNCHANGED <<vars, deviations>>
  BY <1>2, <1>16 DEF vars, FullySigned
<1> QED
  BY <1>4, <1>5, <1>6, <1>7, <1>8, <1>9, <1>10, <1>11, <1>12, <1>13, <1>14, <1>15, <1>16
  DEF Next, LeaderStep, ChildStep

(* Whichever of OtherContexts the leader sends in Done, and whenever, a    *)
(* child's key is in a context that is served only where this child has    *)
(* approved it: handleDone needs its signature, and handleSign checks      *)
(* before it signs.                                                        *)
THEOREM ServedContextsHaveConsent == Spec => []ServedHasConsent
<1>1. Init => ConsentInv
  BY NotOfAChild DEF Init, ConsentInv, Given, Serves
<1>2. IInv /\ ConsentInv => ServedHasConsent
  <2> SUFFICES ASSUME IInv, ConsentInv, NEW n \in Nodes, Serves(n),
                      NEW c \in Children, NEW i \in Nodes, served[n].ctx.Y[i] = c
               PROVE  LET ctx == served[n].ctx
                      IN  /\ ctx.Y[server[c]] = c /\ ctx.R[server[c]] = c
                          /\ \A j \in DOMAIN ctx.H : ctx.H[j] = Generator(j - 1, ctx.R)
                          /\ Range(ctx.X) \subseteq Range(Subscribers)
    BY DEF ServedHasConsent
  <2> DEFINE ctx == served[n].ctx
  <2>1. served[n].signatures[i] = [by |-> c, on |-> ctx]
    BY DEF ConsentInv, FullySigned, Verifies, Signature
  <2>2. original[c] = Subscribers /\ Approves(c, ctx)
    BY <2>1 DEF ConsentInv, Given
  <2> QED
    BY <2>2 DEF Approves, ContainsSameElems
<1> QED
  BY <1>1, <1>2, ConsentStep, Invariant, PTL DEF Spec

----------------------------------------------------------------------------
(* With a roster of one node there is no child to answer, onet never calls *)
(* handleAnnounceReply and no context comes to be served: the contexts     *)
(* that the service creates have two servers at least.                     *)
THEOREM LoneServerServesNothing ==
    ASSUME N = 1
    PROVE  Spec => [](\A n \in Nodes : ~Serves(n))
<1> DEFINE Stuck == /\ leader \in {"idle", "announcing", "failed"}
                    /\ \A n \in Nodes : ~Serves(n)
<1>1. Children = {}
  BY DEF Children
<1>2. Init => Stuck
  BY DEF Init, Serves
<1>3. IInv /\ Stuck /\ [Next]_<<vars, deviations>> => Stuck'
  <2> USE <1>1 DEF Serves
  <2>1. IInv /\ Stuck => ~ServeAndReply
    BY DEF ServeAndReply, IInv, ResultInv
  <2> QED
    BY <2>1 DEF Next, LeaderStep, Start, HandleAnnounceReply, HandleSignReply,
       PublishResult, BroadcastDone, WaitTimeout, Crash, Aggregated, vars
<1> QED
  BY <1>2, <1>3, Invariant, PTL DEF Spec
=============================================================================
