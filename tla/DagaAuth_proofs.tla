-------------------------- MODULE DagaAuth_proofs --------------------------
(***************************************************************************)
(* Proofs about the servers' authentication protocol, for any number of    *)
(* nodes, any leader, any order of the indices, any requests and faults,    *)
(* and, where Honest is assumed, servers that follow the protocol.         *)
(***************************************************************************)
EXTENDS DagaAuth, RosterRing_proofs, SequenceTheorems, WellFoundedInduction, TLAPS

Honest == faults.faulty = {}

(* The tag as it must be by now: the null tag once a server has found the  *)
(* client's commitments wrong.                                             *)
TagSoFar(entries) ==
    IF Served(entries) \cap request.wrong = {}
      THEN Tag("product", [j \in Servers |-> IF j \in Served(entries) THEN 1 ELSE 0])
      ELSE NullTag

LastTag(entries) == TagBefore(entries, Len(entries) + 1)

RightTag(entries) == LastTag(entries) = TagSoFar(entries)

(* The ring from the leader on, and how far a message has come when it is  *)
(* sent to a node.                                                         *)
Position(n) == IF n >= leader THEN n - leader ELSE n - leader + N
Travelled(n) == IF n = leader THEN N ELSE Position(n)

(* A message comes from the nodes before its receiver.                     *)
FromBefore(m) ==
    m.type = "ServerMsg" =>
        \A i \in DOMAIN m.entries :
            \E n \in Nodes : Position(n) < Travelled(m.to)
                               /\ m.entries[i].index = ServerIndex[n]

MsgInv(m) ==
    /\ ServedOnce(m.entries)
    /\ RightTag(m.entries)
    /\ FromBefore(m)
    /\ m.type = "FinishedServerMsg" => Len(m.entries) = N

(* A result has passed the verifications of GetFinalLinkageTag.            *)
ResultVerified == result # <<>> => HasFinalTag(request, result)

(* The result of servers that follow the protocol.                         *)
HonestResult ==
    faults.faulty = {} /\ result # <<>> =>
        FinalTag(result) = IF request.wrong = {} THEN LinkageTag ELSE NullTag

IInv ==
    /\ TypeOK
    /\ ResultVerified
    /\ HonestResult
    /\ Honest => \A m \in msgs : MsgInv(m)

----------------------------------------------------------------------------
(* The nodes.                                                              *)

LEMMA NodeFacts ==
    /\ N \in Nat \ {0} /\ Nodes = Servers
    /\ \A n \in Nodes : ServerIndex[n] \in Servers
    /\ \A m, n \in Nodes : ServerIndex[m] = ServerIndex[n] => m = n
  BY NAssumption, ServerIndexAssumption DEF Nodes, Servers, Indices

(* The next node is one step further from the leader, who is the last.     *)
LEMMA RingFromLeader ==
    ASSUME leader \in Nodes
    PROVE  /\ Position(leader) = 0
           /\ \A n \in Nodes : /\ Position(n) \in 0 .. N - 1
                               /\ NextServer(n) \in Nodes \ {NoNode}
                               /\ Travelled(NextServer(n)) = Position(n) + 1
                               /\ n # leader => Travelled(n) = Position(n)
           /\ \A m, n \in Nodes : Position(m) = Position(n) => m = n
  <1>1. N \in Nat \ {0}
    BY NAssumption
  <1>2. \A n \in Nodes : NextServer(n) = IF n = N - 1 THEN 0 ELSE n + 1
    BY RingOrder
  <1>3. Position(leader) = 0
    BY <1>1 DEF Position, Nodes
  <1>4. ASSUME NEW n \in Nodes
        PROVE  /\ Position(n) \in 0 .. N - 1
               /\ NextServer(n) \in Nodes \ {NoNode}
               /\ Travelled(NextServer(n)) = Position(n) + 1
               /\ n # leader => Travelled(n) = Position(n)
    BY <1>1, <1>2 DEF Position, Travelled, Nodes, NoNode
  <1>5. ASSUME NEW m \in Nodes, NEW n \in Nodes, Position(m) = Position(n)
        PROVE  m = n
    BY <1>1, <1>5 DEF Position, Nodes
  <1> QED BY <1>3, <1>4, <1>5

----------------------------------------------------------------------------
(* What a server makes of a message.                                       *)

LEMMA EmptyMessage ==
    <<>> \in Seq(Entries) /\ ServedOnce(<<>>) /\ LastTag(<<>>) = TagSoFar(<<>>)
      /\ Served(<<>>) = {}
  <1>1. Served(<<>>) = {}
    BY DEF Served
  <1>2. LastTag(<<>>) = T0
    BY DEF LastTag, TagBefore
  <1> QED BY <1>1, <1>2 DEF ServedOnce, TagSoFar, T0, Zero

(* One more entry.                                                         *)
LEMMA Appended ==
    ASSUME NEW entries \in Seq(Entries), NEW entry \in Entries
    PROVE  LET e == Append(entries, entry)
           IN  /\ e \in Seq(Entries) /\ Len(e) = Len(entries) + 1
               /\ \A i \in DOMAIN entries : e[i] = entries[i]
               /\ e[Len(e)] = entry
               /\ Served(e) = Served(entries) \cup {entry.index}
               /\ LastTag(e) = entry.tag
               /\ ServedOnce(entries) /\ entry.index \notin Served(entries) => ServedOnce(e)
  <1> DEFINE e == Append(entries, entry)
  <1>1. /\ e \in Seq(Entries) /\ Len(e) = Len(entries) + 1
        /\ \A i \in 1 .. Len(entries) : e[i] = entries[i]
        /\ e[Len(entries) + 1] = entry
    BY AppendProperties
  <1>2. /\ Len(entries) \in Nat /\ DOMAIN entries = 1 .. Len(entries)
        /\ DOMAIN e = 1 .. Len(entries) + 1
    BY <1>1
  <1> HIDE DEF e
  <1>3. Served(e) = Served(entries) \cup {entry.index}
    <2>1. \A i \in DOMAIN e : i \in DOMAIN entries \/ i = Len(entries) + 1
      BY <1>2
    <2>2. Len(entries) + 1 \in DOMAIN e /\ \A i \in DOMAIN entries : i \in DOMAIN e
      BY <1>2
    <2> QED BY <1>1, <1>2, <2>1, <2>2 DEF Served
  <1>4. LastTag(e) = entry.tag
    BY <1>1, <1>2 DEF LastTag, TagBefore
  <1>5. ASSUME ServedOnce(entries), entry.index \notin Served(entries)
        PROVE  ServedOnce(e)
    BY <1>1, <1>2, <1>5 DEF ServedOnce, Served
  <1> QED BY <1>1, <1>2, <1>3, <1>4, <1>5 DEF e

LEMMA ContentType ==
    ASSUME NEW entries \in Seq(Entries)
    PROVE  /\ Content(entries) \in Seq(Unsigned)
           /\ Len(Content(entries)) = Len(entries)
  <1>1. \A i \in 1 .. Len(entries) : entries[i] \in Entries
    OBVIOUS
  <1>2. Len(entries) \in Nat /\ DOMAIN entries = 1 .. Len(entries)
    OBVIOUS
  <1>3. Content(entries) \in [1 .. Len(entries) -> Unsigned]
    BY <1>1, <1>2 DEF Content, Entries, Unsigned
  <1> QED BY <1>2, <1>3

LEMMA NewEntryType ==
    ASSUME NEW entries \in Seq(Entries), NEW j \in Servers, NEW tag \in Tags,
           NEW proof \in Proofs
    PROVE  /\ NewEntry(entries, j, tag, proof) \in Entries
           /\ NewEntry(entries, j, tag, proof).index = j
           /\ NewEntry(entries, j, tag, proof).tag = tag
           /\ NewEntry(entries, j, tag, proof).proof = proof
  <1> DEFINE content == [index |-> j, tag |-> tag, proof |-> proof]
  <1>1. content \in Unsigned
    BY DEF Unsigned
  <1>2. Append(Content(entries), content) \in Seq(Unsigned)
    BY <1>1, ContentType, AppendProperties
  <1> QED BY <1>2 DEF NewEntry, SignedEntry, Entries

LEMMA TagTypes ==
    ASSUME NEW entries \in Seq(Entries)
    PROVE  /\ NullTag \in Tags /\ OtherTag \in Tags /\ LastTag(entries) \in Tags
           /\ TagSoFar(entries) \in Tags /\ TagSoFar(entries) # OtherTag
           /\ TagSoFar(entries).kind \in {"product", "null"}
  <1>1. T0 \in Tags /\ NullTag \in Tags /\ OtherTag \in Tags
    BY DEF T0, NullTag, OtherTag, Zero, Tag, Tags
  <1>2. LastTag(entries) \in Tags
    <2>1. CASE entries = <<>>
      BY <1>1, <2>1 DEF LastTag, TagBefore
    <2>2. CASE entries # <<>>
      <3>1. Len(entries) \in 1 .. Len(entries) /\ entries[Len(entries)] \in Entries
        BY <2>2
      <3> QED BY <3>1 DEF LastTag, TagBefore, Entries
    <2> QED BY <2>1, <2>2
  <1>3. /\ TagSoFar(entries) \in Tags /\ TagSoFar(entries) # OtherTag
        /\ TagSoFar(entries).kind \in {"product", "null"}
    BY DEF TagSoFar, NullTag, OtherTag, Zero, Tag, Tags
  <1> QED BY <1>1, <1>2, <1>3

(* A server that follows the protocol makes the tag what it must be.       *)
LEMMA HonestEntry ==
    ASSUME NEW entries \in Seq(Entries), NEW j \in Servers, j \notin Served(entries),
           request \in ClientRequests, LastTag(entries) = TagSoFar(entries)
    PROVE  \E entry \in Entries :
              /\ ServerProtocol(request, entries, j) = Append(entries, entry)
              /\ entry.index = j
              /\ LastTag(Append(entries, entry)) = TagSoFar(Append(entries, entry))
  <1> DEFINE previous == LastTag(entries)
             T == Exponentiated(j, previous)
             good == NewEntry(entries, j, T, NewServerProof(j, previous, T))
             bad == NewEntry(entries, j, NullTag, NewMisbehavingProof(j))
  <1>1. previous \in Tags /\ NullTag \in Tags
    BY TagTypes
  <1>2. ASSUME NEW entry \in Entries, entry.index = j
        PROVE  /\ LastTag(Append(entries, entry)) = entry.tag
               /\ Served(Append(entries, entry)) = Served(entries) \cup {j}
    BY <1>2, Appended
  <1>3. CASE j \in request.wrong
    <2>1. bad \in Entries /\ bad.index = j /\ bad.tag = NullTag
      <3>1. NewMisbehavingProof(j) \in Proofs
        BY <1>1 DEF NewMisbehavingProof, Proofs
      <3> QED BY <1>1, <3>1, NewEntryType
    <2>2. TagSoFar(Append(entries, bad)) = NullTag
      BY <1>2, <1>3, <2>1 DEF TagSoFar
    <2>3. ServerProtocol(request, entries, j) = Append(entries, bad)
      BY <1>3 DEF ServerProtocol
    <2> QED BY <1>2, <2>1, <2>2, <2>3
  <1>4. CASE j \notin request.wrong
    <2>1. T \in Tags /\ T = IF (Served(entries) \cup {j}) \cap request.wrong = {}
                              THEN Tag("product", [k \in Servers |->
                                     IF k \in Served(entries) \cup {j} THEN 1 ELSE 0])
                              ELSE NullTag
      <3>1. CASE Served(entries) \cap request.wrong = {}
        <4>1. previous = Tag("product", [k \in Servers |-> IF k \in Served(entries) THEN 1 ELSE 0])
          BY <3>1 DEF TagSoFar
        <4>2. T = Tag("product", [k \in Servers |-> IF k \in Served(entries) \cup {j} THEN 1 ELSE 0])
          BY <4>1 DEF Exponentiated, Tag
        <4> QED BY <1>4, <3>1, <4>2 DEF Tag, Tags
      <3>2. CASE Served(entries) \cap request.wrong # {}
        BY <1>1, <3>2 DEF TagSoFar, Exponentiated, NullTag, Tag
      <3> QED BY <3>1, <3>2
    <2>2. good \in Entries /\ good.index = j /\ good.tag = T
      <3>1. NewServerProof(j, previous, T) \in Proofs
        BY <1>1, <2>1 DEF NewServerProof, Proofs
      <3> QED BY <2>1, <3>1, NewEntryType
    <2>3. TagSoFar(Append(entries, good)) = T
      BY <1>2, <2>1, <2>2 DEF TagSoFar
    <2>4. ServerProtocol(request, entries, j) = Append(entries, good)
      BY <1>4 DEF ServerProtocol, LastTag
    <2> QED BY <1>2, <2>2, <2>3, <2>4
  <1> QED BY <1>3, <1>4

(* What a server that follows the protocol makes of a message.             *)
LEMMA Extending ==
    ASSUME Honest, NEW n \in Nodes, NEW entries \in Seq(Entries), ServedOnce(entries),
           ServerIndex[n] \notin Served(entries), request \in ClientRequests,
           RightTag(entries), NEW e \in Extended(n, entries)
    PROVE  /\ e \in Seq(Entries) /\ ServedOnce(e) /\ RightTag(e)
           /\ Served(e) = Served(entries) \cup {ServerIndex[n]}
  <1>1. ServerIndex[n] \in Servers
    BY NodeFacts
  <1>2. e = ServerProtocol(request, entries, ServerIndex[n])
    BY DEF Extended, Honest
  <1>3. PICK entry \in Entries : /\ e = Append(entries, entry) /\ entry.index = ServerIndex[n]
                                 /\ LastTag(e) = TagSoFar(e)
    BY <1>1, <1>2, HonestEntry DEF RightTag
  <1> QED BY <1>3, Appended DEF RightTag

(* What any server makes of it is a message.                               *)
LEMMA ExponentiatedType ==
    ASSUME NEW j \in Servers, NEW T \in Tags
    PROVE  Exponentiated(j, T) \in Tags
  <1>1. T.kind \in {"product", "null", "other"} /\ T.applied \in [Servers -> Nat]
    BY DEF Tags
  <1>2. [T.applied EXCEPT ![j] = @ + 1] \in [Servers -> Nat]
    BY <1>1
  <1> QED BY <1>1, <1>2 DEF Exponentiated, Tags

LEMMA SignedEntryType ==
    ASSUME NEW entries \in Seq(Entries), NEW j \in Servers, NEW i \in Servers,
           NEW tag \in Tags, NEW proof \in Proofs
    PROVE  SignedEntry(entries, j, i, tag, proof) \in Entries
  <1> DEFINE content == [index |-> i, tag |-> tag, proof |-> proof]
  <1>1. content \in Unsigned
    BY DEF Unsigned
  <1>2. Append(Content(entries), content) \in Seq(Unsigned)
    BY <1>1, ContentType, AppendProperties
  <1> QED BY <1>2 DEF SignedEntry, Entries

LEMMA ProofTypes ==
    ASSUME NEW j \in Servers
    PROVE  /\ NewMisbehavingProof(j) \in Proofs
           /\ \A T, U \in Tags : NewServerProof(j, T, U) \in Proofs
  <1>1. NullTag \in Tags
    BY EmptyMessage, TagTypes
  <1> QED BY <1>1 DEF NewMisbehavingProof, NewServerProof, Proofs

LEMMA LongerType ==
    ASSUME NEW n \in Nodes, NEW entries \in Seq(Entries), NEW e \in Longer(n, entries)
    PROVE  e \in Seq(Entries)
  <1> DEFINE j == ServerIndex[n]
             previous == TagBefore(entries, Len(entries) + 1)
  <1>1. j \in Servers
    BY NodeFacts
  <1>2. previous \in Tags /\ NullTag \in Tags /\ OtherTag \in Tags
    BY TagTypes DEF LastTag
  <1>3. Exponentiated(j, previous) \in Tags
    BY <1>1, <1>2, ExponentiatedType
  <1>4. PICK entry \in EntriesOf(n, entries) : e = Append(entries, entry)
    BY DEF Longer
  <1>5. \/ \E T \in {Exponentiated(j, previous), OtherTag} :
             entry = NewEntry(entries, j, T, NewServerProof(j, previous, T))
        \/ \E i \in Servers, T \in {NullTag, OtherTag} :
             entry = SignedEntry(entries, j, i, T, NewMisbehavingProof(j))
    BY <1>4 DEF EntriesOf
  <1>6. entry \in Entries
    BY <1>1, <1>2, <1>3, <1>5, ProofTypes, SignedEntryType DEF NewEntry
  <1> QED BY <1>4, <1>6, AppendProperties

LEMMA ExtendedType ==
    ASSUME NEW n \in Nodes, NEW entries \in Seq(Entries), NEW e \in Extended(n, entries)
    PROVE  e \in Seq(Entries)
  <1> DEFINE j == ServerIndex[n]
             kept == {SubSeq(entries, 1, i) : i \in 0 .. Len(entries)}
             one == UNION {Longer(n, o) : o \in kept}
  <1>1. j \in Servers
    BY NodeFacts
  <1>2. kept \subseteq Seq(Entries)
    <2> SUFFICES ASSUME NEW i \in 0 .. Len(entries)
                 PROVE  SubSeq(entries, 1, i) \in Seq(Entries)
      OBVIOUS
    <2>1. \A k \in 1 .. i : entries[k] \in Entries
      OBVIOUS
    <2> QED BY <2>1, SubSeqProperties
  <1> HIDE DEF kept
  <1>3. one \subseteq Seq(Entries)
    BY <1>2, LongerType
  <1> HIDE DEF one
  <1>4. UNION {Longer(n, o) : o \in one} \subseteq Seq(Entries)
    BY <1>3, LongerType
  <1>5. Altered(n, entries) \subseteq Seq(Entries)
    BY <1>2, <1>3, <1>4 DEF Altered, kept, one
  <1>6. ServerProtocol(request, entries, j) \in Seq(Entries)
    <2>1. TagBefore(entries, Len(entries) + 1) \in Tags /\ NullTag \in Tags
      BY TagTypes DEF LastTag
    <2> QED
      BY <1>1, <2>1, ExponentiatedType, ProofTypes, SignedEntryType, AppendProperties
         DEF ServerProtocol, NewEntry
  <1> QED BY <1>5, <1>6 DEF Extended

----------------------------------------------------------------------------
(* Messages.                                                               *)

LEMMA Requests ==
    TypeOK => request \in ClientRequests /\ leader \in Nodes
  BY FaultsAssumption, LeadersAssumption DEF TypeOK

LEMMA SameMeaning ==
    ASSUME UNCHANGED <<leader, request>>, NEW m
    PROVE  MsgInv(m)' <=> MsgInv(m)
  BY DEF MsgInv, RightTag, TagSoFar, FromBefore, Position, Travelled

(* A message as a server may send it: from the nodes up to itself.         *)
FromUpTo(n, e) ==
    \A i \in DOMAIN e : \E k \in Nodes : Position(k) <= Position(n)
                                            /\ e[i].index = ServerIndex[k]
MaySend(n, e) ==
    e \in Seq(Entries) /\ ServedOnce(e) /\ RightTag(e) /\ FromUpTo(n, e)

LEMMA SentOn ==
    ASSUME TypeOK, NEW n \in Nodes, NEW e, MaySend(n, e), NEW m \in SendToNextServer(n, e)
    PROVE  m \in Messages /\ MsgInv(m) /\ m.type = "ServerMsg"
             /\ m.entries = e /\ m.to = NextServer(n)
  <1>1. leader \in Nodes
    BY Requests
  <1>2. /\ NextServer(n) \in Nodes /\ Travelled(NextServer(n)) = Position(n) + 1
        /\ \A k \in Nodes : Position(k) \in Nat
    BY <1>1, RingFromLeader
  <1>3. m = [type |-> "ServerMsg", to |-> NextServer(n), entries |-> e]
    BY DEF SendToNextServer
  <1>4. m \in Messages
    BY <1>2, <1>3 DEF Messages, MaySend
  <1>5. \A k \in Nodes : Position(k) <= Position(n) => Position(k) < Travelled(m.to)
    BY <1>2, <1>3
  <1>6. FromBefore(m)
    BY <1>3, <1>5 DEF FromBefore, MaySend, FromUpTo
  <1> QED BY <1>3, <1>4, <1>6 DEF MsgInv, MaySend

LEMMA SentToAll ==
    ASSUME NEW n \in Nodes, NEW e, MaySend(n, e), Len(e) = N, NEW errs,
           NEW m \in SendFinished(n, e, errs)
    PROVE  m \in Messages /\ MsgInv(m) /\ m.type = "FinishedServerMsg" /\ m.entries = e
  <1>1. PICK r \in Nodes : m = [type |-> "FinishedServerMsg", to |-> r, entries |-> e]
    BY DEF SendFinished, FinishedTo
  <1>2. m \in Messages
    BY <1>1 DEF Messages, MaySend
  <1> QED BY <1>1, <1>2 DEF MsgInv, MaySend, FromBefore

LEMMA SentTypes ==
    ASSUME NEW n \in Nodes, NEW e \in Seq(Entries)
    PROVE  /\ SendToNextServer(n, e) \subseteq Messages
           /\ \A errs : SendFinished(n, e, errs) \subseteq Messages
  <1>1. NextServer(n) \in Nodes
    BY RingOrder, NAssumption DEF Nodes
  <1>2. \A r \in Nodes : \A type \in {"ServerMsg", "FinishedServerMsg"} :
           [type |-> type, to |-> r, entries |-> e] \in Messages
    BY DEF Messages
  <1>3. SendToNextServer(n, e) \subseteq Messages
    BY <1>1, <1>2 DEF SendToNextServer
  <1>4. ASSUME NEW errs
        PROVE  SendFinished(n, e, errs) \subseteq Messages
    BY <1>2 DEF SendFinished, FinishedTo
  <1> QED BY <1>3, <1>4

(* Of a message it accepts, a node that is not the leader makes one it may *)
(* send, and so does the leader of none.                                   *)
LEMMA MadeByChild ==
    ASSUME IInv, Honest, NEW n \in Nodes, n # leader, NEW m \in Inbox(n, "ServerMsg"),
           NEW e \in Extended(n, m.entries)
    PROVE  MaySend(n, e) /\ ServerIndex[n] \notin Served(m.entries)
  <1>1. /\ m.entries \in Seq(Entries) /\ ServedOnce(m.entries) /\ RightTag(m.entries)
        /\ request \in ClientRequests /\ leader \in Nodes
    BY Requests DEF IInv, TypeOK, MsgInv, Inbox, Messages
  <1>2. \A i \in DOMAIN m.entries :
            \E k \in Nodes : Position(k) < Position(n) /\ m.entries[i].index = ServerIndex[k]
    BY <1>1, RingFromLeader DEF IInv, MsgInv, FromBefore, Inbox
  <1>3. \A k \in Nodes : Position(k) \in Nat
    BY <1>1, RingFromLeader
  <1>4. ServerIndex[n] \notin Served(m.entries)
    <2>1. SUFFICES ASSUME NEW i \in DOMAIN m.entries, m.entries[i].index = ServerIndex[n]
                   PROVE  FALSE
      BY DEF Served
    <2>2. PICK k \in Nodes : Position(k) < Position(n) /\ m.entries[i].index = ServerIndex[k]
      BY <1>2
    <2>3. k = n
      BY <2>1, <2>2, NodeFacts
    <2> QED BY <1>3, <2>2, <2>3
  <1>5. /\ e \in Seq(Entries) /\ ServedOnce(e) /\ RightTag(e)
        /\ Served(e) \subseteq Served(m.entries) \cup {ServerIndex[n]}
    BY <1>1, <1>4, Extending
  <1>6. FromUpTo(n, e)
    <2> SUFFICES ASSUME NEW i \in DOMAIN e
                 PROVE  \E k \in Nodes : Position(k) <= Position(n) /\ e[i].index = ServerIndex[k]
      BY DEF FromUpTo
    <2>1. e[i].index \in Served(m.entries) \/ e[i].index = ServerIndex[n]
      BY <1>5 DEF Served
    <2>2. CASE e[i].index \in Served(m.entries)
      <3>1. PICK k \in Nodes : Position(k) < Position(n) /\ e[i].index = ServerIndex[k]
        BY <1>2, <2>2 DEF Served
      <3> QED BY <1>3, <3>1
    <2>3. CASE e[i].index = ServerIndex[n]
      BY <1>3, <2>3
    <2> QED BY <2>1, <2>2, <2>3
  <1> QED BY <1>4, <1>5, <1>6 DEF MaySend

LEMMA MadeByLeader ==
    ASSUME TypeOK, Honest, NEW e \in Extended(leader, <<>>)
    PROVE  MaySend(leader, e)
  <1>1. request \in ClientRequests /\ leader \in Nodes
    BY Requests
  <1>2. /\ e \in Seq(Entries) /\ ServedOnce(e) /\ RightTag(e)
        /\ Served(e) \subseteq {ServerIndex[leader]}
    BY <1>1, EmptyMessage, Extending DEF RightTag
  <1>3. Position(leader) <= Position(leader)
    BY <1>1, RingFromLeader
  <1>4. FromUpTo(leader, e)
    BY <1>1, <1>2, <1>3 DEF FromUpTo, Served
  <1> QED BY <1>2, <1>4 DEF MaySend

(* N entries of different servers are entries of all servers.              *)
LEMMA AllServed ==
    ASSUME NEW e \in Seq(Entries), ServedOnce(e), Len(e) = N
    PROVE  Served(e) = Servers
  <1>1. \A i \in DOMAIN e : e[i].index \in Nodes
    <2>1. \A i \in DOMAIN e : e[i] \in Entries
      OBVIOUS
    <2> QED BY <2>1, NodeFacts DEF Entries
  <1>2. \A k \in Nodes : \E i \in DOMAIN e : e[i].index = k
    BY <1>1, AllAreThere DEF ServedOnce
  <1> QED BY <1>1, <1>2, NodeFacts DEF Served

(* A message that every server has extended carries the client's tag.      *)
LEMMA FinalTagRight ==
    ASSUME request \in ClientRequests, NEW e \in Seq(Entries), ServedOnce(e), Len(e) = N,
           RightTag(e)
    PROVE  FinalTag(e) = IF request.wrong = {} THEN LinkageTag ELSE NullTag
  <1>1. Served(e) = Servers
    BY AllServed
  <1>2. FinalTag(e) = TagSoFar(e)
    BY NAssumption DEF FinalTag, LastTag, TagBefore, RightTag
  <1>3. Served(e) \cap request.wrong = request.wrong
    BY <1>1 DEF ClientRequests
  <1> QED BY <1>1, <1>2, <1>3 DEF TagSoFar, LinkageTag

----------------------------------------------------------------------------
(* What the verification of the proofs says of the tags, by induction on   *)
(* the entries: there is no first one after which the tag is wrong.        *)

Less == OpToRel(<, Nat)

LEMMA FirstOf ==
    ASSUME NEW S \in SUBSET Nat, S # {}
    PROVE  \E first \in S : \A k \in S : first <= k
  <1>1. IsWellFoundedOn(Less, Nat)
    BY NatLessThanWellFounded DEF Less
  <1>2. \A j, k \in Nat : j < k => <<j, k>> \in Less
    BY DEF Less, OpToRel
  <1>3. \E first \in S : \A k \in S : ~(<<k, first>> \in Less)
    BY <1>1, WFMin
  <1>4. \E first \in S : \A k \in S : ~(k < first)
    BY <1>2, <1>3
  <1> QED BY <1>4

(* The tag that the servers of S have each worked on once.                 *)
Product(S) == Tag("product", [j \in Servers |-> IF j \in S THEN 1 ELSE 0])
ServedUpTo(e, k) == {e[i].index : i \in 1 .. k}
WrongAfter(e) == {k \in 0 .. Len(e) : TagBefore(e, k + 1) # Product(ServedUpTo(e, k))}

LEMMA OneMore ==
    ASSUME NEW S, NEW j \in Servers, j \notin S
    PROVE  Exponentiated(j, Product(S)) = Product(S \cup {j})
  <1> DEFINE before == [i \in Servers |-> IF i \in S THEN 1 ELSE 0]
             after == [i \in Servers |-> IF i \in S \cup {j} THEN 1 ELSE 0]
             more == [before EXCEPT ![j] = before[j] + 1]
  <1>1. more = after
    <2>1. before[j] = 0 /\ after[j] = 1
      OBVIOUS
    <2>2. more = [i \in Servers |-> IF i = j THEN before[j] + 1 ELSE before[i]]
      OBVIOUS
    <2>3. \A i \in Servers : i # j => before[i] = after[i]
      OBVIOUS
    <2>4. before[j] + 1 = after[j]
      BY <2>1
    <2> HIDE DEF before
    <2>5. \A i \in Servers : (IF i = j THEN before[j] + 1 ELSE before[i]) = after[i]
      BY <2>3, <2>4
    <2> QED BY <2>2, <2>5
  <1>2. Exponentiated(j, Product(S))
          = [kind |-> "product", applied |-> more]
    BY DEF Exponentiated, Product, Tag
  <1> QED BY <1>1, <1>2 DEF Product, Tag

LEMMA ProofsGiveTag ==
    ASSUME NEW e \in Seq(Entries), ProofsValid(request, e), ServedOnce(e),
           \A i \in DOMAIN e : e[i].proof.kind = "server"
    PROVE  LastTag(e) = Product(Served(e)) /\ Served(e) \cap request.wrong = {}
  <1>1. Len(e) \in Nat /\ DOMAIN e = 1 .. Len(e)
    OBVIOUS
  <1>2. ASSUME NEW k \in 1 .. Len(e)
        PROVE  /\ e[k].tag = Exponentiated(e[k].index, TagBefore(e, k))
               /\ e[k].index \notin request.wrong /\ e[k].index \in Servers
    <2>1. e[k] \in Entries /\ e[k].proof.kind # "misbehaving"
      BY <1>1
    <2>2. VerifyServerProof(request, e, k)
      BY <1>1, <2>1 DEF ProofsValid, ProofValid
    <2> QED BY <2>1, <2>2 DEF VerifyServerProof, Entries
  <1>3. TagBefore(e, 1) = Product(ServedUpTo(e, 0))
    BY DEF TagBefore, T0, Zero, Product, ServedUpTo
  <1>4. ASSUME NEW k \in 1 .. Len(e), TagBefore(e, k) = Product(ServedUpTo(e, k - 1))
        PROVE  TagBefore(e, k + 1) = Product(ServedUpTo(e, k))
    <2>1. e[k].index \in Servers /\ e[k].index \notin ServedUpTo(e, k - 1)
      BY <1>1, <1>2 DEF ServedOnce, ServedUpTo
    <2>2. ServedUpTo(e, k) = ServedUpTo(e, k - 1) \cup {e[k].index}
      BY DEF ServedUpTo
    <2>3. TagBefore(e, k + 1) = Exponentiated(e[k].index, Product(ServedUpTo(e, k - 1)))
      <3>1. k + 1 # 1 /\ (k + 1) - 1 = k
        OBVIOUS
      <3>2. TagBefore(e, k + 1) = e[k].tag
        BY <3>1 DEF TagBefore
      <3> QED BY <1>2, <1>4, <3>2
    <2> QED BY <2>1, <2>2, <2>3, OneMore
  <1>5. WrongAfter(e) = {}
    <2> SUFFICES ASSUME WrongAfter(e) # {}
                 PROVE  FALSE
      OBVIOUS
    <2>1. WrongAfter(e) \in SUBSET Nat
      BY <1>1 DEF WrongAfter
    <2>2. PICK k \in WrongAfter(e) : \A i \in WrongAfter(e) : k <= i
      BY <2>1, FirstOf
    <2>3. k # 0
      BY <1>3, <2>2 DEF WrongAfter
    <2>4. k \in 1 .. Len(e) /\ k - 1 \in 0 .. Len(e) /\ (k - 1) + 1 = k
      BY <1>1, <2>2, <2>3 DEF WrongAfter
    <2>5. k - 1 \notin WrongAfter(e)
      BY <1>1, <2>2, <2>4
    <2>6. TagBefore(e, k) = Product(ServedUpTo(e, k - 1))
      BY <2>4, <2>5 DEF WrongAfter
    <2> QED BY <1>4, <2>2, <2>4, <2>6 DEF WrongAfter
  <1>6. Served(e) = ServedUpTo(e, Len(e))
    BY <1>1 DEF Served, ServedUpTo
  <1>7. TagBefore(e, Len(e) + 1) = Product(ServedUpTo(e, Len(e)))
    BY <1>1, <1>5 DEF WrongAfter
  <1>8. Served(e) \cap request.wrong = {}
    BY <1>1, <1>2 DEF Served
  <1> QED BY <1>6, <1>7, <1>8 DEF LastTag

----------------------------------------------------------------------------
(* The invariant.                                                          *)

(* All but the messages of the type invariant and of the invariant.        *)
RestOK ==
    /\ waiter \in {"idle", "waiting", "replied", "failed"}
    /\ phase \in [Nodes -> {"idle", "forwarded", "publishing", "done"}]
    /\ result \in Seq(Entries)
    /\ rejected \subseteq Nodes
    /\ panicked \subseteq Nodes
    /\ up \in [Nodes -> BOOLEAN]
    /\ ResultVerified
    /\ HonestResult

(* Messages that are new may have been sent.                               *)
Sound == \A m \in msgs' : m \in msgs \/ (m \in Messages /\ (Honest => MsgInv(m)))

LEMMA RestAndSound ==
    ASSUME IInv, Sound, RestOK', UNCHANGED <<faults, leader, request>>
    PROVE  IInv'
  <1>1. msgs' \subseteq Messages
    BY DEF IInv, TypeOK, Sound
  <1>2. Honest' => \A m \in msgs' : MsgInv(m)'
    BY SameMeaning DEF IInv, Sound, Honest
  <1>3. faults' \in FaultScenarios /\ leader' \in Leaders /\ request' \in faults'.requests
    BY DEF IInv, TypeOK
  <1> QED BY <1>1, <1>2, <1>3 DEF IInv, RestOK, TypeOK

LEMMA Initially == Init => IInv
  <1>1. <<>> \in Seq(Entries)
    BY EmptyMessage
  <1> QED BY <1>1 DEF Init, IInv, TypeOK, ResultVerified, HonestResult

LEMMA StartStep ==
    ASSUME IInv, Start, UNCHANGED faults
    PROVE  IInv'
  <1>1. RestOK'
    BY DEF Start, RestOK, IInv, TypeOK, ResultVerified, HonestResult
  <1>2. Sound
    <2>1. CASE UNCHANGED msgs
      BY <2>1 DEF Sound
    <2>2. ASSUME NEW e \in Extended(leader, <<>>),
                 msgs' = msgs \cup SendToNextServer(leader, e)
          PROVE  Sound
      <3>1. leader \in Nodes /\ (Honest => MaySend(leader, e))
        BY MadeByLeader, Requests DEF IInv
      <3>2. SendToNextServer(leader, e) \subseteq Messages
        BY <3>1, EmptyMessage, ExtendedType, SentTypes
      <3> QED BY <2>2, <3>1, <3>2, SentOn DEF Sound, IInv
    <2> QED BY <2>1, <2>2 DEF Start
  <1> QED BY <1>1, <1>2, RestAndSound DEF Start

LEMMA ServerMsgStep ==
    ASSUME IInv, NEW n \in Nodes, HandleServerMsg(n), UNCHANGED faults
    PROVE  IInv'
  <1>1. RestOK'
    BY DEF HandleServerMsg, RestOK, IInv, TypeOK, ResultVerified, HonestResult
  <1>2. PICK m \in Inbox(n, "ServerMsg") :
          \/ msgs' = msgs \ {m}
          \/ \E e \in Extended(n, m.entries) :
               \/ msgs' = (msgs \ {m}) \cup SendToNextServer(n, e)
               \/ /\ Honest => Len(e) = N
                  /\ \E errs \in SendErrors : msgs' = (msgs \ {m}) \cup SendFinished(n, e, errs)
    BY DEF HandleServerMsg, AllHaveServed, Honest
  <1>3. Sound
    <2>1. CASE msgs' = msgs \ {m}
      BY <2>1 DEF Sound
    <2>2. ASSUME NEW e \in Extended(n, m.entries)
          PROVE  e \in Seq(Entries) /\ (Honest => MaySend(n, e))
      <3>1. m.entries \in Seq(Entries) /\ n # leader
        BY DEF IInv, TypeOK, Inbox, Messages, HandleServerMsg
      <3> QED BY <3>1, ExtendedType, MadeByChild
    <2>3. ASSUME NEW e \in Extended(n, m.entries),
                 msgs' = (msgs \ {m}) \cup SendToNextServer(n, e)
          PROVE  Sound
      BY <2>2, <2>3, SentOn, SentTypes DEF Sound, IInv
    <2>4. ASSUME NEW e \in Extended(n, m.entries), Honest => Len(e) = N,
                 NEW errs \in SendErrors, msgs' = (msgs \ {m}) \cup SendFinished(n, e, errs)
          PROVE  Sound
      BY <2>2, <2>4, SentToAll, SentTypes DEF Sound
    <2> QED BY <1>2, <2>1, <2>3, <2>4
  <1> QED BY <1>1, <1>3, RestAndSound DEF HandleServerMsg

LEMMA FinishedStep ==
    ASSUME IInv, NEW n \in Nodes, HandleFinishedServerMsg(n), UNCHANGED faults
    PROVE  IInv'
  <1>1. PICK m \in Inbox(n, "FinishedServerMsg") :
          /\ msgs' = msgs \ {m}
          /\ \/ HasFinalTag(request, m.entries) /\ result' = m.entries
             \/ UNCHANGED result
    BY DEF HandleFinishedServerMsg
  <1>2. result' \in Seq(Entries) /\ ResultVerified' /\ HonestResult'
    <2>1. CASE UNCHANGED result
      BY <2>1 DEF HandleFinishedServerMsg, IInv, TypeOK, ResultVerified, HonestResult
    <2>2. CASE HasFinalTag(request, m.entries) /\ result' = m.entries
      <3>1. m.entries \in Seq(Entries) /\ request \in ClientRequests /\ m \in msgs
        BY Requests DEF Inbox, IInv, TypeOK, Messages
      <3>2. UNCHANGED request
        BY DEF HandleFinishedServerMsg
      <3>3. ASSUME Honest
            PROVE  FinalTag(m.entries) = IF request.wrong = {} THEN LinkageTag ELSE NullTag
        <4>1. ServedOnce(m.entries) /\ Len(m.entries) = N /\ RightTag(m.entries)
          BY <3>1, <3>3 DEF Inbox, IInv, MsgInv
        <4> QED BY <3>1, <4>1, FinalTagRight
      <3> QED BY <2>2, <3>1, <3>2, <3>3 DEF ResultVerified, HonestResult, Honest
    <2> QED BY <1>1, <2>1, <2>2
  <1>3. /\ waiter' = waiter /\ panicked' = panicked /\ up' = up
        /\ rejected' \subseteq Nodes
        /\ phase' \in [Nodes -> {"idle", "forwarded", "publishing", "done"}]
    BY DEF HandleFinishedServerMsg, IInv, TypeOK
  <1>4. RestOK'
    BY <1>2, <1>3 DEF RestOK, IInv, TypeOK
  <1>5. Sound
    BY <1>1 DEF Sound
  <1> QED BY <1>4, <1>5, RestAndSound DEF HandleFinishedServerMsg

LEMMA NextStep == IInv /\ [Next]_<<vars, faults>> => IInv'
  <1> SUFFICES ASSUME IInv, [Next]_<<vars, faults>>
               PROVE  IInv'
    OBVIOUS
  <1>1. CASE UNCHANGED <<vars, faults>>
    <2>1. RestOK' /\ Sound
      BY <1>1 DEF vars, RestOK, Sound, IInv, TypeOK, ResultVerified, HonestResult
    <2> QED BY <1>1, <2>1, RestAndSound DEF vars
  <1>2. CASE Start /\ UNCHANGED faults
    BY <1>2, StartStep
  <1>3. CASE PublishResult /\ UNCHANGED faults
    <2>1. RestOK' /\ Sound
      BY <1>3 DEF PublishResult, RestOK, Sound, IInv, TypeOK, ResultVerified, HonestResult
    <2> QED BY <1>3, <2>1, RestAndSound DEF PublishResult
  <1>4. CASE WaitTimeout /\ UNCHANGED faults
    <2>1. RestOK' /\ Sound
      BY <1>4 DEF WaitTimeout, RestOK, Sound, IInv, TypeOK, ResultVerified, HonestResult
    <2> QED BY <1>4, <2>1, RestAndSound DEF WaitTimeout
  <1>5. CASE HandleServerMsgOnLeader /\ UNCHANGED faults
    <2>1. leader \in Nodes
      BY Requests DEF IInv
    <2>2. RestOK' /\ Sound
      BY <1>5, <2>1 DEF HandleServerMsgOnLeader, RestOK, Sound, IInv, TypeOK, ResultVerified, HonestResult
    <2> QED BY <1>5, <2>2, RestAndSound DEF HandleServerMsgOnLeader
  <1>6. ASSUME NEW n \in Nodes, HandleServerMsg(n), UNCHANGED faults
        PROVE  IInv'
    BY <1>6, ServerMsgStep
  <1>7. ASSUME NEW n \in Nodes, HandleFinishedServerMsg(n), UNCHANGED faults
        PROVE  IInv'
    BY <1>7, FinishedStep
  <1>8. ASSUME NEW n \in Nodes, Crash(n), UNCHANGED faults
        PROVE  IInv'
    <2>1. RestOK' /\ Sound
      BY <1>8 DEF Crash, RestOK, Sound, IInv, TypeOK, ResultVerified, HonestResult
    <2> QED BY <1>8, <2>1, RestAndSound DEF Crash
  <1> QED BY <1>1, <1>2, <1>3, <1>4, <1>5, <1>6, <1>7, <1>8 DEF Next, LeaderStep, NodeStep

LEMMA Invariant == Spec => []IInv
  <1> QED BY Initially, NextStep, PTL DEF Spec

----------------------------------------------------------------------------
(* Servers that follow the protocol.                                       *)

(* Without faulty servers, every node before the receiver has served.      *)
Counted(m) == m.type = "ServerMsg" => Len(m.entries) = Travelled(m.to)
                                         /\ (N > 1 => Len(m.entries) # N)
CountInv ==
    Honest => /\ \A m \in msgs : Counted(m)
              /\ N > 1 => panicked = {}

(* With a client that follows it too, all the checks hold.                 *)
Valid(entries) == SignaturesValid(entries) /\ ProofsValid(request, entries)
ValidInv ==
    Honest /\ request.wrong = {} =>
        /\ \A m \in msgs : request.proof /\ Valid(m.entries)
        /\ rejected = {}

(* What a server that follows the protocol adds to a valid message.        *)
LEMMA ValidEntry ==
    ASSUME NEW entries \in Seq(Entries), NEW j \in Servers, j \notin Served(entries),
           request \in ClientRequests, request.wrong = {},
           LastTag(entries) = TagSoFar(entries), Valid(entries)
    PROVE  Valid(ServerProtocol(request, entries, j))
  <1> DEFINE previous == LastTag(entries)
             T == Exponentiated(j, previous)
             proof == NewServerProof(j, previous, T)
             entry == NewEntry(entries, j, T, proof)
             e == Append(entries, entry)
             content == [index |-> j, tag |-> T, proof |-> proof]
  <1>1. ServerProtocol(request, entries, j) = e
    BY DEF ServerProtocol, LastTag
  <1>2. /\ entry \in Entries
        /\ entry = [index |-> j, tag |-> T, proof |-> proof,
                    sig |-> [by |-> j, on |-> Append(Content(entries), content)]]
    <2>1. PICK x \in Entries : Append(entries, entry) = Append(entries, x)
      BY <1>1, HonestEntry
    <2>2. entry = x
      <3>1. Len(entries) + 1 \in Nat /\ Append(entries, entry)[Len(entries) + 1] = entry
              /\ Append(entries, x)[Len(entries) + 1] = x
        OBVIOUS
      <3> QED BY <2>1, <3>1
    <2> QED BY <2>2 DEF NewEntry, SignedEntry
  <1> HIDE DEF entry
  <1>3. /\ e \in Seq(Entries) /\ Len(e) = Len(entries) + 1 /\ Len(entries) \in Nat
        /\ DOMAIN e = 1 .. Len(entries) + 1 /\ DOMAIN entries = 1 .. Len(entries)
        /\ \A i \in 1 .. Len(entries) : e[i] = entries[i]
        /\ e[Len(entries) + 1] = entry
    BY <1>2, AppendProperties
  <1>4. /\ Content(entries) \in Seq(Unsigned) /\ Len(Content(entries)) = Len(entries)
        /\ content \in Unsigned
    BY <1>2, ContentType DEF Entries, Unsigned
  <1> DEFINE longer == Append(Content(entries), content)
  <1>5. /\ longer \in Seq(Unsigned) /\ Len(longer) = Len(entries) + 1
        /\ \A i \in 1 .. Len(entries) : longer[i] = Content(entries)[i]
        /\ longer[Len(entries) + 1] = content
    BY <1>4, AppendProperties
  <1>6. Content(e) \in Seq(Unsigned) /\ Len(Content(e)) = Len(entries) + 1
    BY <1>3, ContentType
  <1> HIDE DEF e
  <1>7. Content(e) = longer
    <2>1. Content(e)[Len(entries) + 1] = content
      BY <1>2, <1>3 DEF Content
    <2>2. \A i \in 1 .. Len(entries) : Content(e)[i] = Content(entries)[i]
      BY <1>3 DEF Content
    <2> HIDE DEF longer, content
    <2>3. \A i \in 1 .. Len(entries) + 1 : Content(e)[i] = longer[i]
      BY <1>3, <1>5, <2>1, <2>2
    <2> QED BY <1>5, <1>6, <2>3, SeqEqual
  <1>8. \A i \in 1 .. Len(entries) : SubSeq(Content(e), 1, i) = SubSeq(Content(entries), 1, i)
    <2> TAKE i \in 1 .. Len(entries)
    <2>1. Content(e) = Content(entries) \o <<content>>
      BY <1>4, <1>7, AppendIsConcat
    <2>2. <<content>> \in Seq(Unsigned)
      BY <1>4
    <2> QED BY <1>3, <1>4, <2>1, <2>2, SubSeqOfConcat1
  <1>9. SubSeq(Content(e), 1, Len(entries) + 1) = longer
    BY <1>5, <1>7, SubSeqFull
  <1>10. SignaturesValid(e)
    <2>1. entry.sig.on = longer
      BY <1>2
    <2> HIDE DEF longer
    <2>2. \A i \in 1 .. Len(entries) : e[i].sig.on = SubSeq(Content(e), 1, i)
      BY <1>3, <1>8 DEF SignaturesValid, Valid
    <2>3. e[Len(entries) + 1].sig.on = SubSeq(Content(e), 1, Len(entries) + 1)
      BY <1>3, <1>9, <2>1
    <2>4. \A i \in DOMAIN e : i \in 1 .. Len(entries) \/ i = Len(entries) + 1
      BY <1>3
    <2> QED BY <2>2, <2>3, <2>4 DEF SignaturesValid
  <1>11. ProofsValid(request, e)
    <2>1. \A i \in 1 .. Len(entries) + 1 : TagBefore(e, i) = TagBefore(entries, i)
      BY <1>3 DEF TagBefore
    <2>2. \A i \in 1 .. Len(entries) : ProofValid(request, e, i)
      BY <1>3, <2>1 DEF ProofValid, VerifyServerProof, ProofsValid, Valid
    <2>3. entry.index = j /\ entry.tag = T /\ entry.proof = proof
      BY <1>2
    <2>4. TagBefore(e, Len(entries) + 1) = previous
      BY <1>3, <2>1 DEF LastTag
    <2>5. proof.kind # "misbehaving"
      BY DEF NewServerProof
    <2>6. VerifyServerProof(request, e, Len(entries) + 1)
      BY <1>3, <2>3, <2>4 DEF VerifyServerProof
    <2> HIDE DEF proof
    <2>7. ProofValid(request, e, Len(entries) + 1)
      BY <1>3, <2>3, <2>5, <2>6 DEF ProofValid
    <2> QED BY <1>3, <2>2, <2>7 DEF ProofsValid
  <1> QED BY <1>1, <1>10, <1>11 DEF Valid, e

(* A message accepted by a child of a run without faulty servers, and what *)
(* it makes of it.                                                         *)
LEMMA HonestChild ==
    ASSUME IInv, Honest, NEW n \in Nodes, n # leader,
           NEW m \in Inbox(n, "ServerMsg"), Counted(m),
           NEW e \in Extended(n, m.entries)
    PROVE  /\ MaySend(n, e) /\ Len(e) = Position(n) + 1
           /\ request.wrong = {} /\ Valid(m.entries) => Valid(e)
  <1>1. e = ServerProtocol(request, m.entries, ServerIndex[n])
    BY DEF Extended, Honest
  <1>2. MaySend(n, e) /\ ServerIndex[n] \notin Served(m.entries)
    BY MadeByChild
  <1>3. /\ m.entries \in Seq(Entries) /\ LastTag(m.entries) = TagSoFar(m.entries)
        /\ request \in ClientRequests /\ leader \in Nodes /\ ServerIndex[n] \in Servers
    BY Requests, NodeFacts DEF IInv, TypeOK, MsgInv, RightTag, Inbox, Messages
  <1>4. Len(m.entries) = Position(n)
    BY <1>3, RingFromLeader DEF Counted, Inbox
  <1>5. Len(e) = Len(m.entries) + 1
    BY <1>1, <1>2, <1>3, HonestEntry, Appended
  <1>6. request.wrong = {} /\ Valid(m.entries) => Valid(e)
    BY <1>1, <1>2, <1>3, ValidEntry
  <1> QED BY <1>2, <1>4, <1>5, <1>6

LEMMA HonestLeader ==
    ASSUME TypeOK, Honest, NEW e \in Extended(leader, <<>>)
    PROVE  /\ MaySend(leader, e) /\ Len(e) = Position(leader) + 1
           /\ request.wrong = {} => Valid(e)
  <1>1. e = ServerProtocol(request, <<>>, ServerIndex[leader])
    BY DEF Extended, Honest
  <1>2. request \in ClientRequests /\ leader \in Nodes /\ ServerIndex[leader] \in Servers
    BY Requests, NodeFacts
  <1>3. Len(<<>>) = 0 /\ Position(leader) = 0
    BY <1>2, RingFromLeader
  <1>4. Valid(<<>>)
    BY DEF Valid, SignaturesValid, ProofsValid
  <1>5. Len(e) = Len(<<>>) + 1
    <2>1. PICK entry \in Entries : e = Append(<<>>, entry)
      BY <1>1, <1>2, EmptyMessage, HonestEntry
    <2> QED BY <2>1
  <1>6. request.wrong = {} => Valid(e)
    BY <1>1, <1>2, <1>4, EmptyMessage, ValidEntry
  <1> QED BY <1>3, <1>5, <1>6, MadeByLeader

(* What the next node is sent is counted.                                  *)
LEMMA SentCounted ==
    ASSUME TypeOK, NEW n \in Nodes, NEW e, MaySend(n, e), Len(e) = Position(n) + 1,
           N > 1 => Len(e) # N, NEW m \in SendToNextServer(n, e)
    PROVE  Counted(m)
  <1>1. leader \in Nodes
    BY Requests
  <1> QED BY <1>1, RingFromLeader, SentOn DEF Counted

LEMMA SameCount ==
    ASSUME UNCHANGED leader, NEW m
    PROVE  Counted(m)' <=> Counted(m)
  BY DEF Counted, Travelled, Position

(* Who asks what of whom, and who is faulty, is fixed.                     *)
LEMMA Fixed == [Next]_<<vars, faults>> => UNCHANGED <<leader, request, faults>>
  <1> SUFFICES ASSUME Next
               PROVE  UNCHANGED <<leader, request, faults>>
    BY DEF vars
  <1>1. UNCHANGED faults
    BY DEF Next
  <1>2. CASE LeaderStep
    BY <1>1, <1>2 DEF LeaderStep, Start, PublishResult, WaitTimeout, HandleServerMsgOnLeader
  <1>3. ASSUME NEW n \in Nodes, HandleServerMsg(n)
        PROVE  UNCHANGED <<leader, request, faults>>
    BY <1>1, <1>3 DEF HandleServerMsg
  <1>4. ASSUME NEW n \in Nodes, HandleFinishedServerMsg(n) \/ Crash(n)
        PROVE  UNCHANGED <<leader, request, faults>>
    BY <1>1, <1>4 DEF HandleFinishedServerMsg, Crash
  <1> QED BY <1>2, <1>3, <1>4 DEF Next, NodeStep

LEMMA CountStep == IInv /\ CountInv /\ [Next]_<<vars, faults>> => CountInv'
  <1> SUFFICES ASSUME IInv, CountInv, [Next]_<<vars, faults>>, Honest
               PROVE  (\A m \in msgs' : Counted(m)) /\ (N > 1 => panicked' = {})
    BY Fixed, SameCount DEF CountInv, Honest
  <1>1. /\ \A m \in msgs : Counted(m)
        /\ N > 1 => panicked = {}
        /\ leader \in Nodes
    BY Requests DEF IInv, CountInv
  <1>2. CASE UNCHANGED <<vars, faults>>
    BY <1>1, <1>2 DEF vars
  <1>3. CASE Start
    <2>1. panicked' = panicked
      BY <1>3 DEF Start
    <2>2. ASSUME NEW e \in Extended(leader, <<>>), NEW m \in SendToNextServer(leader, e)
          PROVE  Counted(m)
      <3>1. MaySend(leader, e) /\ Len(e) = Position(leader) + 1 /\ Position(leader) = 0
        BY <1>1, HonestLeader, RingFromLeader DEF IInv
      <3>2. N > 1 => Len(e) # N
        BY <3>1
      <3> QED BY <1>1, <2>2, <3>1, <3>2, SentCounted DEF IInv
    <2>3. msgs' = msgs \/ \E e \in Extended(leader, <<>>) :
                             msgs' = msgs \cup SendToNextServer(leader, e)
      BY <1>3 DEF Start
    <2> QED BY <1>1, <2>1, <2>2, <2>3
  <1>4. CASE PublishResult \/ WaitTimeout
    BY <1>1, <1>4 DEF PublishResult, WaitTimeout
  \* A node sends on only what is not finished, and what comes back to the
  \* leader is.
  <1>5. CASE HandleServerMsgOnLeader
    <2>1. PICK m \in Inbox(leader, "ServerMsg") : msgs' = msgs \ {m}
      BY <1>5 DEF HandleServerMsgOnLeader
    <2>2. Len(m.entries) = N /\ (N > 1 => Len(m.entries) # N)
      BY <1>1, <2>1 DEF Counted, Travelled, Inbox
    <2> QED BY <1>1, <2>1, <2>2
  <1>6. ASSUME NEW n \in Nodes, HandleServerMsg(n)
        PROVE  (\A m \in msgs' : Counted(m)) /\ (N > 1 => panicked' = {})
    <2>1. panicked' = panicked /\ n # leader
      BY <1>6 DEF HandleServerMsg
    <2>2. PICK m \in Inbox(n, "ServerMsg") :
            \/ msgs' = msgs \ {m}
            \/ /\ Accepts(request, m.entries)
               /\ \E e \in Extended(n, m.entries) :
                    \/ Len(e) # N /\ msgs' = (msgs \ {m}) \cup SendToNextServer(n, e)
                    \/ /\ Len(e) = N
                       /\ \E errs \in SendErrors : msgs' = (msgs \ {m}) \cup SendFinished(n, e, errs)
      BY <1>6 DEF HandleServerMsg, AllHaveServed, Honest
    <2>3. Counted(m)
      BY <1>1 DEF Inbox
    <2>4. ASSUME Accepts(request, m.entries), NEW e \in Extended(n, m.entries)
          PROVE  MaySend(n, e) /\ Len(e) = Position(n) + 1
      BY <2>1, <2>3, <2>4, HonestChild DEF Accepts
    <2>5. ASSUME Accepts(request, m.entries), NEW e \in Extended(n, m.entries), Len(e) # N,
                 NEW r \in SendToNextServer(n, e)
          PROVE  Counted(r)
      BY <2>4, <2>5, SentCounted DEF IInv
    <2>6. ASSUME NEW e, NEW errs, NEW r \in SendFinished(n, e, errs)
          PROVE  Counted(r)
      BY DEF SendFinished, Counted
    <2> QED BY <1>1, <2>1, <2>2, <2>5, <2>6
  <1>7. ASSUME NEW n \in Nodes, HandleFinishedServerMsg(n) \/ Crash(n)
        PROVE  (\A m \in msgs' : Counted(m)) /\ (N > 1 => panicked' = {})
    BY <1>1, <1>7 DEF HandleFinishedServerMsg, Crash
  <1> QED BY <1>2, <1>3, <1>4, <1>5, <1>6, <1>7 DEF Next, LeaderStep, NodeStep

(* Servers and client that follow the protocol: everything is accepted.    *)
LEMMA ValidStep == IInv /\ CountInv /\ ValidInv /\ [Next]_<<vars, faults>> => ValidInv'
  <1> SUFFICES ASSUME IInv, CountInv, ValidInv, [Next]_<<vars, faults>>,
                      Honest, request.wrong = {}
               PROVE  /\ \A m \in msgs' : request.proof /\ Valid(m.entries)
                      /\ rejected' = {}
    BY Fixed DEF ValidInv, Valid, Honest
  <1>1. /\ \A m \in msgs : request.proof /\ Valid(m.entries) /\ Counted(m)
        /\ rejected = {} /\ leader \in Nodes
    BY Requests DEF IInv, CountInv, ValidInv
  <1> DEFINE Goal == /\ \A m \in msgs' : request.proof /\ Valid(m.entries)
                     /\ rejected' = {}
  <1>2. CASE UNCHANGED <<vars, faults>>
    BY <1>1, <1>2 DEF vars
  <1>3. CASE Start
    <2>1. rejected' = rejected
      BY <1>3 DEF Start
    <2>2. \/ msgs' = msgs
          \/ /\ Accepts(request, <<>>)
             /\ \E e \in Extended(leader, <<>>) : msgs' = msgs \cup SendToNextServer(leader, e)
      BY <1>3 DEF Start
    <2>3. ASSUME NEW e \in Extended(leader, <<>>), NEW m \in SendToNextServer(leader, e)
          PROVE  Valid(m.entries)
      BY HonestLeader, <1>1, <2>3, SentOn DEF IInv
    <2> QED BY <1>1, <2>1, <2>2, <2>3 DEF Accepts
  <1>4. CASE PublishResult \/ WaitTimeout \/ HandleServerMsgOnLeader
    BY <1>1, <1>4 DEF PublishResult, WaitTimeout, HandleServerMsgOnLeader
  <1>5. ASSUME NEW n \in Nodes, HandleServerMsg(n)
        PROVE  Goal
    <2>1. n # leader
      BY <1>5 DEF HandleServerMsg
    <2>2. PICK m \in Inbox(n, "ServerMsg") :
            \/ msgs' = msgs \ {m} /\ UNCHANGED rejected
            \/ ~Accepts(request, m.entries)
            \/ /\ UNCHANGED rejected
               /\ \E e \in Extended(n, m.entries) :
                    \/ msgs' = (msgs \ {m}) \cup SendToNextServer(n, e)
                    \/ \E errs \in SendErrors : msgs' = (msgs \ {m}) \cup SendFinished(n, e, errs)
      BY <1>5 DEF HandleServerMsg
    <2>3. request.proof /\ Valid(m.entries) /\ Counted(m)
      BY <1>1 DEF Inbox
    <2>4. Accepts(request, m.entries)
      <3>1. Len(m.entries) = Position(n) /\ Position(n) \in 0 .. N - 1
        BY <1>1, <2>1, <2>3, RingFromLeader DEF Counted, Inbox
      <3> QED BY <2>3, <3>1, NAssumption DEF Accepts, Valid
    <2>5. ASSUME NEW e \in Extended(n, m.entries)
          PROVE  MaySend(n, e) /\ Valid(e)
      BY <2>1, <2>3, <2>4, HonestChild DEF Accepts
    <2>6. ASSUME NEW e \in Extended(n, m.entries), NEW r \in SendToNextServer(n, e)
          PROVE  Valid(r.entries)
      BY <2>5, <2>6, SentOn DEF IInv
    <2>7. ASSUME NEW e \in Extended(n, m.entries), NEW errs, NEW r \in SendFinished(n, e, errs)
          PROVE  Valid(r.entries)
      BY <2>5, <2>7 DEF SendFinished
    <2> QED BY <1>1, <2>2, <2>3, <2>4, <2>6, <2>7
  <1>6. ASSUME NEW n \in Nodes, HandleFinishedServerMsg(n)
        PROVE  Goal
    <2>1. PICK m \in Inbox(n, "FinishedServerMsg") :
            /\ msgs' = msgs \ {m}
            /\ HasFinalTag(request, m.entries) => rejected' = rejected
      BY <1>6 DEF HandleFinishedServerMsg
    <2>2. Valid(m.entries) /\ Len(m.entries) = N
      BY <1>1 DEF Inbox, IInv, MsgInv
    <2>3. HasFinalTag(request, m.entries)
      BY <2>2, NAssumption DEF HasFinalTag, Valid
    <2> QED BY <1>1, <2>1, <2>3
  <1>7. ASSUME NEW n \in Nodes, Crash(n)
        PROVE  Goal
    BY <1>1, <1>7 DEF Crash
  <1> QED BY <1>2, <1>3, <1>4, <1>5, <1>6, <1>7 DEF Next, LeaderStep, NodeStep

----------------------------------------------------------------------------
(* One message gathers the entries.                                        *)

(* There is one message with entries, or its broadcast; nothing else is    *)
(* sent when it is answered or lost.                                       *)
OneMessage ==
    /\ \A m1, m2 \in msgs : m1.entries = m2.entries /\ (m1.type = "ServerMsg" => m1 = m2)
    /\ msgs # {} => request.proof
    /\ waiter = "idle" => msgs = {} /\ result = <<>>
    /\ phase[leader] \in {"idle", "forwarded"} => result = <<>>
    /\ phase[leader] = "publishing" \/ waiter = "replied" => result # <<>>
    /\ result # <<>> =>
         /\ ServedOnce(result) /\ Len(result) = N
         /\ \A m \in msgs : m.type = "FinishedServerMsg" /\ m.entries = result

LEMMA OnlyNext ==
    ASSUME NEW n, NEW e, NEW m1 \in SendToNextServer(n, e), NEW m2 \in SendToNextServer(n, e)
    PROVE  m1 = m2 /\ m1.type = "ServerMsg" /\ m1.entries = e
  BY DEF SendToNextServer

LEMMA ToOthers ==
    ASSUME NEW n, NEW e, NEW errs, NEW m \in SendFinished(n, e, errs)
    PROVE  m.type = "FinishedServerMsg" /\ m.entries = e
  BY DEF SendFinished

(* A message in the ring is the only one, and nothing is answered yet.     *)
LEMMA OnlyInRing ==
    ASSUME OneMessage, NEW n, NEW m \in Inbox(n, "ServerMsg")
    PROVE  msgs = {m} /\ result = <<>> /\ request.proof /\ waiter # "idle"
  <1>1. m \in msgs /\ m.type = "ServerMsg"
    BY DEF Inbox
  <1>2. result = <<>>
    BY <1>1 DEF OneMessage
  <1> QED BY <1>1, <1>2 DEF OneMessage

(* A broadcast is all there is, too.                                       *)
LEMMA OnlyFinished ==
    ASSUME IInv, Honest, OneMessage, NEW n, NEW m \in Inbox(n, "FinishedServerMsg")
    PROVE  /\ m \in msgs /\ ServedOnce(m.entries) /\ Len(m.entries) = N
           /\ m.entries \in Seq(Entries) /\ request.proof
           /\ \A o \in msgs : o.type = "FinishedServerMsg" /\ o.entries = m.entries
  <1>1. m \in msgs /\ m.type = "FinishedServerMsg" /\ msgs \subseteq Messages
    BY DEF Inbox, IInv, TypeOK
  <1>2. ServedOnce(m.entries) /\ Len(m.entries) = N /\ m.entries \in Seq(Entries)
    BY <1>1 DEF IInv, MsgInv, Messages
  <1>3. ASSUME NEW o \in msgs
        PROVE  o.type = "FinishedServerMsg" /\ o.entries = m.entries
    <2>1. o.type \in {"ServerMsg", "FinishedServerMsg"}
      BY <1>1 DEF Messages
    <2> QED BY <1>1, <2>1 DEF OneMessage
  <1> QED BY <1>1, <1>2, <1>3 DEF OneMessage

LEMMA OneMessageStep ==
    IInv /\ Honest /\ OneMessage /\ [Next]_<<vars, faults>> => OneMessage'
  <1> SUFFICES ASSUME IInv, Honest, OneMessage, [Next]_<<vars, faults>>
               PROVE  OneMessage'
    OBVIOUS
  <1>1. leader \in Nodes /\ phase \in [Nodes -> {"idle", "forwarded", "publishing", "done"}]
    BY Requests DEF IInv, TypeOK
  <1>2. CASE UNCHANGED <<vars, faults>>
    BY <1>2 DEF OneMessage, vars
  <1>3. CASE Start
    <2>1. msgs = {} /\ result = <<>>
      BY <1>3 DEF Start, OneMessage
    <2>2. \/ msgs' = {}
          \/ request.proof /\ \E e \in Extended(leader, <<>>) : msgs' = SendToNextServer(leader, e)
      BY <1>3, <2>1 DEF Start, Accepts
    <2>3. /\ \A m1, m2 \in msgs' : m1.entries = m2.entries /\ m1 = m2
          /\ msgs' # {} => request.proof
      BY <2>2, OnlyNext
    <2>4. /\ phase'[leader] \in {"forwarded", "done"} /\ waiter' \in {"waiting", "failed"}
          /\ UNCHANGED <<leader, request, result>>
      BY <1>1, <1>3 DEF Start
    <2> QED BY <2>1, <2>3, <2>4 DEF OneMessage
  <1>4. CASE PublishResult \/ WaitTimeout \/ \E n \in Nodes : Crash(n)
    BY <1>1, <1>4 DEF PublishResult, WaitTimeout, Crash, OneMessage
  <1>5. CASE HandleServerMsgOnLeader
    BY <1>5 DEF HandleServerMsgOnLeader, OneMessage
  <1>6. ASSUME NEW n \in Nodes, HandleServerMsg(n)
        PROVE  OneMessage'
    <2>1. PICK m \in Inbox(n, "ServerMsg") :
            \/ msgs' = msgs \ {m}
            \/ \E e : \/ msgs' = (msgs \ {m}) \cup SendToNextServer(n, e)
                     \/ \E errs : msgs' = (msgs \ {m}) \cup SendFinished(n, e, errs)
      BY <1>6 DEF HandleServerMsg
    <2>2. msgs = {m} /\ result = <<>> /\ request.proof /\ waiter # "idle"
      BY OnlyInRing
    <2>3. \A m1, m2 \in msgs' : m1.entries = m2.entries /\ (m1.type = "ServerMsg" => m1 = m2)
      <3>1. \/ msgs' = {}
            \/ \E e : msgs' = SendToNextServer(n, e)
            \/ \E e, errs : msgs' = SendFinished(n, e, errs)
        BY <2>1, <2>2
      <3> QED BY <3>1, OnlyNext, ToOthers
    <2>4. UNCHANGED <<leader, request, result, waiter>> /\ phase'[leader] = phase[leader]
      BY <1>1, <1>6 DEF HandleServerMsg
    <2> QED BY <2>2, <2>3, <2>4 DEF OneMessage
  <1>7. ASSUME NEW n \in Nodes, HandleFinishedServerMsg(n)
        PROVE  OneMessage'
    <2>1. PICK m \in Inbox(n, "FinishedServerMsg") :
            /\ msgs' = msgs \ {m}
            /\ \/ /\ n = leader /\ result' = m.entries /\ m.entries # <<>>
                  /\ phase' = [phase EXCEPT ![n] = "publishing"]
               \/ result' = result /\ phase' = [phase EXCEPT ![n] = "done"]
      BY <1>7 DEF HandleFinishedServerMsg, HasFinalTag
    <2>2. /\ m \in msgs /\ ServedOnce(m.entries) /\ Len(m.entries) = N /\ request.proof
          /\ \A o \in msgs : o.type = "FinishedServerMsg" /\ o.entries = m.entries
      BY OnlyFinished
    <2>3. UNCHANGED <<leader, request, waiter>> /\ waiter # "idle"
      BY <1>7, <2>2 DEF HandleFinishedServerMsg, OneMessage
    <2>4. CASE result' = m.entries /\ m.entries # <<>>
      BY <1>1, <2>1, <2>2, <2>3, <2>4 DEF OneMessage
    <2>5. CASE result' = result /\ phase' = [phase EXCEPT ![n] = "done"]
      BY <1>1, <2>1, <2>2, <2>3, <2>5 DEF OneMessage
    <2> QED BY <2>1, <2>4, <2>5
  <1> QED BY <1>2, <1>3, <1>4, <1>5, <1>6, <1>7 DEF Next, LeaderStep, NodeStep

(* Who has contributed: the state function that Agreed is given.           *)
Contrib(res, ms, w) ==
    IF res # <<>> THEN Served(res)
    ELSE IF ms = {} /\ w # "idle" THEN {N} ELSE UNION {Served(m.entries) : m \in ms}

LEMMA ContribFacts ==
    ASSUME NEW res, NEW ms, NEW w
    PROVE  /\ res # <<>> => Contrib(res, ms, w) = Served(res)
           /\ res = <<>> /\ ms = {} /\ w # "idle" => Contrib(res, ms, w) = {N}
           /\ res = <<>> /\ ms = {} /\ w = "idle" => Contrib(res, ms, w) = {}
           /\ \A m \in ms : res = <<>> /\ (\A o \in ms : o.entries = m.entries) =>
                Contrib(res, ms, w) = Served(m.entries)
           /\ \A v : w # "idle" /\ v # "idle" => Contrib(res, ms, w) = Contrib(res, ms, v)
  <1>1. ASSUME NEW m \in ms, res = <<>>, \A o \in ms : o.entries = m.entries
        PROVE  Contrib(res, ms, w) = Served(m.entries)
    <2>1. {Served(o.entries) : o \in ms} = {Served(m.entries)}
      BY <1>1
    <2> HIDE DEF Served
    <2>2. UNION {Served(o.entries) : o \in ms} = Served(m.entries)
      BY <2>1
    <2>3. ms # {}
      BY <1>1
    <2> QED BY <1>1, <2>2, <2>3 DEF Contrib
  <1> QED BY <1>1 DEF Contrib

----------------------------------------------------------------------------
(* The theorems.                                                           *)

(* The state has its type.                                                 *)
THEOREM TypeCorrect == Spec => []TypeOK
  <1>1. IInv => TypeOK
    BY DEF IInv
  <1> QED BY <1>1, Invariant, PTL

(* When the servers follow the protocol, what the Auth handler answers     *)
(* carries the client's one linkage tag of the context, or the null tag of *)
(* a client that misbehaved, whichever server was asked and whoever        *)
(* refuses or stops.  With faulty servers, a result with exactly one       *)
(* server proof of each does: the verifications of GetFinalLinkageTag      *)
(* alone imply it (ProofsGiveTag), whoever made the entries; but they do   *)
(* not ask for such a result.                                              *)
THEOREM AnswerIsLinkageTag == Spec => []ResultIsLinkageTag
  <1>1. IInv => ResultIsLinkageTag
    <2> SUFFICES ASSUME IInv, result # <<>>, ProvenByAll(result)
                 PROVE  FinalTag(result) = LinkageTag /\ request.wrong = {}
      BY DEF ResultIsLinkageTag, IInv, HonestResult, Honest
    <2>1. result \in Seq(Entries) /\ ProofsValid(request, result)
            /\ request \in ClientRequests
      BY Requests DEF IInv, TypeOK, ResultVerified, HasFinalTag
    <2>2. LastTag(result) = Product(Servers) /\ Servers \cap request.wrong = {}
      BY <2>1, ProofsGiveTag DEF ProvenByAll
    <2>3. FinalTag(result) = LastTag(result)
      BY <2>1 DEF FinalTag, LastTag, TagBefore
    <2> QED BY <2>1, <2>2, <2>3 DEF Product, LinkageTag, ClientRequests
  <1> QED BY <1>1, Invariant, PTL

(* With at least two servers the leader does not reach the nil             *)
(* acceptContext.  Auth refuses a context that is not served, and a        *)
(* context is served only when it has two servers at least, by             *)
(* LoneServerServesNothing of ContextGeneration_proofs.                    *)
THEOREM LeaderIsNotReentered ==
    ASSUME N > 1
    PROVE  Spec => []LeaderNotReentered
  <1>1. Init => CountInv
    BY DEF Init, CountInv
  <1>2. CountInv => LeaderNotReentered
    BY DEF CountInv, LeaderNotReentered, Honest
  <1> QED BY <1>1, <1>2, Invariant, CountStep, PTL DEF Spec

(* When all servers follow the protocol, and so does the client, no server *)
(* finds anything wrong in the message of another.  For a client that does *)
(* not, the code does refuse such messages (run au_misbehaving).           *)
THEOREM HonestAreAccepted == Spec => []HonestMessagesAccepted
  <1>1. Init => CountInv /\ ValidInv
    BY DEF Init, CountInv, ValidInv
  <1>2. IInv /\ ValidInv => HonestMessagesAccepted
    BY DEF IInv, TypeOK, ValidInv, HonestMessagesAccepted, Honest
  <1> QED BY <1>1, <1>2, Invariant, CountStep, ValidStep, PTL DEF Spec

(* Servers that follow the protocol keep the promise of TagAgreement: the  *)
(* message gathers the servers one by one, each once; the tag is agreed on *)
(* when it has all of them, is that of the client whoever was asked, and   *)
(* never changes; a message that is lost or refused is not started again;  *)
(* and Auth answers once, with a tag only when there is one.  Faulty ones  *)
(* can break it: neither repeated nor missing entries are refused.         *)
THEOREM ProtocolKeepsPromise == Spec => ImplementsTagAgreement
  <1> DEFINE noTag == Tag("none", Zero)
             client == Judged(request)
             contributed == Contrib(result, msgs, waiter)
             tag == IF result = <<>> THEN noTag ELSE FinalTag(result)
             answer == CASE waiter = "replied" -> "tag"
                         [] waiter = "failed" -> "error"
                         [] OTHER -> "none"
             of == [unproven |-> OtherTag, honest |-> LinkageTag, misbehaving |-> NullTag]
  <1>1. Init => Agreed!Init
    BY DEF Init, Agreed!Init, Judged
  <1> DEFINE HonestOneMessage == Honest => OneMessage
  <1>2. IInv /\ HonestOneMessage /\ IInv' /\ HonestOneMessage' /\ [Next]_<<vars, faults>>
          => [faults.faulty = {} => Agreed!Next]_(Agreed!vars)
    <2>0. Honest /\ [Next]_<<vars, faults>> => Honest'
      BY Fixed DEF Honest
    <2> SUFFICES ASSUME IInv, OneMessage, IInv', OneMessage', [Next]_<<vars, faults>>, Honest
                 PROVE  Agreed!Next \/ UNCHANGED <<client, contributed, tag, answer>>
      BY <2>0 DEF Agreed!vars, Contrib, Honest
    <2>1. leader \in Nodes /\ leader' = leader /\ request' = request /\ client' = client
      BY Requests, Fixed DEF IInv
    <2>honest. Honest /\ Honest'
      BY <2>0
    <2>2. result' = result => tag' = tag
      OBVIOUS
    <2>3. waiter' = waiter => answer' = answer
      OBVIOUS
    <2>4. /\ answer = "none" <=> waiter \notin {"replied", "failed"}
          /\ waiter' = "replied" => answer' = "tag"
          /\ waiter' = "failed" => answer' = "error"
          /\ waiter' = "waiting" => answer' = "none"
      OBVIOUS
    <2>5. result = <<>> <=> tag = noTag
      <3>1. result # <<>> => tag \in {LinkageTag, NullTag}
        BY <2>honest DEF IInv, HonestResult, Honest
      <3>2. noTag \notin {LinkageTag, NullTag}
        BY DEF Tag, LinkageTag, NullTag
      <3> QED BY <3>1, <3>2
    <2>6. N \notin Servers
      BY NAssumption DEF Servers
    \* The steps of the promise.
    <2>contribute. ASSUME NEW j \in Servers, NEW S \in SUBSET Servers, j \notin S,
                          contributed = S, contributed' = S \cup {j}, request.proof,
                          UNCHANGED <<tag, answer>>
                   PROVE  Agreed!Next
      <3>1. S # {N}
        BY <2>6
      <3>2. client \notin {"unproven"}
        BY <2>contribute DEF Judged
      <3> QED
        BY <2>1, <2>contribute, <3>1, <3>2 DEF Agreed!Next, Agreed!Contribute, Contrib
    <2>giveUp. ASSUME result = <<>>, contributed' = {N}, UNCHANGED <<tag, answer>>
               PROVE  Agreed!Next
      BY <2>1, <2>5, <2>giveUp DEF Agreed!Next, Agreed!GiveUp, Contrib
    <2>agree. ASSUME result = <<>>, contributed = Servers, contributed' = Servers,
                     tag' = of[client], UNCHANGED answer
              PROVE  Agreed!Next
      BY <2>1, <2>5, <2>agree DEF Agreed!Next, Agreed!Agree, Contrib
    <2>reply. ASSUME answer = "none", UNCHANGED <<tag, contributed>>,
                     (answer' = "tag" /\ result # <<>>) \/ answer' = "error"
              PROVE  Agreed!Next
      BY <2>1, <2>5, <2>reply DEF Agreed!Next, Agreed!Answer, Agreed!Refuse, Contrib
    <2>refuse. ASSUME answer = "none", contributed = {}, contributed' = {N},
                      answer' = "error", UNCHANGED tag
               PROVE  Agreed!Next
      BY <2>1, <2>refuse DEF Agreed!Next, Agreed!Refuse, Contrib
    <2> HIDE DEF client, contributed, tag, answer, noTag, of
    <2>7. UNCHANGED <<result, msgs, waiter>> => contributed' = contributed
      BY DEF contributed
    \* What the message says.
    <2>8. ASSUME NEW m \in msgs, result = <<>>
          PROVE  contributed = Served(m.entries)
      BY <2>8, ContribFacts DEF contributed, OneMessage
    <2>9. ASSUME NEW m \in msgs', result' = <<>>
          PROVE  contributed' = Served(m.entries)
      BY <2>9, ContribFacts DEF contributed, OneMessage
    <2>10. ASSUME result' = <<>>, msgs' = {}, waiter' # "idle"
           PROVE  contributed' = {N}
      BY <2>10, ContribFacts DEF contributed
    <2>11. result # <<>> => contributed = Served(result)
      BY ContribFacts DEF contributed
    <2>12. result' # <<>> => contributed' = Served(result')
      BY ContribFacts DEF contributed
    <2>13. waiter # "idle" /\ waiter' # "idle" /\ UNCHANGED <<result, msgs>>
             => contributed' = contributed
      BY ContribFacts DEF contributed
    \* A server has extended the message.
    <2>14. ASSUME NEW n \in Nodes, NEW entries \in Seq(Entries), NEW e, request.proof,
                  ServerIndex[n] \notin Served(entries), contributed = Served(entries),
                  contributed' = Served(e), Served(e) = Served(entries) \cup {ServerIndex[n]},
                  UNCHANGED <<result, answer>>
           PROVE  Agreed!Next
      <3>1. ServerIndex[n] \in Servers
        BY NodeFacts
      <3>2. Served(entries) \subseteq Servers
        <4>1. \A i \in DOMAIN entries : entries[i] \in Entries
          OBVIOUS
        <4> QED BY <4>1 DEF Served, Entries
      <3> QED BY <2>2, <2>contribute, <2>14, <3>1, <3>2
    <2>15. CASE UNCHANGED <<vars, faults>>
      BY <2>1, <2>2, <2>3, <2>7, <2>15 DEF vars
    <2>16. CASE Start
      <3>1. msgs = {} /\ result = <<>> /\ waiter = "idle" /\ result' = result
        BY <2>16 DEF Start, OneMessage
      <3>2. contributed = {} /\ answer = "none"
        BY <2>4, <3>1, ContribFacts DEF contributed
      <3>3. CASE waiter' = "failed" /\ UNCHANGED msgs
        BY <2>2, <2>4, <2>10, <2>refuse, <3>1, <3>2, <3>3
      <3>4. ASSUME Accepts(request, <<>>), NEW e \in Extended(leader, <<>>),
                   msgs' = msgs \cup SendToNextServer(leader, e), waiter' = "waiting"
            PROVE  Agreed!Next \/ UNCHANGED <<client, contributed, tag, answer>>
        <4>1. NextServer(leader) \in Nodes \ {NoNode}
          BY <2>1, RingFromLeader
        <4>2. PICK m \in msgs' : m.entries = e
          <5> DEFINE m == [type |-> "ServerMsg", to |-> NextServer(leader), entries |-> e]
          <5>1. m \in SendToNextServer(leader, e)
            BY <4>1 DEF SendToNextServer
          <5>2. m \in msgs' /\ m.entries = e
            BY <3>4, <5>1
          <5> QED BY <5>2
        <4>3. contributed' = Served(e)
          BY <2>9, <3>1, <4>2
        <4>4. Served(e) = {ServerIndex[leader]}
          BY <2>1, <2>honest, Requests, EmptyMessage, Extending DEF IInv, RightTag
        <4>5. request.proof /\ answer' = answer
          BY <2>4, <3>2, <3>4 DEF Accepts
        <4>6. <<>> \in Seq(Entries) /\ Served(<<>>) = {}
          BY EmptyMessage
        <4> QED BY <2>1, <2>14, <3>1, <3>2, <4>3, <4>4, <4>5, <4>6
      <3> QED BY <2>16, <3>3, <3>4 DEF Start
    <2>17. CASE PublishResult
      <3>1. /\ waiter = "waiting" /\ waiter' = "replied" /\ UNCHANGED <<result, msgs>>
            /\ phase[leader] = "publishing"
        BY <2>17 DEF PublishResult
      <3>2. result # <<>>
        BY <3>1 DEF OneMessage
      <3> QED BY <2>2, <2>4, <2>13, <2>reply, <3>1, <3>2
    <2>18. CASE WaitTimeout
      <3>1. waiter = "waiting" /\ waiter' = "failed" /\ UNCHANGED <<result, msgs>>
        BY <2>18 DEF WaitTimeout
      <3> QED BY <2>2, <2>4, <2>13, <2>reply, <3>1
    <2>19. CASE HandleServerMsgOnLeader
      <3>1. PICK m \in Inbox(leader, "ServerMsg") : msgs' = msgs \ {m}
        BY <2>19 DEF HandleServerMsgOnLeader
      <3>2. UNCHANGED <<result, waiter>>
        BY <2>19 DEF HandleServerMsgOnLeader
      <3>3. msgs' = {} /\ result = <<>> /\ waiter # "idle"
        BY <3>1, OnlyInRing
      <3> QED BY <2>2, <2>3, <2>10, <2>giveUp, <3>2, <3>3
    <2>20. ASSUME NEW n \in Nodes, HandleServerMsg(n)
           PROVE  Agreed!Next \/ UNCHANGED <<client, contributed, tag, answer>>
      <3>1. PICK m \in Inbox(n, "ServerMsg") :
              \/ msgs' = msgs \ {m}
              \/ /\ Accepts(request, m.entries)
                 /\ \E e \in Extended(n, m.entries) :
                      \/ msgs' = (msgs \ {m}) \cup SendToNextServer(n, e)
                      \/ \E errs : msgs' = (msgs \ {m}) \cup SendFinished(n, e, errs)
        BY <2>20 DEF HandleServerMsg
      <3>2. /\ msgs = {m} /\ result = <<>> /\ request.proof /\ waiter # "idle"
            /\ m \in msgs /\ m.entries \in Seq(Entries)
        BY OnlyInRing DEF IInv, TypeOK, Messages
      <3>3. UNCHANGED <<result, waiter>> /\ n # leader
        BY <2>20 DEF HandleServerMsg
      <3>4. CASE msgs' = {}
        BY <2>2, <2>3, <2>10, <2>giveUp, <3>2, <3>3, <3>4
      <3>5. ASSUME Accepts(request, m.entries), NEW e \in Extended(n, m.entries),
                   NEW o \in msgs', o.entries = e
            PROVE  Agreed!Next \/ UNCHANGED <<client, contributed, tag, answer>>
        <4>1. contributed = Served(m.entries) /\ contributed' = Served(e)
          BY <2>8, <2>9, <3>2, <3>3, <3>5
        <4>2. ServerIndex[n] \notin Served(m.entries)
          BY <2>honest, <3>3, <3>5, MadeByChild
        <4>3. ServedOnce(m.entries) /\ RightTag(m.entries) /\ request \in ClientRequests
          BY <2>honest, <3>2, Requests DEF IInv, MsgInv
        <4>4. Served(e) = Served(m.entries) \cup {ServerIndex[n]}
          BY <2>honest, <3>2, <3>5, <4>2, <4>3, Extending
        <4> QED BY <2>3, <2>14, <3>2, <3>3, <4>1, <4>2, <4>4
      <3>6. CASE msgs' # {}
        <4>1. PICK o \in msgs' : TRUE
          BY <3>6
        <4>2. PICK e \in Extended(n, m.entries) :
                /\ Accepts(request, m.entries)
                /\ \/ o \in SendToNextServer(n, e)
                   \/ \E errs : o \in SendFinished(n, e, errs)
          BY <3>1, <3>2, <4>1
        <4>3. o.entries = e
          BY <4>2, OnlyNext, ToOthers
        <4> QED BY <3>5, <4>2, <4>3
      <3> QED BY <3>4, <3>6
    <2>21. ASSUME NEW n \in Nodes, HandleFinishedServerMsg(n)
           PROVE  Agreed!Next \/ UNCHANGED <<client, contributed, tag, answer>>
      <3>1. PICK m \in Inbox(n, "FinishedServerMsg") :
              /\ msgs' = msgs \ {m}
              /\ \/ /\ n = leader /\ phase[n] \in {"idle", "forwarded"}
                    /\ HasFinalTag(request, m.entries) /\ result' = m.entries
                 \/ result' = result
        BY <2>21 DEF HandleFinishedServerMsg
      <3>2. waiter' = waiter /\ answer' = answer
        BY <2>3, <2>21 DEF HandleFinishedServerMsg
      <3>3. /\ m \in msgs /\ ServedOnce(m.entries) /\ Len(m.entries) = N
            /\ m.entries \in Seq(Entries) /\ request.proof
            /\ \A o \in msgs : o.entries = m.entries
        BY <2>honest, OnlyFinished
      <3>4. waiter # "idle"
        BY <3>3 DEF OneMessage
      <3>5. CASE result' = result
        <4>1. CASE result # <<>>
          BY <2>1, <2>2, <2>11, <2>12, <3>2, <3>5, <4>1
        <4>2. CASE result = <<>> /\ msgs' = {}
          BY <2>2, <2>10, <2>giveUp, <3>2, <3>4, <3>5, <4>2
        <4>3. CASE result = <<>> /\ msgs' # {}
          <5>1. PICK o \in msgs' : TRUE
            BY <4>3
          <5>2. o \in msgs /\ o.entries = m.entries
            BY <3>1, <3>3, <5>1
          <5>3. contributed = Served(m.entries) /\ contributed' = Served(m.entries)
            BY <2>8, <2>9, <3>3, <3>5, <4>3, <5>2
          <5> QED BY <2>1, <2>2, <3>2, <3>5, <5>3
        <4> QED BY <4>1, <4>2, <4>3
      <3>6. CASE n = leader /\ phase[n] \in {"idle", "forwarded"}
                   /\ HasFinalTag(request, m.entries) /\ result' = m.entries
        <4>1. result = <<>> /\ result' # <<>>
          BY <3>6 DEF OneMessage, HasFinalTag
        <4>2. Served(m.entries) = Servers
          BY <3>3, AllServed
        <4>3. contributed = Servers /\ contributed' = Servers
          BY <2>8, <2>12, <3>3, <3>6, <4>1, <4>2
        <4>4. FinalTag(result') = IF request.wrong = {} THEN LinkageTag ELSE NullTag
          BY <2>1, <2>honest, <4>1 DEF IInv, HonestResult, Honest
        <4>5. tag' = of[client]
          BY <3>3, <4>1, <4>4 DEF tag, of, client, Judged
        <4> QED BY <2>agree, <3>2, <4>1, <4>3, <4>5
      <3> QED BY <3>1, <3>5, <3>6
    <2>22. ASSUME NEW n \in Nodes, Crash(n)
           PROVE  UNCHANGED <<client, contributed, tag, answer>>
      BY <2>1, <2>2, <2>3, <2>7, <2>22 DEF Crash
    <2> QED
      BY <2>15, <2>16, <2>17, <2>18, <2>19, <2>20, <2>21, <2>22 DEF Next, LeaderStep, NodeStep
  <1>3. Init => HonestOneMessage
    BY LeadersAssumption DEF Init, OneMessage
  <1>4. IInv /\ HonestOneMessage /\ [Next]_<<vars, faults>> => HonestOneMessage'
    BY OneMessageStep, Fixed DEF Honest
  <1> QED
    BY <1>1, <1>2, <1>3, <1>4, Invariant, PTL DEF Spec, ImplementsTagAgreement
=============================================================================
