------------------------- MODULE DagaSocket_proofs -------------------------
(***************************************************************************)
(* Proofs about the web sockets of the JavaScript library, for any number  *)
(* of conodes and of requests.                                             *)
(***************************************************************************)
EXTENDS DagaSocket, FiniteSetTheorems, TLAPS

InQueue(queue, r) == \E k \in 1 .. Len(queue) : queue[k] = r
Increasing(queue) == \A k, l \in 1 .. Len(queue) : k < l => queue[k] < queue[l]

(* The requests a socket has not brought the reply to.                     *)
UnderWay(s, r) == InQueue(s.toPage, r) \/ InQueue(s.toConode, r) \/ InQueue(s.onOpen, r)

----------------------------------------------------------------------------
(* What is where, by the state of the socket.                              *)
Stages(s) ==
    /\ s.readyState # Connecting => s.onOpen = <<>>
    /\ s.readyState # Open => s.toConode = <<>> /\ s.toPage = <<>>

(* Requests are under way in the order in which they were made.            *)
InTurn(s) ==
    /\ Increasing(s.onOpen) /\ Increasing(s.toConode) /\ Increasing(s.toPage)
    /\ \A q, r \in Requests : InQueue(s.toPage, q) /\ InQueue(s.toConode, r) => q < r

(* The requests that listen on socket i are its own and were told nothing  *)
(* yet; theirs are under way, and one that was alone is the first of them. *)
Listening(i, s, all) ==
    \A r \in s.onMessage :
        /\ r \in DOMAIN all /\ all[r].socket = i /\ all[r].replies = {}
        /\ SiToWs(all[r].conode) = s.address
        /\ s.readyState \in {Connecting, Open} => UnderWay(s, r)
        /\ all[r].alone => \A q \in Requests : UnderWay(s, q) => r <= q

OfSocket(i, s, all) ==
    /\ Stages(s) /\ InTurn(s) /\ Listening(i, s, all)
    /\ \A r \in Requests : UnderWay(s, r) => r <= Len(all)

(* What a request may have been told.                                      *)
Answered(r, request) ==
    \/ request.replies = {}
    \/ \E reply \in Replies :
         /\ request.replies = {reply}
         /\ reply.by = request.conode /\ reply.of <= r
         /\ request.alone => reply.of = r

IInv ==
    /\ TypeOK
    /\ Len(sockets) <= Len(requests)
    /\ \A a \in Addresses : kept[a] # NoSocket => sockets[kept[a]].address = a
    /\ \A i \in DOMAIN sockets : OfSocket(i, sockets[i], requests)
    /\ \A r \in DOMAIN requests : Answered(r, requests[r])

----------------------------------------------------------------------------
(* Queues of requests.                                                     *)
LEMMA EmptyQueue == Increasing(<<>>) /\ \A r : ~InQueue(<<>>, r)
  BY DEF Increasing, InQueue

LEMMA AppendQueue ==
    ASSUME NEW queue \in Seq(Requests), Increasing(queue), NEW x \in Requests,
           \A r \in Requests : InQueue(queue, r) => r < x
    PROVE  /\ Append(queue, x) \in Seq(Requests) /\ Increasing(Append(queue, x))
           /\ \A r : InQueue(Append(queue, x), r) <=> InQueue(queue, r) \/ r = x
  <1>1. /\ Append(queue, x) \in Seq(Requests)
        /\ Len(queue) \in Nat /\ Len(Append(queue, x)) = Len(queue) + 1
        /\ Append(queue, x)[Len(queue) + 1] = x
        /\ \A k \in 1 .. Len(queue) :
             Append(queue, x)[k] = queue[k] /\ queue[k] \in Requests
    OBVIOUS
  <1>2. \A k \in 1 .. Len(queue) : queue[k] < x
    BY <1>1 DEF InQueue
  <1>3. PICK n \in Nat : n = Len(queue)
    BY <1>1
  <1>4. PICK longer : longer = Append(queue, x)
    OBVIOUS
  <1>5. \A k \in 1 .. n + 1 : k = n + 1 \/ k \in 1 .. n
    BY <1>3
  <1>6. Increasing(longer)
    <2>1. ASSUME NEW k \in 1 .. n + 1, NEW l \in 1 .. n + 1, k < l
          PROVE  longer[k] < longer[l]
      <3>1. k \in 1 .. n
        BY <2>1, <1>3
      <3>2. CASE l = n + 1
        BY <1>1, <1>2, <1>3, <1>4, <3>1, <3>2
      <3>3. CASE l \in 1 .. n
        BY <1>1, <1>3, <1>4, <2>1, <3>1, <3>3 DEF Increasing
      <3> QED BY <1>5, <3>2, <3>3
    <2> QED BY <1>1, <1>3, <1>4, <2>1 DEF Increasing
  <1>7. ASSUME NEW r
        PROVE  InQueue(longer, r) <=> InQueue(queue, r) \/ r = x
    <2>1. ASSUME InQueue(longer, r) PROVE InQueue(queue, r) \/ r = x
      <3>1. PICK k \in 1 .. n + 1 : longer[k] = r
        BY <2>1, <1>1, <1>3, <1>4 DEF InQueue
      <3> QED BY <1>1, <1>3, <1>4, <1>5, <3>1 DEF InQueue
    <2>2. ASSUME InQueue(queue, r) PROVE InQueue(longer, r)
      <3>1. PICK k \in 1 .. n : queue[k] = r
        BY <2>2, <1>3 DEF InQueue
      <3>2. k \in 1 .. Len(longer) /\ longer[k] = r
        BY <1>1, <1>3, <1>4, <3>1
      <3> QED BY <3>2 DEF InQueue
    <2>3. InQueue(longer, x)
      BY <1>1, <1>3, <1>4 DEF InQueue
    <2> QED BY <2>1, <2>2, <2>3
  <1> QED BY <1>1, <1>4, <1>6, <1>7

LEMMA TailOfQueue ==
    ASSUME NEW queue \in Seq(Requests), Increasing(queue), queue # <<>>
    PROVE  /\ Head(queue) \in Requests /\ InQueue(queue, Head(queue))
           /\ Tail(queue) \in Seq(Requests) /\ Increasing(Tail(queue))
           /\ \A r : InQueue(Tail(queue), r) => InQueue(queue, r) /\ Head(queue) < r
           /\ \A r : InQueue(queue, r) => r = Head(queue) \/ InQueue(Tail(queue), r)
           /\ \A r : InQueue(queue, r) => Head(queue) <= r
  <1>1. /\ Len(queue) \in Nat \ {0} /\ Head(queue) = queue[1]
        /\ \A k \in 1 .. Len(queue) : queue[k] \in Requests
        /\ Tail(queue) \in Seq(Requests) /\ Len(Tail(queue)) = Len(queue) - 1
        /\ \A k \in 1 .. Len(queue) - 1 : Tail(queue)[k] = queue[k + 1]
    OBVIOUS
  <1>2. PICK n \in Nat \ {0} : n = Len(queue)
    BY <1>1
  <1>3. PICK first, rest : first = Head(queue) /\ rest = Tail(queue)
    OBVIOUS
  <1>4. /\ Len(rest) = n - 1 /\ first = queue[1] /\ first \in Requests
        /\ \A k \in 1 .. n - 1 : rest[k] = queue[k + 1] /\ k + 1 \in 1 .. n
    BY <1>1, <1>2, <1>3
  <1>5. \A k, l \in 1 .. n : k < l => queue[k] < queue[l]
    BY <1>2 DEF Increasing
  <1>6. Increasing(rest)
    BY <1>4, <1>5 DEF Increasing
  <1>7. ASSUME NEW r, InQueue(rest, r)
        PROVE  InQueue(queue, r) /\ first < r
    <2>1. PICK k \in 1 .. n - 1 : rest[k] = r
      BY <1>4, <1>7 DEF InQueue
    <2>2. k + 1 \in 1 .. n /\ queue[k + 1] = r /\ 1 \in 1 .. n /\ 1 < k + 1
      BY <1>4, <2>1
    <2> QED BY <1>2, <1>4, <1>5, <2>2 DEF InQueue
  <1>8. ASSUME NEW r, InQueue(queue, r)
        PROVE  r = first \/ InQueue(rest, r)
    <2>1. PICK k \in 1 .. n : queue[k] = r
      BY <1>2, <1>8 DEF InQueue
    <2>2. CASE k = 1
      BY <1>4, <2>1, <2>2
    <2>3. CASE k # 1
      <3>1. k - 1 \in 1 .. n - 1 /\ (k - 1) + 1 = k
        BY <2>3
      <3>2. rest[k - 1] = r
        BY <1>4, <2>1, <3>1
      <3> QED BY <1>4, <3>1, <3>2 DEF InQueue
    <2> QED BY <2>2, <2>3
  <1>9. first \in Int
    BY <1>4 DEF Requests
  <1>10. ASSUME NEW r, InQueue(queue, r)
         PROVE  first <= r
    <2>1. r \in Int
      BY <1>1, <1>10 DEF InQueue, Requests
    <2> QED BY <1>7, <1>8, <1>9, <1>10, <2>1
  <1>11. InQueue(queue, first)
    BY <1>2, <1>4 DEF InQueue
  <1> QED BY <1>1, <1>3, <1>4, <1>6, <1>7, <1>8, <1>10, <1>11

----------------------------------------------------------------------------
(* The conode at an address is the one the address was made from.          *)
LEMMA AddressOf ==
    ASSUME NEW c \in Conodes
    PROVE  /\ SiToWs(c) = Listens(c) /\ Listens(c) \in Addresses
           /\ (CHOOSE d \in Conodes : Listens(d) = SiToWs(c)) = c
  <1>1. \A d \in Conodes : d = [host |-> d.host, port |-> d.port] /\ d.port \in Nat
    BY ConodesAssumption
  <1>2. \A d \in Conodes : SiToWs(d) = Listens(d)
    BY <1>1 DEF SiToWs, Listens
  <1>3. ASSUME NEW d \in Conodes, Listens(d) = Listens(c)
        PROVE  d = c
    <2>1. d.host = c.host /\ d.port + 1 = c.port + 1
      BY <1>3 DEF Listens
    <2>2. d.port = c.port
      BY <1>1, <2>1
    <2> QED BY <1>1, <2>1, <2>2
  <1> QED BY <1>2, <1>3 DEF Addresses

LEMMA SocketParts ==
    ASSUME NEW s \in Socket
    PROVE  /\ s.onOpen \in Seq(Requests) /\ s.toConode \in Seq(Requests)
           /\ s.toPage \in Seq(Requests) /\ s.address \in Addresses
           /\ s.onMessage \subseteq Requests /\ s.onError \subseteq Requests
           /\ s.readyState \in {Connecting, Open, Closing, Closed}
  BY DEF Socket

(* The types of a sequence's items.                                        *)
LEMMA ItemType ==
    ASSUME NEW S, NEW s \in Seq(S), NEW i \in DOMAIN s
    PROVE  s[i] \in S
  OBVIOUS

LEMMA AppendItem ==
    ASSUME NEW S, NEW s \in Seq(S), NEW item \in S
    PROVE  /\ Append(s, item) \in Seq(S)
           /\ Len(s) \in Nat /\ Len(Append(s, item)) = Len(s) + 1
           /\ DOMAIN s = 1 .. Len(s) /\ DOMAIN Append(s, item) = 1 .. Len(s) + 1
           /\ Append(s, item)[Len(s) + 1] = item
           /\ \A p \in 1 .. Len(s) : Append(s, item)[p] = s[p]
  OBVIOUS

LEMMA Made ==
    ASSUME TypeOK
    PROVE  /\ Len(requests) \in Nat /\ DOMAIN requests = 1 .. Len(requests)
           /\ Len(sockets) \in Nat /\ DOMAIN sockets = 1 .. Len(sockets)
           /\ \A r \in DOMAIN requests : r \in Requests /\ requests[r] \in Request
           /\ \A i \in DOMAIN sockets : i \in SocketIds /\ sockets[i] \in Socket
  BY RequestsAssumption DEF TypeOK, Requests, SocketIds

(* A step of one socket that changes nothing of the requests but what its  *)
(* listeners are told.                                                     *)
SameRequests(some) ==
    /\ DOMAIN requests' = DOMAIN requests
    /\ \A r \in DOMAIN requests :
         /\ requests'[r].conode = requests[r].conode
         /\ requests'[r].socket = requests[r].socket
         /\ requests'[r].alone = requests[r].alone
         /\ r \notin some => requests'[r].replies = requests[r].replies

LEMMA OneSocketChanges ==
    ASSUME IInv, NEW i \in DOMAIN sockets, NEW t \in Socket,
           sockets' = [sockets EXCEPT ![i] = t], UNCHANGED kept,
           t.address = sockets[i].address,
           requests' \in Seq(Request), Len(requests') = Len(requests),
           SameRequests(sockets[i].onMessage),
           OfSocket(i, t, requests'),
           \A r \in DOMAIN requests : Answered(r, requests'[r])
    PROVE  IInv'
  <1>1. /\ sockets' \in Seq(Socket) /\ Len(sockets') = Len(sockets)
        /\ DOMAIN sockets' = DOMAIN sockets
        /\ sockets'[i] = t
        /\ \A j \in DOMAIN sockets : j # i => sockets'[j] = sockets[j]
    BY DEF IInv, TypeOK
  <1>2. t.onOpen # <<>> => t.readyState = Connecting
    BY DEF OfSocket, Stages
  <1>3. TypeOK'
    BY <1>1, <1>2 DEF IInv, TypeOK
  <1>4. ASSUME NEW a \in Addresses, kept[a] # NoSocket
        PROVE  sockets'[kept[a]].address = a
    <2>1. kept[a] \in DOMAIN sockets
      <3>1. kept[a] \in SocketIds /\ kept[a] <= Len(sockets)
        BY <1>4 DEF IInv, TypeOK
      <3>2. kept[a] \in Nat \ {0}
        BY <3>1 DEF SocketIds
      <3> QED BY <3>1, <3>2, Made DEF IInv
    <2> QED BY <1>1, <1>4, <2>1 DEF IInv
  <1>5. ASSUME NEW j \in DOMAIN sockets, j # i
        PROVE  OfSocket(j, sockets[j], requests')
    <2>1. OfSocket(j, sockets[j], requests)
      BY DEF IInv
    <2>2. \A r \in sockets[j].onMessage :
            r \in DOMAIN requests /\ r \notin sockets[i].onMessage
      BY <1>5, <2>1 DEF IInv, OfSocket, Listening
    <2>3. Listening(j, sockets[j], requests')
      BY <2>1, <2>2 DEF OfSocket, Listening, SameRequests
    <2> QED BY <2>1, <2>3 DEF OfSocket
  <1>6. DOMAIN requests' = DOMAIN requests
    BY DEF SameRequests
  <1> QED BY <1>1, <1>3, <1>4, <1>5, <1>6 DEF IInv

(* Nothing is told to anyone.                                              *)
LEMMA OnlySocketChanges ==
    ASSUME IInv, NEW i \in DOMAIN sockets, NEW t \in Socket,
           sockets' = [sockets EXCEPT ![i] = t], UNCHANGED <<kept, requests>>,
           t.address = sockets[i].address, OfSocket(i, t, requests)
    PROVE  IInv'
  <1>1. requests' \in Seq(Request) /\ Len(requests') = Len(requests)
    BY DEF IInv, TypeOK
  <1>2. SameRequests(sockets[i].onMessage)
    BY DEF SameRequests
  <1>3. \A r \in DOMAIN requests : Answered(r, requests'[r])
    BY DEF IInv
  <1> QED BY <1>1, <1>2, <1>3, OneSocketChanges

----------------------------------------------------------------------------
(* The steps.                                                              *)
LEMMA InitInv == Init => IInv
  <1> SUFFICES ASSUME Init
               PROVE  IInv
    OBVIOUS
  <1>1. TypeOK
    BY RequestsAssumption DEF Init, TypeOK, NoSockets, NoSocket
  <1> QED BY <1>1 DEF Init, IInv, NoSockets

LEMMA OnOpenInv == ASSUME IInv, NEW i \in DOMAIN sockets, OnOpen(i) PROVE IInv'
  <1>1. PICK s : s = sockets[i] /\ s \in Socket /\ OfSocket(i, s, requests)
    BY Made DEF IInv
  <1>2. PICK t : /\ t = [s EXCEPT !.readyState = Open, !.onOpen = <<>>, !.toConode = s.onOpen]
                 /\ sockets' = [sockets EXCEPT ![i] = t]
    BY <1>1 DEF OnOpen
  <1>3. /\ t \in Socket /\ t.address = s.address /\ t.onMessage = s.onMessage
        /\ t.readyState = Open /\ t.onOpen = <<>> /\ t.toConode = s.onOpen
        /\ t.toPage = s.toPage
    <2>1. <<>> \in Seq(Requests) /\ s.onOpen \in Seq(Requests)
      BY <1>1, SocketParts
    <2> QED BY <1>1, <1>2, <2>1 DEF Socket
  <1>4. s.readyState = Connecting /\ s.toPage = <<>> /\ s.toConode = <<>>
    BY <1>1 DEF OnOpen, OfSocket, Stages, Connecting, Open
  <1>5. \A r : UnderWay(t, r) <=> UnderWay(s, r)
    BY <1>3, <1>4 DEF UnderWay
  <1>6. OfSocket(i, t, requests)
    <2>1. Stages(t)
      BY <1>3 DEF Stages, Connecting, Open
    <2>2. InTurn(t)
      BY <1>1, <1>3, <1>4, EmptyQueue DEF OfSocket, InTurn
    <2>3. Listening(i, t, requests)
      BY <1>1, <1>3, <1>4, <1>5 DEF OfSocket, Listening
    <2> QED BY <1>1, <1>5, <2>1, <2>2, <2>3 DEF OfSocket
  <1> QED BY <1>1, <1>2, <1>3, <1>6, OnlySocketChanges DEF OnOpen

LEMMA OnCloseInv == ASSUME IInv, NEW i \in DOMAIN sockets, OnClose(i) PROVE IInv'
  <1>1. PICK s : s = sockets[i] /\ s \in Socket /\ OfSocket(i, s, requests)
    BY Made DEF IInv
  <1>2. PICK t : /\ t = [s EXCEPT !.readyState = Closed]
                 /\ sockets' = [sockets EXCEPT ![i] = t]
    BY <1>1 DEF OnClose
  <1>3. /\ t \in Socket /\ t.address = s.address /\ t.onMessage = s.onMessage
        /\ t.readyState = Closed /\ t.onOpen = s.onOpen /\ t.toConode = s.toConode
        /\ t.toPage = s.toPage
    BY <1>1, <1>2 DEF Socket
  <1>4. s.readyState = Closing
    BY <1>1 DEF OnClose
  <1>5. \A r : UnderWay(t, r) <=> UnderWay(s, r)
    BY <1>3 DEF UnderWay
  <1>6. OfSocket(i, t, requests)
    <2>1. Stages(t)
      BY <1>1, <1>3, <1>4 DEF OfSocket, Stages, Connecting, Open, Closing, Closed
    <2>2. InTurn(t)
      BY <1>1, <1>3 DEF OfSocket, InTurn
    <2>3. Listening(i, t, requests)
      BY <1>1, <1>3, <1>5 DEF OfSocket, Listening, Connecting, Open, Closed
    <2> QED BY <1>1, <1>5, <2>1, <2>2, <2>3 DEF OfSocket
  <1> QED BY <1>1, <1>2, <1>3, <1>6, OnlySocketChanges DEF OnClose

LEMMA ConodeRepliesInv == ASSUME IInv, NEW i \in DOMAIN sockets, ConodeReplies(i) PROVE IInv'
  <1>1. PICK s : s = sockets[i] /\ s \in Socket /\ OfSocket(i, s, requests)
    BY Made DEF IInv
  <1>2. PICK first, rest, longer :
          /\ first = Head(s.toConode) /\ rest = Tail(s.toConode)
          /\ longer = Append(s.toPage, first)
    OBVIOUS
  <1>3. PICK t : /\ t = [s EXCEPT !.toConode = rest, !.toPage = longer]
                 /\ sockets' = [sockets EXCEPT ![i] = t]
    BY <1>1, <1>2 DEF ConodeReplies
  <1>4. s.readyState = Open /\ s.toConode # <<>> /\ s.onOpen = <<>>
    BY <1>1 DEF ConodeReplies, OfSocket, Stages, Connecting, Open
  <1>5. /\ first \in Requests /\ InQueue(s.toConode, first)
        /\ rest \in Seq(Requests) /\ Increasing(rest)
        /\ \A r : InQueue(rest, r) => InQueue(s.toConode, r) /\ first < r
        /\ \A r : InQueue(s.toConode, r) => r = first \/ InQueue(rest, r)
    BY <1>1, <1>2, <1>4, SocketParts, TailOfQueue DEF OfSocket, InTurn
  <1>6. /\ longer \in Seq(Requests) /\ Increasing(longer)
        /\ \A r : InQueue(longer, r) <=> InQueue(s.toPage, r) \/ r = first
    <2>1. \A r \in Requests : InQueue(s.toPage, r) => r < first
      BY <1>1, <1>5 DEF OfSocket, InTurn
    <2> QED BY <1>1, <1>2, <1>5, <2>1, SocketParts, AppendQueue DEF OfSocket, InTurn
  <1>7. /\ t \in Socket /\ t.address = s.address /\ t.onMessage = s.onMessage
        /\ t.readyState = Open /\ t.onOpen = <<>> /\ t.toConode = rest /\ t.toPage = longer
    BY <1>1, <1>3, <1>4, <1>5, <1>6 DEF Socket
  <1>8. \A r : UnderWay(t, r) <=> UnderWay(s, r)
    BY <1>4, <1>5, <1>6, <1>7 DEF UnderWay
  <1>9. OfSocket(i, t, requests)
    <2>1. Stages(t)
      BY <1>7 DEF Stages, Connecting, Open
    <2>2. \A q, r \in Requests : InQueue(longer, q) /\ InQueue(rest, r) => q < r
      BY <1>1, <1>5, <1>6 DEF OfSocket, InTurn
    <2>3. InTurn(t)
      BY <1>5, <1>6, <1>7, <2>2, EmptyQueue DEF InTurn
    <2>4. Listening(i, t, requests)
      BY <1>1, <1>4, <1>7, <1>8 DEF OfSocket, Listening
    <2> QED BY <1>1, <1>8, <2>1, <2>3, <2>4 DEF OfSocket
  <1> QED BY <1>1, <1>3, <1>7, <1>9, OnlySocketChanges DEF ConodeReplies

(* What a record of some of the requests leaves as it is.                  *)
LEMMA SameAnswer ==
    ASSUME NEW r, NEW p, NEW q, Answered(r, p),
           q.conode = p.conode, q.alone = p.alone, q.replies = p.replies
    PROVE  Answered(r, q)
  <1>1. CASE p.replies = {}
    BY <1>1 DEF Answered
  <1>2. CASE p.replies # {}
    <2>1. PICK reply \in Replies : /\ p.replies = {reply}
                                   /\ reply.by = p.conode /\ reply.of <= r
                                   /\ p.alone => reply.of = r
      BY <1>2 DEF Answered
    <2>2. q.alone => reply.of = r
      BY <2>1
    <2> QED BY <2>1, <2>2 DEF Answered
  <1> QED BY <1>1, <1>2

LEMMA NothingTold ==
    ASSUME IInv, requests' \in [DOMAIN requests -> Request],
           \A r \in DOMAIN requests :
             /\ requests'[r].conode = requests[r].conode
             /\ requests'[r].socket = requests[r].socket
             /\ requests'[r].alone = requests[r].alone
             /\ requests'[r].replies = requests[r].replies
    PROVE  /\ requests' \in Seq(Request) /\ Len(requests') = Len(requests)
           /\ \A some : SameRequests(some)
           /\ \A r \in DOMAIN requests : Answered(r, requests'[r])
  <1>1. requests' \in Seq(Request) /\ Len(requests') = Len(requests)
    BY Made DEF IInv
  <1>2. \A some : SameRequests(some)
    BY DEF SameRequests
  <1>3. \A r \in DOMAIN requests : Answered(r, requests'[r])
    BY SameAnswer DEF IInv
  <1> QED BY <1>1, <1>2, <1>3

LEMMA ConodeClosesInv == ASSUME IInv, NEW i \in DOMAIN sockets, ConodeCloses(i) PROVE IInv'
  <1>1. PICK s : s = sockets[i] /\ s \in Socket /\ OfSocket(i, s, requests)
    BY Made DEF IInv
  <1>2. PICK t : /\ t = [s EXCEPT !.readyState = Closing, !.toConode = <<>>]
                 /\ sockets' = [sockets EXCEPT ![i] = t]
    BY <1>1 DEF ConodeCloses
  <1>3. s.readyState = Open /\ s.toPage = <<>> /\ s.onOpen = <<>>
    BY <1>1 DEF ConodeCloses, OfSocket, Stages, Connecting, Open
  <1>4. /\ t \in Socket /\ t.address = s.address /\ t.onMessage = s.onMessage
        /\ t.readyState = Closing /\ t.onOpen = <<>> /\ t.toConode = <<>> /\ t.toPage = <<>>
    <2>1. <<>> \in Seq(Requests)
      OBVIOUS
    <2> QED BY <1>1, <1>2, <1>3, <2>1 DEF Socket
  <1>5. /\ requests' \in [DOMAIN requests -> Request]
        /\ \A r \in DOMAIN requests :
             /\ requests'[r].conode = requests[r].conode
             /\ requests'[r].socket = requests[r].socket
             /\ requests'[r].alone = requests[r].alone
             /\ requests'[r].replies = requests[r].replies
    BY Made DEF IInv, ConodeCloses, Marked, Request
  <1>6. \A r : ~UnderWay(t, r)
    BY <1>4, EmptyQueue DEF UnderWay
  <1>7. OfSocket(i, t, requests')
    <2>1. Stages(t)
      BY <1>4 DEF Stages
    <2>2. InTurn(t)
      BY <1>4, EmptyQueue DEF InTurn
    <2>3. Listening(i, t, requests')
      BY <1>1, <1>4, <1>5, <1>6 DEF OfSocket, Listening, Connecting, Open, Closing
    <2> QED BY <1>6, <2>1, <2>2, <2>3 DEF OfSocket
  <1> QED BY <1>1, <1>2, <1>4, <1>5, <1>7, NothingTold, OneSocketChanges DEF ConodeCloses

LEMMA OnErrorInv == ASSUME IInv, NEW i \in DOMAIN sockets, OnError(i) PROVE IInv'
  <1>1. PICK s : s = sockets[i] /\ s \in Socket /\ OfSocket(i, s, requests)
    BY Made DEF IInv
  <1>2. PICK t : /\ t = [s EXCEPT !.readyState = Closed, !.onError = {},
                           !.onOpen = <<>>, !.toConode = <<>>, !.toPage = <<>>]
                 /\ sockets' = [sockets EXCEPT ![i] = t]
    BY <1>1 DEF OnError
  <1>3. /\ t \in Socket /\ t.address = s.address /\ t.onMessage = s.onMessage
        /\ t.readyState = Closed /\ t.onOpen = <<>> /\ t.toConode = <<>> /\ t.toPage = <<>>
    <2>1. <<>> \in Seq(Requests)
      OBVIOUS
    <2> QED BY <1>1, <1>2, <2>1 DEF Socket
  <1>4. /\ requests' \in [DOMAIN requests -> Request]
        /\ \A r \in DOMAIN requests :
             /\ requests'[r].conode = requests[r].conode
             /\ requests'[r].socket = requests[r].socket
             /\ requests'[r].alone = requests[r].alone
             /\ requests'[r].replies = requests[r].replies
    BY Made DEF IInv, OnError, Marked, Request
  <1>5. \A r : ~UnderWay(t, r)
    BY <1>3, EmptyQueue DEF UnderWay
  <1>6. OfSocket(i, t, requests')
    <2>1. Stages(t)
      BY <1>3 DEF Stages
    <2>2. InTurn(t)
      BY <1>3, EmptyQueue DEF InTurn
    <2>3. Listening(i, t, requests')
      BY <1>1, <1>3, <1>4, <1>5 DEF OfSocket, Listening, Connecting, Open, Closed
    <2> QED BY <1>5, <2>1, <2>2, <2>3 DEF OfSocket
  <1> QED BY <1>1, <1>2, <1>3, <1>4, <1>6, NothingTold, OneSocketChanges DEF OnError

LEMMA OnMessageInv == ASSUME IInv, NEW i \in DOMAIN sockets, OnMessage(i) PROVE IInv'
  <1>1. PICK s : s = sockets[i] /\ s \in Socket /\ OfSocket(i, s, requests)
    BY Made DEF IInv
  <1>2. PICK first, rest : first = Head(s.toPage) /\ rest = Tail(s.toPage)
    OBVIOUS
  <1>3. PICK t : /\ t = [s EXCEPT !.onMessage = {}, !.toPage = rest]
                 /\ sockets' = [sockets EXCEPT ![i] = t]
    BY <1>1, <1>2 DEF OnMessage
  <1>4. s.readyState = Open /\ s.toPage # <<>> /\ s.onOpen = <<>>
    BY <1>1 DEF OnMessage, OfSocket, Stages, Connecting, Open
  <1>5. /\ first \in Requests /\ InQueue(s.toPage, first)
        /\ rest \in Seq(Requests) /\ Increasing(rest)
        /\ \A r : InQueue(rest, r) => InQueue(s.toPage, r) /\ first < r
        /\ \A r : InQueue(s.toPage, r) => first <= r
    BY <1>1, <1>2, <1>4, SocketParts, TailOfQueue DEF OfSocket, InTurn
  <1>6. /\ t \in Socket /\ t.address = s.address /\ t.onMessage = {}
        /\ t.readyState = Open /\ t.onOpen = <<>> /\ t.toConode = s.toConode
        /\ t.toPage = rest
    BY <1>1, <1>3, <1>4, <1>5 DEF Socket
  <1>7. \A r : UnderWay(t, r) => UnderWay(s, r)
    BY <1>4, <1>5, <1>6 DEF UnderWay
  <1>8. PICK reply, conode :
          /\ reply = Reply(i) /\ reply = [of |-> first, by |-> conode]
          /\ conode = CHOOSE c \in Conodes : Listens(c) = s.address
    BY <1>1, <1>2 DEF Reply
  <1>9. reply \in Replies
    <2>1. \E c \in Conodes : Listens(c) = s.address
      BY <1>1, SocketParts, AddressOf DEF Addresses
    <2>2. conode \in Conodes
      BY <1>8, <2>1
    <2> QED BY <1>5, <1>8, <2>2 DEF Replies
  <1>10. /\ requests' \in [DOMAIN requests -> Request]
         /\ \A r \in DOMAIN requests :
              /\ requests'[r].conode = requests[r].conode
              /\ requests'[r].socket = requests[r].socket
              /\ requests'[r].alone = requests[r].alone
              /\ requests'[r].replies = IF r \in s.onMessage THEN requests[r].replies \cup {reply}
                                        ELSE requests[r].replies
    BY <1>1, <1>8, <1>9, Made DEF IInv, OnMessage, Marked, Request
  <1>11. requests' \in Seq(Request) /\ Len(requests') = Len(requests)
    BY <1>10, Made DEF IInv
  <1>12. SameRequests(s.onMessage)
    BY <1>10 DEF SameRequests
  <1>13. ASSUME NEW r \in DOMAIN requests
         PROVE  Answered(r, requests'[r])
    <2>1. CASE r \notin s.onMessage
      BY <1>10, <2>1, SameAnswer DEF IInv
    <2>2. CASE r \in s.onMessage
      <3>1. /\ requests[r].replies = {} /\ SiToWs(requests[r].conode) = s.address
            /\ UnderWay(s, r)
            /\ requests[r].alone => \A q \in Requests : UnderWay(s, q) => r <= q
        BY <1>1, <1>4, <2>2 DEF OfSocket, Listening
      <3>2. requests'[r].replies = {reply}
        BY <1>10, <2>2, <3>1
      <3>3. r \in Requests /\ requests[r].conode \in Conodes
        BY Made DEF IInv, Request
      <3>4. reply.by = requests[r].conode
        BY <1>8, <3>1, <3>3, AddressOf
      <3>5. first <= r
        <4>1. InQueue(s.toPage, r) \/ InQueue(s.toConode, r)
          BY <1>4, <3>1, EmptyQueue DEF UnderWay
        <4>2. InQueue(s.toConode, r) => first < r
          BY <1>1, <1>5, <3>3 DEF OfSocket, InTurn
        <4> QED BY <1>5, <3>3, <4>1, <4>2 DEF Requests
      <3>6. requests[r].alone => first = r
        <4>1. UnderWay(s, first)
          BY <1>5 DEF UnderWay
        <4>2. requests[r].alone => r <= first
          BY <1>5, <3>1, <4>1
        <4> QED BY <1>5, <3>3, <3>5, <4>2 DEF Requests
      <3>7. requests'[r].conode = requests[r].conode /\ requests'[r].alone = requests[r].alone
        BY <1>10
      <3>8. reply.of = first
        BY <1>8
      <3>9. /\ requests'[r].alone => reply.of = r
            /\ reply.of <= r /\ reply.by = requests'[r].conode
        BY <3>4, <3>5, <3>6, <3>7, <3>8
      <3> QED BY <1>9, <3>2, <3>9 DEF Answered
    <2> QED BY <2>1, <2>2
  <1>14. OfSocket(i, t, requests')
    <2>1. Stages(t)
      BY <1>6 DEF Stages, Connecting, Open
    <2>2. \A q, r \in Requests : InQueue(rest, q) /\ InQueue(s.toConode, r) => q < r
      BY <1>1, <1>5 DEF OfSocket, InTurn
    <2>3. InTurn(t)
      BY <1>1, <1>5, <1>6, <2>2, EmptyQueue DEF OfSocket, InTurn
    <2>4. Listening(i, t, requests')
      BY <1>6 DEF Listening
    <2> QED BY <1>1, <1>7, <1>11, <2>1, <2>3, <2>4 DEF OfSocket
  <1> QED BY <1>1, <1>3, <1>6, <1>11, <1>12, <1>13, <1>14, OneSocketChanges DEF OnMessage

(* A request goes to the end of the socket it is given.                    *)
LEMMA WithRequestOfSocket ==
    ASSUME NEW s \in Socket, NEW i, NEW all \in Seq(Request), OfSocket(i, s, all),
           NEW q \in Request, NEW r \in Requests, r = Len(all) + 1,
           q.socket = i, q.alone = Quiet(s), q.replies = {}, SiToWs(q.conode) = s.address,
           NEW t, t = WithRequest(s, r)
    PROVE  t \in Socket /\ t.address = s.address /\ OfSocket(i, t, Append(all, q))
  <1>1. PICK more : /\ more = Append(all, q) /\ Len(more) = r /\ more[r] = q
                    /\ DOMAIN all = 1 .. r - 1 /\ DOMAIN more = 1 .. r
                    /\ Len(all) \in Nat /\ Len(all) = r - 1
                    /\ \A p \in 1 .. r - 1 : more[p] = all[p]
    <2>1. PICK more : more = Append(all, q)
      OBVIOUS
    <2>2. /\ Len(all) \in Nat /\ Len(more) = Len(all) + 1
          /\ DOMAIN all = 1 .. Len(all) /\ DOMAIN more = 1 .. Len(all) + 1
          /\ more[Len(all) + 1] = q
          /\ \A p \in 1 .. Len(all) : more[p] = all[p]
      BY <2>1, AppendItem
    <2>3. Len(all) = r - 1
      BY <2>2
    <2> QED BY <2>1, <2>2, <2>3
  <1>2. /\ \A p \in Requests : UnderWay(s, p) => p < r
        /\ s.readyState # Connecting => s.onOpen = <<>>
        /\ s.readyState # Open => s.toConode = <<>> /\ s.toPage = <<>>
        /\ Increasing(s.onOpen) /\ Increasing(s.toConode) /\ Increasing(s.toPage)
        /\ r \in Nat
    BY <1>1 DEF OfSocket, Stages, InTurn, Requests
  <1>3. PICK opened : opened = Append(s.onOpen, r)
    OBVIOUS
  <1>4. PICK sent : sent = Append(s.toConode, r)
    OBVIOUS
  <1>5. /\ opened \in Seq(Requests) /\ Increasing(opened)
        /\ \A p : InQueue(opened, p) <=> InQueue(s.onOpen, p) \/ p = r
    <2>1. \A p \in Requests : InQueue(s.onOpen, p) => p < r
      BY <1>2 DEF UnderWay
    <2> QED BY <1>2, <1>3, <2>1, SocketParts, AppendQueue
  <1>6. /\ sent \in Seq(Requests) /\ Increasing(sent)
        /\ \A p : InQueue(sent, p) <=> InQueue(s.toConode, p) \/ p = r
    <2>1. \A p \in Requests : InQueue(s.toConode, p) => p < r
      BY <1>2 DEF UnderWay
    <2> QED BY <1>2, <1>4, <2>1, SocketParts, AppendQueue
  <1>7. /\ t.address = s.address /\ t.readyState = s.readyState /\ t.toPage = s.toPage
        /\ t.onMessage = s.onMessage \cup {r} /\ t.onError = s.onError \cup {r}
        /\ t.onOpen = IF s.readyState = Connecting THEN opened ELSE s.onOpen
        /\ t.toConode = IF s.readyState = Open THEN sent ELSE s.toConode
    BY <1>3, <1>4 DEF WithRequest, Socket
  <1>8. t \in Socket
    <2>1. t.onOpen \in Seq(Requests) /\ t.toConode \in Seq(Requests)
      BY <1>5, <1>6, <1>7, SocketParts
    <2> QED BY <1>7, <2>1 DEF WithRequest, Socket
  <1>9. /\ \A p : UnderWay(t, p) => UnderWay(s, p) \/ p = r
        /\ \A p : UnderWay(s, p) => UnderWay(t, p)
        /\ s.readyState \in {Connecting, Open} => UnderWay(t, r)
    BY <1>5, <1>6, <1>7 DEF UnderWay
  <1>10. Stages(t)
    BY <1>2, <1>7 DEF Stages, Connecting, Open
  <1>11. InTurn(t)
    <2>1. ASSUME NEW p \in Requests, NEW x \in Requests,
                 InQueue(t.toPage, p), InQueue(t.toConode, x)
          PROVE  p < x
      <3>1. InQueue(s.toPage, p) /\ p < r
        BY <1>2, <1>7, <2>1 DEF UnderWay
      <3>2. InQueue(s.toConode, x) \/ x = r
        BY <1>6, <1>7, <2>1
      <3> QED BY <3>1, <3>2 DEF OfSocket, InTurn
    <2> QED BY <1>2, <1>5, <1>6, <1>7, <2>1 DEF InTurn
  <1>12. Listening(i, t, more)
    <2>1. ASSUME NEW p \in s.onMessage
          PROVE  /\ p \in DOMAIN more /\ more[p].socket = i /\ more[p].replies = {}
                 /\ SiToWs(more[p].conode) = t.address
                 /\ t.readyState \in {Connecting, Open} => UnderWay(t, p)
                 /\ more[p].alone => \A x \in Requests : UnderWay(t, x) => p <= x
      <3>1. /\ p \in DOMAIN all /\ all[p].socket = i /\ all[p].replies = {}
            /\ SiToWs(all[p].conode) = s.address
            /\ s.readyState \in {Connecting, Open} => UnderWay(s, p)
            /\ all[p].alone => \A x \in Requests : UnderWay(s, x) => p <= x
        BY DEF OfSocket, Listening
      <3>2. p \in DOMAIN more /\ more[p] = all[p] /\ p <= r
        BY <1>1, <1>2, <3>1
      <3> QED BY <1>7, <1>9, <3>1, <3>2
    <2>2. q.alone => \A x \in Requests : UnderWay(t, x) => r <= x
      <3>1. ASSUME Quiet(s), NEW x \in Requests, UnderWay(t, x)
            PROVE  x = r
        BY <1>9, <3>1, EmptyQueue DEF UnderWay, Quiet
      <3>2. q.alone => Quiet(s)
        OBVIOUS
      <3> QED BY <1>2, <3>1, <3>2
    <2>3. /\ r \in DOMAIN more /\ more[r].socket = i /\ more[r].replies = {}
          /\ SiToWs(more[r].conode) = t.address
          /\ t.readyState \in {Connecting, Open} => UnderWay(t, r)
      BY <1>1, <1>2, <1>7, <1>9
    <2> QED BY <1>1, <1>7, <2>1, <2>2, <2>3 DEF Listening
  <1>13. \A p \in Requests : UnderWay(t, p) => p <= Len(more)
    BY <1>1, <1>2, <1>9 DEF Requests
  <1> QED BY <1>1, <1>7, <1>8, <1>10, <1>11, <1>12, <1>13 DEF OfSocket

(* Another socket is not touched by it.                                    *)
LEMMA MoreRequests ==
    ASSUME NEW s, NEW i, NEW all \in Seq(Request), OfSocket(i, s, all), NEW q \in Request
    PROVE  OfSocket(i, s, Append(all, q))
  <1>1. PICK more : /\ more = Append(all, q) /\ Len(more) = Len(all) + 1
                    /\ Len(all) \in Nat
                    /\ DOMAIN all = 1 .. Len(all) /\ DOMAIN more = 1 .. Len(all) + 1
                    /\ \A p \in DOMAIN all : p \in DOMAIN more /\ more[p] = all[p]
    <2>1. PICK more : more = Append(all, q)
      OBVIOUS
    <2>2. /\ Len(all) \in Nat /\ Len(more) = Len(all) + 1
          /\ DOMAIN all = 1 .. Len(all) /\ DOMAIN more = 1 .. Len(all) + 1
          /\ \A p \in 1 .. Len(all) : more[p] = all[p]
      BY <2>1, AppendItem
    <2> QED BY <2>1, <2>2
  <1>2. Listening(i, s, more)
    BY <1>1 DEF OfSocket, Listening
  <1>3. \A r \in Requests : UnderWay(s, r) => r <= Len(more)
    BY <1>1 DEF OfSocket, Requests
  <1> QED BY <1>1, <1>2, <1>3 DEF OfSocket

LEMMA NewSocketOfSocket ==
    ASSUME NEW a \in Addresses, NEW i, NEW all
    PROVE  /\ NewSocket(a) \in Socket /\ NewSocket(a).address = a
           /\ OfSocket(i, NewSocket(a), all)
  <1>1. <<>> \in Seq(Requests)
    OBVIOUS
  <1>2. PICK s : s = NewSocket(a)
    OBVIOUS
  <1>3. /\ s \in Socket /\ s.address = a /\ s.readyState = Connecting
        /\ s.onOpen = <<>> /\ s.toConode = <<>> /\ s.toPage = <<>> /\ s.onMessage = {}
    BY <1>1, <1>2 DEF NewSocket, Socket
  <1>4. Stages(s) /\ InTurn(s) /\ Listening(i, s, all) /\ \A r : ~UnderWay(s, r)
    BY <1>3, EmptyQueue DEF Stages, InTurn, Listening, UnderWay
  <1> QED BY <1>2, <1>3, <1>4 DEF OfSocket

(* The sockets there are when the request is given to one of them.         *)
LEMMA Given ==
    ASSUME IInv, NEW given \in {kept, NoSockets}, NEW a \in Addresses, given[a] # NoSocket
    PROVE  given = kept /\ given[a] \in DOMAIN sockets /\ sockets[given[a]].address = a
  <1>1. given = kept
    BY DEF NoSockets
  <1>2. kept[a] \in Nat \ {0} /\ kept[a] <= Len(sockets)
    BY <1>1 DEF IInv, TypeOK, SocketIds, NoSocket
  <1>3. kept[a] \in DOMAIN sockets
    BY <1>2, Made DEF IInv
  <1> QED BY <1>1, <1>3 DEF IInv

LEMMA CreateSocketInv ==
    ASSUME IInv, NEW c \in Conodes, NEW given \in {kept, NoSockets}, CreateSocket(c, given)
    PROVE  IInv'
  <1>1. PICK r, address : r = Len(requests) + 1 /\ address = SiToWs(c)
    OBVIOUS
  <1>2. PICK reuse \in BOOLEAN : reuse <=> Reusable(sockets, given[address])
    OBVIOUS
  <1>3. PICK id : id = IF reuse THEN given[address] ELSE Len(sockets) + 1
    OBVIOUS
  <1>4. PICK all : all = IF reuse THEN sockets ELSE Append(sockets, NewSocket(address))
    OBVIOUS
  <1>5. PICK q : q = [conode |-> c, socket |-> id, alone |-> Quiet(all[id]),
                      closed |-> all[id].readyState = Closing, replies |-> {}, failed |-> FALSE]
    OBVIOUS
  <1>6. /\ r <= MaxRequests
        /\ sockets' = [all EXCEPT ![id] = WithRequest(all[id], r)]
        /\ kept' = [given EXCEPT ![address] = id]
        /\ requests' = Append(requests, q)
    BY <1>1, <1>2, <1>3, <1>4, <1>5 DEF CreateSocket
  <1>7. address \in Addresses
    BY <1>1, AddressOf
  <1>8. /\ requests \in Seq(Request) /\ Len(requests) \in Nat
        /\ sockets \in Seq(Socket) /\ Len(sockets) \in Nat /\ DOMAIN sockets = 1 .. Len(sockets)
        /\ Len(sockets) <= Len(requests)
    BY Made DEF IInv, TypeOK
  <1>9. r \in Requests /\ r \in SocketIds /\ r \in Nat
    BY <1>1, <1>6, <1>8 DEF Requests, SocketIds
  <1>10. /\ all \in Seq(Socket) /\ id \in 1 .. Len(all) /\ Len(all) \in Nat
         /\ Len(sockets) <= Len(all) /\ Len(all) <= r
         /\ all[id].address = address
         /\ \A j \in 1 .. Len(all) : OfSocket(j, all[j], requests)
         /\ \A j \in 1 .. Len(sockets) : all[j] = sockets[j]
    <2>1. CASE reuse
      <3>1. all = sockets /\ id = given[address] /\ given[address] # NoSocket
        BY <1>2, <1>3, <1>4, <2>1 DEF Reusable
      <3>2. id \in 1 .. Len(sockets) /\ sockets[id].address = address
        BY <1>7, <1>8, <3>1, Given
      <3>3. \A j \in 1 .. Len(sockets) : OfSocket(j, sockets[j], requests)
        BY <1>8 DEF IInv
      <3> QED BY <1>1, <1>8, <1>9, <3>1, <3>2, <3>3
    <2>2. CASE ~reuse
      <3>1. all = Append(sockets, NewSocket(address)) /\ id = Len(sockets) + 1
        BY <1>3, <1>4, <2>2
      <3>2. /\ NewSocket(address) \in Socket /\ NewSocket(address).address = address
            /\ OfSocket(id, NewSocket(address), requests)
        BY <1>7, NewSocketOfSocket
      <3>3. /\ all \in Seq(Socket) /\ Len(all) = Len(sockets) + 1
            /\ all[id] = NewSocket(address)
            /\ \A j \in 1 .. Len(sockets) : all[j] = sockets[j]
        BY <1>8, <3>1, <3>2, AppendItem
      <3>4. \A j \in 1 .. Len(sockets) : OfSocket(j, all[j], requests)
        BY <1>8, <3>3 DEF IInv
      <3>5. \A j \in 1 .. Len(all) : j \in 1 .. Len(sockets) \/ j = id
        BY <1>8, <3>1, <3>3
      <3>6. id \in 1 .. Len(all) /\ Len(all) \in Nat /\ Len(sockets) <= Len(all) /\ Len(all) <= r
        BY <1>1, <1>8, <3>1, <3>3
      <3> QED BY <3>2, <3>3, <3>4, <3>5, <3>6
    <2> QED BY <2>1, <2>2
  <1>11. id \in SocketIds /\ id \in Nat /\ id <= Len(all)
    BY <1>6, <1>9, <1>10, RequestsAssumption DEF SocketIds
  <1>12. all[id] \in Socket
    BY <1>10, ItemType
  <1>13. /\ q \in Request /\ q.socket = id /\ q.alone = Quiet(all[id]) /\ q.replies = {}
         /\ SiToWs(q.conode) = all[id].address
    BY <1>1, <1>5, <1>10, <1>11 DEF Request, Quiet
  <1>14. PICK t : t = WithRequest(all[id], r)
    OBVIOUS
  <1>15. t \in Socket /\ t.address = address /\ OfSocket(id, t, requests')
    <2>1. PICK s : s = all[id]
      OBVIOUS
    <2>2. s \in Socket /\ OfSocket(id, s, requests) /\ t = WithRequest(s, r)
      BY <1>10, <1>12, <1>14, <2>1
    <2>3. /\ q \in Request /\ q.socket = id /\ q.alone = Quiet(s) /\ q.replies = {}
          /\ SiToWs(q.conode) = s.address /\ s.address = address
      BY <1>10, <1>13, <2>1
    <2>4. requests \in Seq(Request) /\ r \in Requests /\ r = Len(requests) + 1
      BY <1>1, <1>8, <1>9
    <2>5. t \in Socket /\ t.address = s.address /\ OfSocket(id, t, Append(requests, q))
      BY <2>2, <2>3, <2>4, WithRequestOfSocket
    <2> QED BY <1>6, <2>3, <2>5
  <1>16. \A j \in 1 .. Len(all) : OfSocket(j, all[j], requests')
    BY <1>6, <1>8, <1>10, <1>13, MoreRequests
  <1>17. /\ sockets' \in Seq(Socket) /\ Len(sockets') = Len(all)
         /\ DOMAIN sockets' = 1 .. Len(all) /\ sockets'[id] = t
         /\ \A j \in 1 .. Len(all) : j # id => sockets'[j] = all[j]
    BY <1>6, <1>10, <1>14, <1>15
  <1>18. \A j \in DOMAIN sockets' : OfSocket(j, sockets'[j], requests')
    BY <1>15, <1>16, <1>17
  <1>19. /\ requests' \in Seq(Request) /\ Len(requests') = r /\ DOMAIN requests' = 1 .. r
         /\ requests'[r] = q /\ \A p \in 1 .. r - 1 : requests'[p] = requests[p]
    <2>1. r - 1 = Len(requests)
      BY <1>1, <1>8
    <2> QED BY <1>1, <1>6, <1>8, <1>13, <2>1, AppendItem
  <1>20. \A p \in DOMAIN requests' : Answered(p, requests'[p])
    <2>1. Answered(r, q)
      BY <1>13 DEF Answered
    <2>2. \A p \in 1 .. r : p = r \/ p \in 1 .. r - 1
      BY <1>9
    <2>3. DOMAIN requests = 1 .. r - 1
      BY <1>1, <1>8
    <2> QED BY <1>19, <2>1, <2>2, <2>3 DEF IInv
  <1>21. /\ given \in [Addresses -> SocketIds \cup {NoSocket}]
         /\ \A a \in Addresses : given[a] <= Len(sockets)
    BY <1>8 DEF IInv, TypeOK, NoSockets, NoSocket
  <1>22. /\ kept' \in [Addresses -> SocketIds \cup {NoSocket}]
         /\ kept'[address] = id /\ \A a \in Addresses : a # address => kept'[a] = given[a]
    BY <1>6, <1>7, <1>11, <1>21
  <1>23. \A a \in Addresses : kept'[a] <= Len(sockets')
    <2>1. \A a \in Addresses : given[a] \in Nat
      BY <1>21 DEF SocketIds, NoSocket
    <2> QED BY <1>8, <1>10, <1>11, <1>17, <1>21, <1>22, <2>1
  <1>24. ASSUME NEW a \in Addresses, kept'[a] # NoSocket
         PROVE  sockets'[kept'[a]].address = a
    <2>1. CASE kept'[a] = id
      <3>1. a = address
        <4>1. CASE a # address
          <5>1. given[a] = id /\ given[a] # NoSocket
            BY <1>22, <1>24, <2>1, <4>1
          <5>2. id \in DOMAIN sockets /\ sockets[id].address = a
            BY <5>1, Given
          <5> QED BY <1>8, <1>10, <5>2
        <4> QED BY <4>1
      <3> QED BY <1>15, <1>17, <2>1, <3>1
    <2>2. CASE kept'[a] # id
      <3>1. kept'[a] = given[a]
        BY <1>22, <2>2
      <3>2. given[a] \in 1 .. Len(sockets) /\ sockets[given[a]].address = a
        BY <1>8, <1>24, <3>1, Given
      <3>3. given[a] \in 1 .. Len(all)
        BY <1>8, <1>10, <3>2
      <3> QED BY <1>10, <1>17, <2>2, <3>1, <3>2, <3>3
    <2> QED BY <2>1, <2>2
  <1>25. TypeOK'
    <2>1. Len(sockets') <= MaxRequests /\ Len(requests') <= MaxRequests
      BY <1>6, <1>9, <1>10, <1>17, <1>19, RequestsAssumption
    <2>2. \A i \in DOMAIN sockets' :
            sockets'[i].onOpen # <<>> => sockets'[i].readyState = Connecting
      BY <1>18 DEF OfSocket, Stages
    <2> QED BY <1>17, <1>19, <1>22, <1>23, <2>1, <2>2 DEF TypeOK
  <1>26. Len(sockets') <= Len(requests')
    BY <1>10, <1>17, <1>19
  <1> QED BY <1>18, <1>20, <1>24, <1>25, <1>26 DEF IInv

LEMMA NextInv == IInv /\ [Next]_vars => IInv'
  <1> SUFFICES ASSUME IInv, [Next]_vars
               PROVE  IInv'
    OBVIOUS
  <1>1. CASE \E c \in Conodes, given \in {kept, NoSockets} : CreateSocket(c, given)
    BY <1>1, CreateSocketInv
  <1>2. ASSUME NEW i \in DOMAIN sockets, BrowserStep(i)
        PROVE  IInv'
    BY <1>2, OnOpenInv, OnMessageInv, OnErrorInv, OnCloseInv DEF BrowserStep
  <1>3. ASSUME NEW i \in DOMAIN sockets, ConodeStep(i)
        PROVE  IInv'
    BY <1>3, ConodeRepliesInv, ConodeClosesInv DEF ConodeStep
  <1>4. CASE UNCHANGED vars
    BY <1>4 DEF vars, IInv, TypeOK
  <1> QED BY <1>1, <1>2, <1>3, <1>4 DEF Next

LEMMA Invariant == Spec => []IInv
  BY InitInv, NextInv, PTL DEF Spec

----------------------------------------------------------------------------
(* The sockets and the requests have their types, and a socket that is not *)
(* connecting keeps no message for its opening (bundle.js, createSocket).  *)
THEOREM TypeCorrect == Spec => []TypeOK
  <1>1. IInv => TypeOK
    BY DEF IInv
  <1> QED BY <1>1, Invariant, PTL

(* A request made when nothing is under way on its socket gets its own     *)
(* reply, from the conode it asked, whatever is asked on the socket later. *)
THEOREM AloneIsAnsweredForItself == Spec => []AloneGetsOwnReply
  <1>1. ASSUME IInv
        PROVE  AloneGetsOwnReply
    <2>1. ASSUME NEW r \in DOMAIN requests, requests[r].alone,
                 NEW reply \in requests[r].replies
          PROVE  reply = [of |-> r, by |-> requests[r].conode]
      <3>1. reply \in Replies /\ reply.by = requests[r].conode /\ reply.of = r
        BY <1>1, <2>1 DEF IInv, Answered
      <3> QED BY <3>1 DEF Replies
    <2> QED BY <2>1 DEF AloneGetsOwnReply
  <1> QED BY <1>1, Invariant, PTL

(* Any request gets one reply at most, from the conode it asked, and never *)
(* the reply to a request made after it.                                   *)
THEOREM NeverALaterReply == Spec => []NoLaterReply
  <1>1. ASSUME IInv
        PROVE  NoLaterReply
    <2>1. ASSUME NEW r \in DOMAIN requests
          PROVE  /\ Cardinality(requests[r].replies) <= 1
                 /\ \A reply \in requests[r].replies :
                      reply.of <= r /\ reply.by = requests[r].conode
      <3>1. Answered(r, requests[r])
        BY <1>1 DEF IInv
      <3>2. CASE requests[r].replies = {}
        BY <3>2, FS_EmptySet
      <3>3. CASE requests[r].replies # {}
        <4>1. PICK reply \in Replies : /\ requests[r].replies = {reply}
                                       /\ reply.by = requests[r].conode /\ reply.of <= r
          BY <3>1, <3>3 DEF Answered
        <4>2. Cardinality({reply}) = 1
          BY FS_Singleton
        <4> QED BY <4>1, <4>2
      <3> QED BY <3>2, <3>3
    <2> QED BY <2>1 DEF NoLaterReply
  <1> QED BY <1>1, Invariant, PTL
=============================================================================
