----------------------------- MODULE DagaSocket -----------------------------
(***************************************************************************)
(* Requests of a page to conodes over shared web sockets: createSocket of  *)
(* the JavaScript library (bundle.js, built from external/js/src/daga.js). *)
(*                                                                         *)
(* Requests are named by the order in which they are made.  A socket is a  *)
(* browser WebSocket with its listeners; it delivers what the conode sends *)
(* in order.  The conode is environment: it answers each request of a      *)
(* connection in turn, or closes the connection (which is how it reports   *)
(* an error).                                                              *)
(***************************************************************************)
EXTENDS Integers, Sequences, FiniteSets

CONSTANTS Conodes,      \* the server identities, by host and port
          MaxRequests   \* bound on the requests

ASSUME ConodesAssumption ==
    \A c \in Conodes : c = [host |-> c.host, port |-> c.port] /\ c.port \in Nat
ASSUME RequestsAssumption == MaxRequests \in Nat

Connecting == 0
Open == 1
Closing == 2
Closed == 3
NoSocket == 0
Requests == 1 .. MaxRequests
SocketIds == 1 .. MaxRequests

SiToWs_SamePort(c) == c

(* si_to_ws: the address of a conode's web socket.                         *)
SiToWs(c) == [c EXCEPT !.port = @ + 1]

(* Where a conode listens for web sockets.                                 *)
Listens(c) == [host |-> c.host, port |-> c.port + 1]

Addresses == {SiToWs(c) : c \in Conodes}

VARIABLES
    kept,     \* the sockets by address, which createSocket takes and returns
    sockets,  \* all the sockets made
    requests  \* the requests made, and what became of them

vars == <<kept, sockets, requests>>

Socket == [address : Addresses, readyState : {Connecting, Open, Closing, Closed},
           onOpen : Seq(Requests), onMessage : SUBSET Requests,
           onError : SUBSET Requests,
           toConode : Seq(Requests), toPage : Seq(Requests)]
Replies == [of : Requests, by : Conodes]
Request == [conode : Conodes, socket : SocketIds, alone : BOOLEAN, closed : BOOLEAN,
            replies : SUBSET Replies, failed : BOOLEAN]

TypeOK ==
    /\ kept \in [Addresses -> SocketIds \cup {NoSocket}]
    /\ sockets \in Seq(Socket) /\ Len(sockets) <= MaxRequests
    /\ requests \in Seq(Request) /\ Len(requests) <= MaxRequests
    /\ \A a \in Addresses : kept[a] <= Len(sockets)
    /\ \A i \in DOMAIN sockets : sockets[i].onOpen # <<>> => sockets[i].readyState = Connecting

NoSockets == [a \in Addresses |-> NoSocket]

Init == kept = NoSockets /\ sockets = <<>> /\ requests = <<>>

NewSocket(address) ==
    [address |-> address, readyState |-> Connecting, onOpen |-> <<>>, onMessage |-> {},
     onError |-> {}, toConode |-> <<>>, toPage |-> <<>>]

----------------------------------------------------------------------------
(* The library.                                                            *)

(* (<name>_<mistake>: a mistake a change of the code could make.)          *)
Reusable_Always(all, id) == id # NoSocket

(* A socket that is there and not closed is used again.                    *)
Reusable(all, id) == id # NoSocket /\ all[id].readyState <= Closing

WithRequest_AlwaysOnOpen(s, r) ==
    [s EXCEPT !.onError = @ \cup {r}, !.onMessage = @ \cup {r}, !.onOpen = Append(@, r)]

(* The listeners of a request and its message: it is sent once the socket  *)
(* is open, and a socket that is closing or closed drops it.               *)
WithRequest(s, r) ==
    [s EXCEPT !.onError = @ \cup {r}, !.onMessage = @ \cup {r},
              !.onOpen = IF s.readyState = Connecting THEN Append(@, r) ELSE @,
              !.toConode = IF s.readyState = Open THEN Append(@, r) ELSE @]

(* No reply is on its way or still to be made on the socket.               *)
Quiet(s) == s.onOpen = <<>> /\ s.toConode = <<>> /\ s.toPage = <<>>

(* createSocket, given the sockets kept from earlier calls or none.        *)
CreateSocket(c, given) ==
    LET r == Len(requests) + 1
        address == SiToWs(c)
        reuse == Reusable(sockets, given[address])
        id == IF reuse THEN given[address] ELSE Len(sockets) + 1
        all == IF reuse THEN sockets ELSE Append(sockets, NewSocket(address))
    IN  /\ r <= MaxRequests
        /\ sockets' = [all EXCEPT ![id] = WithRequest(@, r)]
        /\ kept' = [given EXCEPT ![address] = id]
        /\ requests' = Append(requests,
             [conode |-> c, socket |-> id, alone |-> Quiet(all[id]),
              closed |-> all[id].readyState = Closing, replies |-> {}, failed |-> FALSE])

OnOpen_LastFirst(i) ==
    /\ sockets[i].readyState = Connecting
    /\ \E c \in Conodes : Listens(c) = sockets[i].address
    /\ LET last == Len(sockets[i].onOpen) + 1
           reverse == [k \in DOMAIN sockets[i].onOpen |-> sockets[i].onOpen[last - k]]
       IN  sockets' = [sockets EXCEPT ![i] = [@ EXCEPT
             !.readyState = Open, !.onOpen = <<>>, !.toConode = reverse]]
    /\ UNCHANGED <<kept, requests>>

(* The open listeners, in the order in which they were added.              *)
OnOpen(i) ==
    /\ sockets[i].readyState = Connecting
    /\ \E c \in Conodes : Listens(c) = sockets[i].address
    /\ sockets' = [sockets EXCEPT ![i] = [@ EXCEPT
         !.readyState = Open, !.onOpen = <<>>, !.toConode = sockets[i].onOpen]]
    /\ UNCHANGED <<kept, requests>>

(* The requests with what is recorded of some of them changed.             *)
Marked(some, Change(_)) ==
    [r \in DOMAIN requests |-> IF r \in some THEN Change(requests[r]) ELSE requests[r]]

Reply(i) == [of |-> Head(sockets[i].toPage),
             by |-> CHOOSE c \in Conodes : Listens(c) = sockets[i].address]

OnMessage_StaysListening(i) ==
    /\ sockets[i].readyState = Open /\ sockets[i].toPage # <<>>
    /\ sockets' = [sockets EXCEPT ![i] = [@ EXCEPT !.toPage = Tail(sockets[i].toPage)]]
    /\ requests' = Marked(sockets[i].onMessage, LAMBDA q : [q EXCEPT !.replies = @ \cup {Reply(i)}])
    /\ UNCHANGED kept

(* The message listeners of all the requests that wait on the socket get   *)
(* the message, and each removes itself; their error listeners stay.       *)
OnMessage(i) ==
    /\ sockets[i].readyState = Open /\ sockets[i].toPage # <<>>
    /\ sockets' = [sockets EXCEPT ![i] = [@ EXCEPT
         !.onMessage = {}, !.toPage = Tail(sockets[i].toPage)]]
    /\ requests' = Marked(sockets[i].onMessage, LAMBDA q : [q EXCEPT !.replies = @ \cup {Reply(i)}])
    /\ UNCHANGED kept

(* The connection is not made or breaks: the error listeners are called.   *)
OnError(i) ==
    /\ sockets[i].readyState # Closed
    /\ sockets' = [sockets EXCEPT ![i] = [@ EXCEPT
         !.readyState = Closed, !.onError = {},
         !.onOpen = <<>>, !.toConode = <<>>, !.toPage = <<>>]]
    /\ requests' = Marked(sockets[i].onError, LAMBDA q : [q EXCEPT !.failed = TRUE])
    /\ UNCHANGED kept

----------------------------------------------------------------------------
(* The conode and the browser.                                             *)

ConodeReplies(i) ==
    /\ sockets[i].readyState = Open /\ sockets[i].toConode # <<>>
    /\ sockets' = [sockets EXCEPT ![i] = [@ EXCEPT
         !.toConode = Tail(sockets[i].toConode),
         !.toPage = Append(sockets[i].toPage, Head(sockets[i].toConode))]]
    /\ UNCHANGED <<kept, requests>>

(* The conode closes the connection, with an error code or because it      *)
(* stops; what it sent before is delivered first.                          *)
ConodeCloses(i) ==
    /\ sockets[i].readyState = Open /\ sockets[i].toPage = <<>>
    /\ sockets' = [sockets EXCEPT ![i] = [@ EXCEPT !.readyState = Closing, !.toConode = <<>>]]
    /\ requests' = Marked(sockets[i].onMessage, LAMBDA q : [q EXCEPT !.closed = TRUE])
    /\ UNCHANGED kept

(* The closing handshake ends: nobody listens for "close".                 *)
OnClose(i) ==
    /\ sockets[i].readyState = Closing
    /\ sockets' = [sockets EXCEPT ![i] = [@ EXCEPT !.readyState = Closed]]
    /\ UNCHANGED <<kept, requests>>

BrowserStep(i) == OnOpen(i) \/ OnMessage(i) \/ OnError(i) \/ OnClose(i)
ConodeStep(i) == ConodeReplies(i) \/ ConodeCloses(i)

Next ==
    \/ \E c \in Conodes, given \in {kept, NoSockets} : CreateSocket(c, given)
    \/ \E i \in DOMAIN sockets : BrowserStep(i) \/ ConodeStep(i)

Spec == Init /\ [][Next]_vars

(* The browser ends what it begins and runs callbacks; the conode deals    *)
(* with every request it gets.                                             *)
Fairness ==
    \A i \in SocketIds :
        /\ WF_vars(i \in DOMAIN sockets
                     /\ (OnOpen(i) \/ OnMessage(i) \/ OnClose(i)
                          \/ (sockets[i].readyState = Connecting /\ OnError(i))))
        /\ WF_vars(i \in DOMAIN sockets /\ sockets[i].toConode # <<>> /\ ConodeStep(i))

FairSpec == Spec /\ Fairness

----------------------------------------------------------------------------
(* Properties.                                                             *)

(* A request made when no other is under way on the socket it is given     *)
(* gets its own reply, of the conode it asks, and no other, whatever       *)
(* follows on the socket.                                                  *)
AloneGetsOwnReply ==
    \A r \in DOMAIN requests : requests[r].alone =>
        requests[r].replies \subseteq {[of |-> r, by |-> requests[r].conode]}

(* One that is not alone may get the reply to an earlier request of the    *)
(* same conode instead of its own, once; never a later one's.              *)
NoLaterReply ==
    \A r \in DOMAIN requests :
        /\ Cardinality(requests[r].replies) <= 1
        /\ \A reply \in requests[r].replies :
              reply.of <= r /\ reply.by = requests[r].conode

(* Every request is answered or fails, unless the conode closes its        *)
(* connection while it waits, which no listener is told, or was closing it *)
(* already (a socket that is closing is used again).                       *)
Settles ==
    \A r \in Requests :
        r \in DOMAIN requests ~>
            /\ r \in DOMAIN requests
            /\ \/ requests[r].replies # {}
               \/ requests[r].failed
               \/ requests[r].closed
=============================================================================
