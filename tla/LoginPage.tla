----------------------------- MODULE LoginPage -----------------------------
(***************************************************************************)
(* The login page of the identity provider (PoC/OPApp, main.js) in a       *)
(* user's browser, with the daemon on the user's machine that builds his   *)
(* authentication messages (dagacothority/dagadaemon).                     *)
(*                                                                         *)
(* A page is one load of the login page, for one request of the relying    *)
(* party.  The user loads a context and a client from files and asks for a *)
(* login, perhaps several times; every attempt has a web socket of its own *)
(* to the daemon, and the message it gets is posted back to the provider.  *)
(* The browser runs one callback of the page at a time: each is one action.*)
(*                                                                         *)
(* The provider is environment: it answers a post with a place to go to or *)
(* with an error.                                                          *)
(***************************************************************************)
EXTENDS Integers, Sequences

CONSTANTS Pages,
          Contexts,      \* files that hold a context
          Clients,       \* files that hold a client
          MaxSelections, \* bound on the files the user selects
          MaxAttempts    \* bound on the times he asks for a login

Files == Contexts \cup Clients
Fields == {"context", "client"}
Undefined == "undefined"
Loadable == Files \cup {Undefined}

ASSUME FilesAssumption == Contexts \cap Clients = {} /\ Undefined \notin Files
ASSUME PageBoundsAssumption == MaxSelections \in Nat /\ MaxAttempts \in Nat

VARIABLES
    live,       \* the pages that are loaded and not left
    data,       \* Main.data of each page
    reads,      \* file reads under way
    selections, \* how many files were selected
    attempts,   \* the attempts to log in, with both ends of their web sockets
    posts,      \* POST requests the provider has not answered
    redirects   \* answers with a place to go to, not followed yet

pageVars == <<live, data, reads, selections, attempts, posts, redirects>>

Attempt ==
    [page : Pages, chosen : [Fields -> Files],
     socket : {"connecting", "open", "closed"},
     toDaemon : Seq(Files), toPage : Seq([Fields -> Files]),
     daemon : {"waiting", "serving", "refused", "returned"}]

PageTypeOK ==
    /\ live \subseteq Pages
    /\ data \in [Pages -> [Fields -> Loadable]]
    /\ reads \subseteq [page : Pages, field : Fields, file : Files]
    /\ selections \in 0 .. MaxSelections
    /\ attempts \in Seq(Attempt) /\ Len(attempts) <= MaxAttempts
    /\ posts \subseteq [page : Pages, by : 1 .. MaxAttempts, message : [Fields -> Files]]
    /\ redirects \subseteq Pages

Empty == [f \in Fields |-> Undefined]

PageInit ==
    /\ live = {}
    /\ data = [p \in Pages |-> Empty]
    /\ reads = {}
    /\ selections = 0
    /\ attempts = <<>>
    /\ posts = {}
    /\ redirects = {}

----------------------------------------------------------------------------
(* The page.                                                               *)

(* readFile: selecting a file starts a reader of its own for it.  (A       *)
(* selection taken back makes the callback throw and changes nothing: what *)
(* was loaded stays loaded.)                                               *)
ReadFile(p, field, file) ==
    /\ p \in live /\ selections < MaxSelections
    /\ reads' = reads \cup {[page |-> p, field |-> field, file |-> file]}
    /\ selections' = selections + 1
    /\ UNCHANGED <<live, data, attempts, posts, redirects>>

(* reader.onload, thenSaveUnder: readers finish in any order, and the one  *)
(* that finishes last is the one that counts.  A read that fails has no    *)
(* callback.                                                               *)
OnLoad(r) ==
    /\ reads' = reads \ {r}
    /\ \/ data' = [data EXCEPT ![r.page][r.field] = r.file]
       \/ UNCHANGED data
    /\ UNCHANGED <<live, selections, attempts, posts, redirects>>

(* (<name>_<mistake>: a mistake a change of the code could make.)          *)
FilesLoaded_ContextOnly(p) == data[p]["context"] # Undefined

FilesLoaded(p) == \A f \in Fields : data[p][f] # Undefined

(* buildAuthMsg: with a context and a client loaded (an alert is shown     *)
(* otherwise) a web socket to the daemon is opened.  Nothing stops the user*)
(* from asking again before the answer.                                    *)
BuildAuthMsg(p) ==
    /\ p \in live /\ Len(attempts) < MaxAttempts
    /\ FilesLoaded(p)
    /\ attempts' = Append(attempts,
         [page |-> p, chosen |-> data[p], socket |-> "connecting",
          toDaemon |-> <<>>, toPage |-> <<>>, daemon |-> "waiting"])
    /\ UNCHANGED <<live, data, reads, selections, posts, redirects>>

Sent_LoadedNow(i) == <<data[attempts[i].page]["context"], data[attempts[i].page]["client"]>>
Sent_ClientFirst(i) == <<attempts[i].chosen["client"], attempts[i].chosen["context"]>>

(* What onopen sends.                                                      *)
Sent(i) == <<attempts[i].chosen["context"], attempts[i].chosen["client"]>>

(* The daemon answers the handshake and the page's onopen sends.  The      *)
(* daemon may not be there, or refuse the origin of the page: its white    *)
(* list names port 5556, which a deployment may change.                    *)
OnOpen(i) ==
    /\ attempts[i].socket = "connecting"
    /\ attempts' = [attempts EXCEPT ![i] = [@ EXCEPT
         !.socket = "open", !.daemon = "serving", !.toDaemon = Sent(i)]]
    /\ UNCHANGED <<live, data, reads, selections, posts, redirects>>

Refused(i) ==
    /\ attempts[i].socket = "connecting"
    /\ attempts' = [attempts EXCEPT ![i] = [@ EXCEPT !.socket = "closed", !.daemon = "returned"]]
    /\ UNCHANGED <<live, data, reads, selections, posts, redirects>>

(* thenPostIt: to the address of the page, which names its login.          *)
PostIt(i, authMsg) == [page |-> attempts[i].page, by |-> i, message |-> authMsg]

(* onmessage: the message is posted, whatever else was.                    *)
OnMessage(i) ==
    /\ attempts[i].socket = "open" /\ attempts[i].toPage # <<>>
    /\ posts' = posts \cup {PostIt(i, Head(attempts[i].toPage))}
    /\ attempts' = [attempts EXCEPT ![i] = [@ EXCEPT !.toPage = Tail(attempts[i].toPage)]]
    /\ UNCHANGED <<live, data, reads, selections, redirects>>

OnClose_NotDeferred(i) ==
    /\ attempts[i].socket = "open" /\ attempts[i].toPage = <<>>
    /\ attempts[i].daemon = "returned"
    /\ attempts' = [attempts EXCEPT ![i] = [@ EXCEPT !.socket = "closed"]]
    /\ UNCHANGED <<live, data, reads, selections, posts, redirects>>

(* onclose, of a daemon whose handler has returned, however it did: it     *)
(* closes the connection (what it sent comes first).                       *)
OnClose(i) ==
    /\ attempts[i].socket = "open" /\ attempts[i].toPage = <<>>
    /\ attempts[i].daemon \in {"refused", "returned"}
    /\ attempts' = [attempts EXCEPT ![i] = [@ EXCEPT !.socket = "closed"]]
    /\ UNCHANGED <<live, data, reads, selections, posts, redirects>>

(* success: follow the redirect of an answer, and leave the page with all  *)
(* that goes on in it.                                                     *)
OnSuccess(p) ==
    /\ p \in live /\ p \in redirects
    /\ live' = live \ {p}
    /\ reads' = {r \in reads : r.page # p}
    /\ posts' = {m \in posts : m.page # p}
    /\ redirects' = redirects \ {p}
    /\ attempts' = [i \in DOMAIN attempts |->
                      IF attempts[i].page = p
                        THEN [attempts[i] EXCEPT !.socket = "closed", !.toPage = <<>>]
                        ELSE attempts[i]]
    /\ UNCHANGED <<data, selections>>

----------------------------------------------------------------------------
(* The daemon.                                                             *)

(* readContext and readClient check the type of what they read, one after  *)
(* the other; NewAuthenticationMessage makes the message, or an error: the *)
(* context is not valid or has no client of that index, or the servers     *)
(* give no challenge.                                                      *)
Serve(i) ==
    LET context == attempts[i].toDaemon[1]
        client == attempts[i].toDaemon[2]
        rightTypes == context \in Contexts /\ client \in Clients
    IN  \/ /\ rightTypes /\ attempts[i].socket = "open"
           /\ attempts' = [attempts EXCEPT ![i] = [@ EXCEPT
                !.daemon = "returned",
                !.toPage = <<[context |-> context, client |-> client]>>]]
        \/ /\ rightTypes
           /\ attempts' = [attempts EXCEPT ![i] = [@ EXCEPT !.daemon = "returned"]]
        \/ /\ ~rightTypes
           /\ attempts' = [attempts EXCEPT ![i] = [@ EXCEPT !.daemon = "refused"]]

(* The handler of one connection; it closes the connection whenever it     *)
(* returns.                                                                *)
ServeDaemon(i) ==
    /\ attempts[i].daemon = "serving"
    /\ Serve(i)
    /\ UNCHANGED <<live, data, reads, selections, posts, redirects>>

(* The daemon stops, with its connections.                                 *)
DaemonStops(i) ==
    /\ attempts[i].socket = "open" /\ attempts[i].daemon = "serving"
    /\ attempts' = [attempts EXCEPT ![i] = [@ EXCEPT !.socket = "closed", !.daemon = "returned"]]
    /\ UNCHANGED <<live, data, reads, selections, posts, redirects>>

----------------------------------------------------------------------------
(* The provider.                                                           *)

(* It sends the page of a request.                                         *)
PageLoads(p) ==
    /\ live' = live \cup {p}
    /\ UNCHANGED <<data, reads, selections, attempts, posts, redirects>>

(* It answers a post with an error, which the page only logs, or with a    *)
(* redirect.                                                               *)
PostFails(m) ==
    /\ posts' = posts \ {m}
    /\ UNCHANGED <<live, data, reads, selections, attempts, redirects>>

PostSucceeds(m) ==
    /\ posts' = posts \ {m}
    /\ redirects' = redirects \cup {m.page}
    /\ UNCHANGED <<live, data, reads, selections, attempts>>

AttemptStep(i) ==
    \/ OnOpen(i) \/ Refused(i) \/ OnMessage(i) \/ OnClose(i)
    \/ ServeDaemon(i)

----------------------------------------------------------------------------
(* Properties.                                                             *)

(* What is posted was made from the context and the client that were       *)
(* loaded when the user asked, although he may load others while the       *)
(* connection is opened and the proof made.                                *)
PostedAsChosen == \A m \in posts : m.message = attempts[m.by].chosen

(* The daemon refuses a file only when the user chose a wrong one: it      *)
(* reads the two in the order in which the page sends them.                *)
RightFilesAreRead ==
    \A i \in DOMAIN attempts : attempts[i].daemon = "refused" =>
        \/ attempts[i].chosen["context"] \notin Contexts
        \/ attempts[i].chosen["client"] \notin Clients

(* Every attempt comes to an end: the daemon's handler returns and the     *)
(* connection is closed, also when the daemon could not make sense of what *)
(* it was sent or the page is left meanwhile.                              *)
AttemptsEnd ==
    \A i \in 1 .. MaxAttempts :
        (i \in DOMAIN attempts) ~> (/\ i \in DOMAIN attempts
                                    /\ attempts[i].socket = "closed"
                                    /\ attempts[i].daemon # "serving")
=============================================================================
