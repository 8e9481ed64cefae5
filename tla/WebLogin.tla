----------------------------- MODULE WebLogin -----------------------------
(***************************************************************************)
(* A login at the relying party with DAGA: the tabs of a browser go from   *)
(* the relying party to the login page of the provider, whose daemon makes *)
(* an authentication message of the client the user chose, and back with   *)
(* the provider's code (PoC, main.js, dagadaemon.go, app.js).              *)
(*                                                                         *)
(* The page of a login is named by it.  The provider (dex with a DAGA      *)
(* connector, not part of this repository) and the DAGA servers behind it  *)
(* are modelled by what page and relying party see of them: the subject of *)
(* a login is the linkage tag of the client in the context, and a tag is   *)
(* named by the two.                                                       *)
(***************************************************************************)
EXTENDS LoginPage, RelyingParty

CONSTANT Members        \* the clients of each context

ASSUME PagesAssumption == Pages = Logins
ASSUME MembersAssumption == Members \in [Contexts -> SUBSET Clients]
ASSUME SubjectsAssumption == Tags = Contexts \X Clients

vars == <<pageVars, rpVars>>

TypeOK == PageTypeOK /\ RPTypeOK
Init == PageInit /\ RPInit

----------------------------------------------------------------------------
(* /login redirects to the login page.                                     *)
StartLogin(t) == Login(t) /\ PageLoads(logins + 1)

PageStep ==
    \/ \E p \in Logins :
         \/ \E f \in Fields, file \in Files : ReadFile(p, f, file)
         \/ BuildAuthMsg(p)
    \/ \E r \in reads : OnLoad(r)
    \/ \E i \in DOMAIN attempts : AttemptStep(i) \/ DaemonStops(i)

(* The provider has the message authenticated by the DAGA servers, which   *)
(* refuse the proof of a client that is not a member of the context.       *)
HandlePost(m) ==
    LET context == m.message["context"]
        client == m.message["client"]
    IN  \/ /\ client \in Members[context]
           /\ Authenticates(m.page, <<context, client>>)
           /\ PostSucceeds(m)
        \/ PostFails(m) /\ UNCHANGED rpVars

(* The page goes where the provider said, and from there to the relying    *)
(* party, without an approval screen (config.yaml).                        *)
FinishLogin(t) == OnSuccess(login[t]) /\ Approves(t)

Next ==
    \/ \E t \in Tabs : StartLogin(t) \/ FinishLogin(t)
    \/ \E m \in posts : HandlePost(m)
    \/ PageStep /\ UNCHANGED rpVars
    \/ ((\E t \in Tabs : Request(t)) \/ RestartRP) /\ UNCHANGED pageVars

Spec == Init /\ [][Next]_vars

(* The browser runs the callbacks of the sockets, and the daemon's handler *)
(* runs; the user does what he likes.                                      *)
Fairness ==
    \A i \in 1 .. MaxAttempts :
        WF_vars(i \in DOMAIN attempts /\ AttemptStep(i) /\ UNCHANGED rpVars)

FairSpec == Spec /\ Fairness

----------------------------------------------------------------------------
(* Properties.                                                             *)

(* Who is logged in at the relying party is a client the user chose and    *)
(* asked a login for on the page of a login of that very session, and a    *)
(* member of the context he chose with it, whatever he loads, asks for and *)
(* cancels in this and in other tabs meanwhile.                            *)
UserIsOwnTag ==
    \A s \in Sessions : store[s].user # Nobody =>
        \E i \in DOMAIN attempts :
            LET chosen == attempts[i].chosen
            IN  /\ startedIn[attempts[i].page] = s
                /\ store[s].user = <<chosen["context"], chosen["client"]>>
                /\ chosen["client"] \in Members[chosen["context"]]
=============================================================================
