--------------------------- MODULE RelyingParty ---------------------------
(***************************************************************************)
(* The relying party (PoC/RPApp): an Express application with sessions in  *)
(* the memory of its process, and the OpenID Connect login of passport,    *)
(* used by the tabs of one browser.                                        *)
(*                                                                         *)
(* A login is named by the handle that /login puts in the session and in   *)
(* the redirect to the provider, and its code by the login.  A request     *)
(* loads the session its cookie names, or a new one, works on its own copy *)
(* and saves the copy when it ends; only the callback waits meanwhile (for *)
(* the token endpoint of the provider) and takes two steps.                *)
(*                                                                         *)
(* The provider is environment: it authenticates a login and then sends    *)
(* the browser back with a code.                                           *)
(***************************************************************************)
EXTENDS Integers

CONSTANTS Tabs,
          Tags,         \* subjects the provider vouches for: linkage tags
          Nobody,       \* no subject
          MaxLogins, MaxSessions,
          MaxEnds       \* bound on logouts and restarts

Logins == 1 .. MaxLogins
Sessions == 1 .. MaxSessions
NoLogin == 0
NoSession == 0
Absent == [pending |-> -1, user |-> Nobody]

ASSUME TagsAssumption == Nobody \notin Tags
ASSUME SessionBoundsAssumption ==
    MaxLogins \in Nat /\ MaxSessions \in Nat /\ MaxEnds \in Nat

VARIABLES
    store,     \* the sessions in the memory store
    cookie,    \* the session named by the browser's cookie
    at,        \* what each tab shows or waits for
    login,     \* the login each tab is in
    copy,      \* what a callback that waits works on
    startedIn, \* the session each login was started in
    identity,  \* who the provider authenticated in each login
    logins, sessions, ends \* how many logins, sessions, and logouts or restarts

rpVars == <<store, cookie, at, login, copy, startedIn, identity,
            logins, sessions, ends>>

SessionData == [pending : Logins \cup {NoLogin}, user : Tags \cup {Nobody}]
NewSession == [pending |-> NoLogin, user |-> Nobody]
NoCopy == [sid |-> NoSession, session |-> NewSession]

RPTypeOK ==
    /\ store \in [Sessions -> SessionData \cup {Absent}]
    /\ cookie \in Sessions \cup {NoSession}
    /\ at \in [Tabs -> {"start", "home", "login", "provider", "callback", "exchanging",
                        "authorized", "profile", "refused", "failed"}]
    /\ login \in [Tabs -> Logins \cup {NoLogin}]
    /\ copy \in [Tabs -> [sid : Sessions \cup {NoSession}, session : SessionData]]
    /\ startedIn \in [Logins -> Sessions \cup {NoSession}]
    /\ identity \in [Logins -> Tags \cup {Nobody}]
    /\ logins \in 0 .. MaxLogins
    /\ sessions \in 0 .. MaxSessions
    /\ ends \in 0 .. MaxEnds

RPInit ==
    /\ store = [s \in Sessions |-> Absent]
    /\ cookie = NoSession
    /\ at = [t \in Tabs |-> "start"]
    /\ login = [t \in Tabs |-> NoLogin]
    /\ copy = [t \in Tabs |-> NoCopy]
    /\ startedIn = [h \in Logins |-> NoSession]
    /\ identity = [h \in Logins |-> Nobody]
    /\ logins = 0 /\ sessions = 0 /\ ends = 0

----------------------------------------------------------------------------
(* Sessions (express-session, with saveUninitialized).                     *)

HasSession == cookie # NoSession /\ store[cookie] # Absent
Sid == IF HasSession THEN cookie ELSE sessions + 1
Loaded == IF HasSession THEN store[cookie] ELSE NewSession

(* The end of a request that saves session data s: a new session is stored *)
(* and its cookie set.                                                     *)
Save(s) ==
    /\ HasSession \/ sessions < MaxSessions
    /\ store' = [store EXCEPT ![Sid] = s]
    /\ cookie' = Sid
    /\ sessions' = IF HasSession THEN sessions ELSE sessions + 1

Show(t, place) == at' = [at EXCEPT ![t] = place]

(* The page every failure ends in: /error, where a refused callback is     *)
(* sent, is not a route (404), and other errors are passed on to it.       *)
ErrorPage(t, why) == Show(t, why)

----------------------------------------------------------------------------
(* The application.                                                        *)

(* GET /                                                                   *)
GetHome(t) ==
    /\ at[t] = "start"
    /\ Save(Loaded)
    /\ Show(t, "home")
    /\ UNCHANGED <<login, copy, startedIn, identity, logins, ends>>

(* (<name>_<mistake>: a mistake a change of the code could make.)          *)
WithPending_NotKept(session, h) == session

(* The handle of a login in the session; there is room for one.            *)
WithPending(session, h) == [session EXCEPT !.pending = h]

(* /login: passport.authenticate without a code redirects to the provider. *)
Login(t) ==
    /\ at[t] \in {"home", "login", "refused", "failed"} /\ logins < MaxLogins
    /\ Save(WithPending(Loaded, logins + 1))
    /\ logins' = logins + 1
    /\ login' = [login EXCEPT ![t] = logins + 1]
    /\ startedIn' = [startedIn EXCEPT ![logins + 1] = Sid]
    /\ Show(t, "provider")
    /\ UNCHANGED <<copy, identity, ends>>

StateMatches_AnyPending(session, h) == session.pending # NoLogin

(* The state of the callback is that of the session's login.               *)
StateMatches(session, h) == session.pending = h

(* /authorization-code/callback, up to the request for a token: whatever   *)
(* the state, the session's pending login is used up.                      *)
BeginCallback(t) ==
    /\ at[t] = "callback"
    /\ \/ /\ StateMatches(Loaded, login[t])
          /\ copy' = [copy EXCEPT ![t] =
                        [sid |-> Sid, session |-> [Loaded EXCEPT !.pending = NoLogin]]]
          /\ Show(t, "exchanging")
          /\ UNCHANGED <<store, cookie, sessions>>
       \/ /\ ~StateMatches(Loaded, login[t])
          /\ Save([Loaded EXCEPT !.pending = NoLogin])
          /\ ErrorPage(t, "refused")
          /\ UNCHANGED copy
    /\ UNCHANGED <<login, startedIn, identity, logins, ends>>

(* The provider gives the token, whose subject becomes the session's user, *)
(* or an error; the copy of the session is stored, whatever has become of  *)
(* the session meanwhile.                                                  *)
EndCallback(t) ==
    /\ at[t] = "exchanging"
    /\ \/ /\ store' = [store EXCEPT ![copy[t].sid] =
                         [copy[t].session EXCEPT !.user = identity[login[t]]]]
          /\ Show(t, "authorized")
       \/ /\ store' = [store EXCEPT ![copy[t].sid] = copy[t].session]
          /\ ErrorPage(t, "failed")
    /\ copy' = [copy EXCEPT ![t] = NoCopy]
    /\ UNCHANGED <<cookie, login, startedIn, identity, logins, sessions, ends>>

(* /profile, behind ensureLoggedIn.                                        *)
GetProfile(t) ==
    /\ at[t] \in {"home", "authorized"}
    /\ Save(Loaded)
    /\ Show(t, IF Loaded.user # Nobody THEN "profile" ELSE "login")
    /\ UNCHANGED <<login, copy, startedIn, identity, logins, ends>>

(* /logout: the session is destroyed and its cookie left.                  *)
Logout(t) ==
    /\ at[t] \in {"home", "profile"} /\ ends < MaxEnds
    /\ store' = IF HasSession THEN [store EXCEPT ![cookie] = Absent] ELSE store
    /\ ends' = ends + 1
    /\ Show(t, "start")
    /\ UNCHANGED <<cookie, login, copy, startedIn, identity, logins, sessions>>

(* The process is restarted: its memory store is empty, and the requests   *)
(* under way are lost.                                                     *)
RestartRP ==
    /\ ends < MaxEnds
    /\ ends' = ends + 1
    /\ store' = [s \in Sessions |-> Absent]
    /\ at' = [t \in Tabs |-> IF at[t] = "exchanging" THEN "failed" ELSE at[t]]
    /\ copy' = [t \in Tabs |-> NoCopy]
    /\ UNCHANGED <<cookie, login, startedIn, identity, logins, sessions>>

----------------------------------------------------------------------------
(* The provider.                                                           *)

Authenticates(h, tag) ==
    /\ \E t \in Tabs : at[t] = "provider" /\ login[t] = h
    /\ identity' = [identity EXCEPT ![h] = tag]
    /\ UNCHANGED <<store, cookie, at, login, copy, startedIn, logins, sessions,
                   ends>>

Approves(t) ==
    /\ at[t] = "provider" /\ identity[login[t]] # Nobody
    /\ Show(t, "callback")
    /\ UNCHANGED <<store, cookie, login, copy, startedIn, identity, logins, sessions,
                   ends>>

Request(t) ==
    GetHome(t) \/ BeginCallback(t) \/ EndCallback(t) \/ GetProfile(t) \/ Logout(t)

RPNext ==
    \/ \E t \in Tabs : Login(t) \/ Request(t) \/ Approves(t)
    \/ \E h \in Logins, tag \in Tags : Authenticates(h, tag)
    \/ RestartRP

RPSpec == RPInit /\ [][RPNext]_rpVars

----------------------------------------------------------------------------
(* Properties.                                                             *)

(* The user of a session is who the provider authenticated in a login that *)
(* this very session started: the answer to a login that outlives its      *)
(* session, because the user logged out in another tab or the process was  *)
(* restarted, logs nobody in elsewhere.                                    *)
UserComesFromItsLogin ==
    \A s \in Sessions : store[s].user # Nobody =>
        \E h \in Logins : startedIn[h] = s /\ identity[h] = store[s].user

(* A login that is the only one, in a session that is not ended meanwhile, *)
(* is not refused.                                                         *)
SoleLoginAccepted ==
    (\E t \in Tabs : at[t] = "refused") => logins > 1 \/ ends > 0
=============================================================================
