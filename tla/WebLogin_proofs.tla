-------------------------- MODULE WebLogin_proofs --------------------------
(***************************************************************************)
(* Proofs about WebLogin, for every number of pages, tabs, logins,         *)
(* attempts, files and sessions.                                           *)
(***************************************************************************)
EXTENDS WebLogin, SequenceTheorems, TLAPS

(* A record with the fields of a page's files is the function it stands    *)
(* for.                                                                    *)
LEMMA FilesAsRecord ==
    ASSUME NEW f \in [Fields -> Files]
    PROVE  [context |-> f["context"], client |-> f["client"]] = f
  BY DEF Fields

----------------------------------------------------------------------------
(* The page.                                                               *)

RightTypes(a) == a.chosen["context"] \in Contexts /\ a.chosen["client"] \in Clients

(* What the daemon is given, answers and refuses is about the files that   *)
(* were chosen.                                                            *)
AttemptInv(a) ==
    /\ a.daemon = "serving" => a.toDaemon = <<a.chosen["context"], a.chosen["client"]>>
    /\ a.toPage = <<>> \/ (a.toPage = <<a.chosen>> /\ RightTypes(a))
    /\ a.daemon = "refused" => ~RightTypes(a)

PostInv(m, as) ==
    /\ m.by \in DOMAIN as
    /\ m.message = as[m.by].chosen
    /\ m.page = as[m.by].page
    /\ RightTypes(as[m.by])

AttemptsInv == \A i \in DOMAIN attempts : AttemptInv(attempts[i])
PostsInv == \A m \in posts : PostInv(m, attempts)

PageInv == PageTypeOK /\ AttemptsInv /\ PostsInv

(* The attempts are those there were, perhaps with one more, of the same   *)
(* page and files.                                                         *)
Kept(as, bs) ==
    /\ bs \in Seq(Attempt) /\ Len(bs) <= MaxAttempts
    /\ \A i \in DOMAIN as : /\ i \in DOMAIN bs
                            /\ bs[i].page = as[i].page
                            /\ bs[i].chosen = as[i].chosen
    /\ \A i \in DOMAIN bs : AttemptInv(bs[i])

(* One attempt changed.                                                    *)
LEMMA AttemptChanged ==
    ASSUME PageInv, NEW i \in DOMAIN attempts, NEW a \in Attempt,
           a.page = attempts[i].page, a.chosen = attempts[i].chosen, AttemptInv(a)
    PROVE  Kept(attempts, [attempts EXCEPT ![i] = a])
  <1> DEFINE T == Attempt
             b == [attempts EXCEPT ![i] = a]
  <1>1. attempts \in Seq(T) /\ Len(attempts) <= MaxAttempts
    BY DEF PageInv, PageTypeOK
  <1>2. a \in T
    OBVIOUS
  <1> HIDE DEF T
  <1>3. b \in Seq(T) /\ Len(b) = Len(attempts) /\ DOMAIN b = DOMAIN attempts
    BY <1>1, <1>2, ExceptSeq
  <1>4. \A j \in DOMAIN attempts : b[j] = IF j = i THEN a ELSE attempts[j]
    OBVIOUS
  <1>5. \A j \in DOMAIN b : AttemptInv(b[j])
    BY <1>3, <1>4 DEF PageInv, AttemptsInv
  <1> HIDE DEF b
  <1>6. Kept(attempts, b)
    BY <1>1, <1>3, <1>4, <1>5 DEF Kept, T
  <1> QED BY <1>6 DEF b

(* The fields of an attempt.                                               *)
LEMMA AttemptTyped ==
    ASSUME PageInv, NEW i \in DOMAIN attempts
    PROVE  attempts[i] \in Attempt /\ AttemptInv(attempts[i])
  <1> DEFINE T == Attempt
  <1>1. attempts \in Seq(T)
    BY DEF PageInv, PageTypeOK
  <1> HIDE DEF T
  <1>2. attempts[i] \in T
    BY <1>1
  <1> QED BY <1>2 DEF T, PageInv, AttemptsInv

(* A post is still one of an attempt that was chosen so.                   *)
LEMMA PostKept ==
    ASSUME NEW as, NEW bs, Kept(as, bs), NEW m, PostInv(m, as)
    PROVE  PostInv(m, bs)
  BY DEF PostInv, Kept, RightTypes

(* What remains of the invariant when the attempts are kept.               *)
OthersTyped ==
    /\ live \subseteq Pages
    /\ data \in [Pages -> [Fields -> Loadable]]
    /\ reads \subseteq [page : Pages, field : Fields, file : Files]
    /\ selections \in 0 .. MaxSelections
    /\ posts \subseteq [page : Pages, by : 1 .. MaxAttempts, message : [Fields -> Files]]
    /\ redirects \subseteq Pages

LEMMA PageInvFromKept ==
    ASSUME PageInv, Kept(attempts, attempts'), OthersTyped', posts' \subseteq posts
    PROVE  PageInv'
  <1>1. PageTypeOK'
    BY DEF Kept, OthersTyped, PageTypeOK
  <1>2. AttemptsInv'
    BY DEF Kept, AttemptsInv
  <1>3. PostsInv'
    BY PostKept DEF PageInv, PostsInv
  <1> QED BY <1>1, <1>2, <1>3 DEF PageInv

LEMMA SameAttempts ==
    ASSUME PageInv
    PROVE  Kept(attempts, attempts)
  BY DEF PageInv, PageTypeOK, AttemptsInv, Kept

LEMMA TypedOthers ==
    ASSUME PageInv
    PROVE  OthersTyped
  BY DEF PageInv, PageTypeOK, OthersTyped

LEMMA ReadFileKeeps ==
    ASSUME PageInv, NEW p \in Pages, NEW f \in Fields, NEW file \in Files, ReadFile(p, f, file)
    PROVE  PageInv' /\ Kept(attempts, attempts')
  <1>1. attempts' = attempts /\ posts' = posts
    BY DEF ReadFile
  <1>2. Kept(attempts, attempts')
    BY <1>1, SameAttempts
  <1>3. OthersTyped'
    BY TypedOthers, PageBoundsAssumption DEF OthersTyped, ReadFile
  <1> QED BY <1>1, <1>2, <1>3, PageInvFromKept

LEMMA OnLoadKeeps ==
    ASSUME PageInv, NEW r \in reads, OnLoad(r)
    PROVE  PageInv' /\ Kept(attempts, attempts')
  <1>1. attempts' = attempts /\ posts' = posts
    BY DEF OnLoad
  <1>2. Kept(attempts, attempts')
    BY <1>1, SameAttempts
  <1>3. r.page \in Pages /\ r.field \in Fields /\ r.file \in Loadable
    BY DEF PageInv, PageTypeOK, Loadable
  <1>4. data' \in [Pages -> [Fields -> Loadable]]
    <2>1. data \in [Pages -> [Fields -> Loadable]]
      BY DEF PageInv, PageTypeOK
    <2>2. [data[r.page] EXCEPT ![r.field] = r.file] \in [Fields -> Loadable]
      BY <1>3, <2>1
    <2> QED BY <1>3, <2>1, <2>2 DEF OnLoad
  <1>5. OthersTyped'
    BY <1>4, TypedOthers DEF OthersTyped, OnLoad
  <1> QED BY <1>1, <1>2, <1>5, PageInvFromKept

LEMMA BuildAuthMsgKeeps ==
    ASSUME PageInv, NEW p \in Pages, BuildAuthMsg(p)
    PROVE  PageInv' /\ Kept(attempts, attempts')
  <1> DEFINE T == Attempt
             a == [page |-> p, chosen |-> data[p], socket |-> "connecting",
                   toDaemon |-> <<>>, toPage |-> <<>>, daemon |-> "waiting"]
  <1>1. attempts' = Append(attempts, a) /\ posts' = posts
    BY DEF BuildAuthMsg
  <1>2. data[p] \in [Fields -> Files]
    BY DEF PageInv, PageTypeOK, BuildAuthMsg, FilesLoaded, Loadable
  <1>3. a \in T
    BY <1>2 DEF Attempt
  <1>4. AttemptInv(a)
    BY DEF AttemptInv
  <1>5. attempts \in Seq(T) /\ Len(attempts) < MaxAttempts
    BY DEF PageInv, PageTypeOK, BuildAuthMsg
  <1>6. \A i \in DOMAIN attempts : AttemptInv(attempts[i])
    BY DEF PageInv, AttemptsInv
  <1> HIDE DEF T, a
  <1>7. /\ attempts' \in Seq(T)
        /\ Len(attempts') = Len(attempts) + 1
        /\ \A i \in DOMAIN attempts : i \in DOMAIN attempts' /\ attempts'[i] = attempts[i]
        /\ \A i \in DOMAIN attempts' : i \in DOMAIN attempts \/ attempts'[i] = a
    BY <1>1, <1>3, <1>5
  <1>8. Len(attempts') <= MaxAttempts
    BY <1>5, <1>7, PageBoundsAssumption
  <1>9. \A i \in DOMAIN attempts' : AttemptInv(attempts'[i])
    BY <1>4, <1>6, <1>7
  <1>10. Kept(attempts, attempts')
    BY <1>7, <1>8, <1>9 DEF Kept, T
  <1>11. OthersTyped'
    BY TypedOthers DEF OthersTyped, BuildAuthMsg
  <1> QED BY <1>1, <1>10, <1>11, PageInvFromKept

(* A step that changes attempt i only, into a, and sends no post.          *)
LEMMA OneAttemptKeeps ==
    ASSUME PageInv, NEW i \in DOMAIN attempts, NEW a \in Attempt,
           a.page = attempts[i].page, a.chosen = attempts[i].chosen, AttemptInv(a),
           attempts' = [attempts EXCEPT ![i] = a],
           UNCHANGED <<live, data, reads, selections, posts, redirects>>
    PROVE  PageInv' /\ Kept(attempts, attempts')
  <1>1. Kept(attempts, attempts')
    BY AttemptChanged
  <1>2. OthersTyped'
    BY TypedOthers DEF OthersTyped
  <1> QED BY <1>1, <1>2, PageInvFromKept

LEMMA OnOpenKeeps ==
    ASSUME PageInv, NEW i \in DOMAIN attempts, OnOpen(i)
    PROVE  PageInv' /\ Kept(attempts, attempts')
  <1> DEFINE c == attempts[i].chosen
             a == [attempts[i] EXCEPT !.socket = "open", !.daemon = "serving",
                                      !.toDaemon = <<c["context"], c["client"]>>]
  <1>1. attempts[i] \in Attempt /\ AttemptInv(attempts[i])
    BY AttemptTyped
  <1>2. c \in [Fields -> Files]
    BY <1>1 DEF Attempt
  <1>3. <<c["context"], c["client"]>> \in Seq(Files)
    BY <1>2 DEF Fields
  <1>4. a \in Attempt
    BY <1>1, <1>3 DEF Attempt
  <1>5. a.page = attempts[i].page /\ a.chosen = c /\ AttemptInv(a)
    BY <1>1 DEF Attempt, AttemptInv, RightTypes
  <1>6. attempts' = [attempts EXCEPT ![i] = a]
    BY DEF OnOpen, Sent
  <1> HIDE DEF a
  <1> QED BY <1>4, <1>5, <1>6, OneAttemptKeeps DEF OnOpen

(* The steps that only end something.                                      *)
LEMMA RefusedKeeps ==
    ASSUME PageInv, NEW i \in DOMAIN attempts, Refused(i) \/ OnClose(i) \/ DaemonStops(i)
    PROVE  PageInv' /\ Kept(attempts, attempts')
  <1> DEFINE a == [attempts[i] EXCEPT !.socket = "closed", !.daemon = "returned"]
             b == [attempts[i] EXCEPT !.socket = "closed"]
  <1>1. attempts[i] \in Attempt /\ AttemptInv(attempts[i])
    BY AttemptTyped
  <1>2. a \in Attempt /\ b \in Attempt
    BY <1>1 DEF Attempt
  <1>3. a.page = attempts[i].page /\ a.chosen = attempts[i].chosen /\ AttemptInv(a)
    BY <1>1 DEF Attempt, AttemptInv, RightTypes
  <1>4. b.page = attempts[i].page /\ b.chosen = attempts[i].chosen /\ AttemptInv(b)
    BY <1>1 DEF Attempt, AttemptInv, RightTypes
  <1>5. \/ attempts' = [attempts EXCEPT ![i] = a]
        \/ attempts' = [attempts EXCEPT ![i] = b]
    BY DEF Refused, OnClose, DaemonStops
  <1>6. UNCHANGED <<live, data, reads, selections, posts, redirects>>
    BY DEF Refused, OnClose, DaemonStops
  <1> HIDE DEF a, b
  <1> QED BY <1>2, <1>3, <1>4, <1>5, <1>6, OneAttemptKeeps

LEMMA ServeDaemonKeeps ==
    ASSUME PageInv, NEW i \in DOMAIN attempts, ServeDaemon(i)
    PROVE  PageInv' /\ Kept(attempts, attempts')
  <1> DEFINE c == attempts[i].chosen
             answered == [attempts[i] EXCEPT !.daemon = "returned", !.toPage = <<c>>]
             failed == [attempts[i] EXCEPT !.daemon = "returned"]
             refused == [attempts[i] EXCEPT !.daemon = "refused"]
  <1>1. attempts[i] \in Attempt /\ AttemptInv(attempts[i])
    BY AttemptTyped
  <1>2. c \in [Fields -> Files]
    BY <1>1 DEF Attempt
  <1>3. attempts[i].toDaemon = <<c["context"], c["client"]>>
    BY <1>1 DEF AttemptInv, ServeDaemon
  <1>4. [context |-> attempts[i].toDaemon[1], client |-> attempts[i].toDaemon[2]] = c
    BY <1>2, <1>3, FilesAsRecord
  <1>4a. /\ attempts[i].toDaemon[1] = c["context"]
         /\ attempts[i].toDaemon[2] = c["client"]
    BY <1>3
  <1>5. /\ answered \in Attempt
        /\ answered.page = attempts[i].page /\ answered.chosen = c
        /\ RightTypes(attempts[i]) => AttemptInv(answered)
    <2>1. <<c>> \in Seq([Fields -> Files])
      BY <1>2
    <2> QED BY <1>1, <2>1 DEF Attempt, AttemptInv, RightTypes
  <1>6. /\ failed \in Attempt
        /\ failed.page = attempts[i].page /\ failed.chosen = c
        /\ AttemptInv(failed)
    BY <1>1 DEF Attempt, AttemptInv, RightTypes
  <1>7. /\ refused \in Attempt
        /\ refused.page = attempts[i].page /\ refused.chosen = c
        /\ ~RightTypes(attempts[i]) => AttemptInv(refused)
    BY <1>1 DEF Attempt, AttemptInv, RightTypes
  <1>8. \/ attempts' = [attempts EXCEPT ![i] = answered] /\ RightTypes(attempts[i])
        \/ attempts' = [attempts EXCEPT ![i] = failed]
        \/ attempts' = [attempts EXCEPT ![i] = refused] /\ ~RightTypes(attempts[i])
    <2>1. Serve(i)
      BY DEF ServeDaemon
    <2> QED BY ONLY <2>1, <1>4, <1>4a DEF Serve, RightTypes
  <1>9. UNCHANGED <<live, data, reads, selections, posts, redirects>>
    BY DEF ServeDaemon
  <1> HIDE DEF answered, failed, refused
  <1> QED BY <1>5, <1>6, <1>7, <1>8, <1>9, OneAttemptKeeps

LEMMA OnMessageKeeps ==
    ASSUME PageInv, NEW i \in DOMAIN attempts, OnMessage(i)
    PROVE  PageInv' /\ Kept(attempts, attempts')
  <1> DEFINE a == [attempts[i] EXCEPT !.toPage = Tail(attempts[i].toPage)]
             m == PostIt(i, Head(attempts[i].toPage))
  <1>1. attempts[i] \in Attempt /\ AttemptInv(attempts[i])
    BY AttemptTyped
  <1>2. attempts[i].toPage = <<attempts[i].chosen>>
    BY <1>1 DEF AttemptInv, OnMessage
  <1>3. Tail(attempts[i].toPage) = <<>> /\ Head(attempts[i].toPage) = attempts[i].chosen
    BY <1>2
  <1>4. a = [attempts[i] EXCEPT !.toPage = <<>>]
    BY <1>3
  <1>5. /\ a \in Attempt
        /\ a.page = attempts[i].page /\ a.chosen = attempts[i].chosen
        /\ AttemptInv(a)
    BY <1>1, <1>4 DEF Attempt, AttemptInv, RightTypes
  <1>6. attempts' = [attempts EXCEPT ![i] = a] /\ posts' = posts \cup {m}
    BY DEF OnMessage
  <1>7. PostInv(m, attempts)
    <2>1. RightTypes(attempts[i])
      BY <1>1, <1>2 DEF AttemptInv
    <2> QED BY <1>3, <2>1 DEF PostInv, PostIt
  <1>8. i \in 1 .. MaxAttempts
    BY PageBoundsAssumption DEF PageInv, PageTypeOK
  <1>9. m \in [page : Pages, by : 1 .. MaxAttempts, message : [Fields -> Files]]
    BY <1>1, <1>3, <1>8 DEF PostIt, Attempt
  <1> HIDE DEF a, m
  <1>10. Kept(attempts, attempts')
    BY <1>5, <1>6, AttemptChanged
  <1>11. PageTypeOK'
    <2>1. OthersTyped'
      BY <1>6, <1>9, TypedOthers DEF OthersTyped, OnMessage
    <2> QED BY <1>10, <2>1 DEF PageTypeOK, OthersTyped, Kept
  <1>12. AttemptsInv'
    BY <1>10 DEF AttemptsInv, Kept
  <1>13. PostsInv'
    BY <1>6, <1>7, <1>10, PostKept DEF PageInv, PostsInv
  <1> QED BY <1>10, <1>11, <1>12, <1>13 DEF PageInv

LEMMA OnSuccessKeeps ==
    ASSUME PageInv, NEW p, OnSuccess(p)
    PROVE  PageInv' /\ Kept(attempts, attempts')
  <1> DEFINE T == Attempt
             left(i) == [attempts[i] EXCEPT !.socket = "closed", !.toPage = <<>>]
             b(i) == IF attempts[i].page = p THEN left(i) ELSE attempts[i]
  <1>1. ASSUME NEW i \in DOMAIN attempts
        PROVE  /\ b(i) \in T
               /\ b(i).page = attempts[i].page /\ b(i).chosen = attempts[i].chosen
               /\ AttemptInv(b(i))
    <2>1. attempts[i] \in Attempt /\ AttemptInv(attempts[i])
      BY AttemptTyped
    <2>2. left(i) \in Attempt
      <3>1. <<>> \in Seq([Fields -> Files])
        OBVIOUS
      <3> QED BY <2>1, <3>1 DEF Attempt
    <2>3. /\ left(i).page = attempts[i].page /\ left(i).chosen = attempts[i].chosen
          /\ AttemptInv(left(i))
      BY <2>1 DEF Attempt, AttemptInv, RightTypes
    <2> HIDE DEF left
    <2> QED BY <2>1, <2>2, <2>3
  <1>2. attempts \in Seq(T) /\ Len(attempts) <= MaxAttempts
    BY DEF PageInv, PageTypeOK
  <1>3. attempts' = [i \in DOMAIN attempts |-> b(i)]
    BY DEF OnSuccess
  <1> HIDE DEF T, b
  <1>4. DOMAIN attempts = 1 .. Len(attempts) /\ Len(attempts) \in Nat
    BY <1>2
  <1>5. attempts' \in [1 .. Len(attempts) -> T]
    BY <1>1, <1>3, <1>4
  <1>6. attempts' \in Seq(T) /\ Len(attempts') = Len(attempts)
    BY <1>4, <1>5, SeqDef
  <1>7. \A i \in DOMAIN attempts : i \in DOMAIN attempts' /\ attempts'[i] = b(i)
    BY <1>3
  <1>8. Kept(attempts, attempts')
    BY <1>1, <1>2, <1>3, <1>6, <1>7 DEF Kept, T
  <1>9. OthersTyped' /\ posts' \subseteq posts
    BY TypedOthers DEF OthersTyped, OnSuccess
  <1> QED BY <1>8, <1>9, PageInvFromKept

(* The provider's steps.                                                   *)
LEMMA ProviderKeeps ==
    ASSUME PageInv,
           \/ \E p \in Pages : PageLoads(p)
           \/ \E m \in posts : PostFails(m) \/ PostSucceeds(m)
    PROVE  PageInv' /\ Kept(attempts, attempts')
  <1>1. attempts' = attempts
    BY DEF PageLoads, PostFails, PostSucceeds
  <1>2. Kept(attempts, attempts')
    BY <1>1, SameAttempts
  <1>3. posts' \subseteq posts
    BY DEF PageLoads, PostFails, PostSucceeds
  <1>4. \A m \in posts : m.page \in Pages
    BY DEF PageInv, PageTypeOK
  <1>5. OthersTyped'
    BY <1>4, TypedOthers DEF OthersTyped, PageLoads, PostFails, PostSucceeds
  <1> QED BY <1>2, <1>3, <1>5, PageInvFromKept

----------------------------------------------------------------------------
(* The relying party.                                                      *)

(* A login that no tab is at the provider for: its identity is settled.    *)
Settled(h) == h <= logins /\ \A t \in Tabs : at[t] = "provider" => login[t] # h

Vouched(s, user) ==
    user = Nobody \/ \E h \in Logins : startedIn[h] = s /\ identity[h] = user /\ Settled(h)

(* The pending login of a session was started in it.                       *)
PendingInv(s, pending) ==
    pending \in Logins => startedIn[pending] = s /\ pending <= logins

SessionInv(s, session) == Vouched(s, session.user) /\ PendingInv(s, session.pending)

TabInv(t) ==
    /\ login[t] <= logins
    /\ \A u \in Tabs : u # t /\ login[u] = login[t] => login[t] = NoLogin
    /\ at[t] \in {"provider", "callback", "exchanging"} => login[t] \in Logins
    /\ at[t] = "exchanging" => /\ copy[t].sid \in Sessions
                               /\ copy[t].sid = startedIn[login[t]]
                               /\ SessionInv(copy[t].sid, copy[t].session)

RPInv ==
    /\ RPTypeOK
    /\ \A s \in Sessions : SessionInv(s, store[s])
    /\ \A t \in Tabs : TabInv(t)

(* What a request loads.                                                   *)
LEMMA LoadedSession ==
    ASSUME RPInv, HasSession \/ sessions < MaxSessions
    PROVE  /\ Loaded \in SessionData
           /\ Sid \in Sessions
           /\ SessionInv(Sid, Loaded)
  <1>1. CASE HasSession
    BY <1>1 DEF RPInv, RPTypeOK, HasSession, Loaded, Sid, SessionInv, NoSession, Sessions
  <1>2. CASE ~HasSession
    <2>1. Loaded = NewSession /\ Sid = sessions + 1
      BY <1>2 DEF Loaded, Sid
    <2>2. Sid \in Sessions
      BY <1>2, <2>1, SessionBoundsAssumption DEF RPInv, RPTypeOK, Sessions
    <2>3. NewSession \in SessionData
      BY DEF NewSession, SessionData
    <2>4. SessionInv(Sid, NewSession)
      BY DEF NewSession, SessionInv, Vouched, PendingInv, Logins, NoLogin
    <2> QED BY <2>1, <2>2, <2>3, <2>4
  <1> QED BY <1>1, <1>2

(* What was vouched for, or started, stays so.                             *)
VouchedStay ==
    \A s \in Sessions : \A user : Vouched(s, user) => Vouched(s, user)'
PendingStay ==
    \A s \in Sessions : \A pending : PendingInv(s, pending) => PendingInv(s, pending)'

LEMMA NoLoginStarted ==
    ASSUME RPInv, UNCHANGED <<login, startedIn, identity, logins>>,
           \A t \in Tabs : at'[t] = "provider" => at[t] = "provider"
    PROVE  VouchedStay /\ PendingStay
  BY DEF VouchedStay, PendingStay, Vouched, PendingInv, Settled

(* The end of a request that saves a right session.                        *)
LEMMA SaveKeeps ==
    ASSUME RPInv, NEW y \in Sessions, NEW s \in SessionData, y = Sid, Save(s),
           SessionInv(y, s)', VouchedStay, PendingStay
    PROVE  /\ store' \in [Sessions -> SessionData \cup {Absent}]
           /\ cookie' \in Sessions \cup {NoSession}
           /\ sessions' \in 0 .. MaxSessions
           /\ \A x \in Sessions : SessionInv(x, store[x])'
  <1>1. store \in [Sessions -> SessionData \cup {Absent}] /\ sessions \in 0 .. MaxSessions
    BY DEF RPInv, RPTypeOK
  <1>2. store' = [store EXCEPT ![y] = s] /\ cookie' = y
    BY DEF Save
  <1>3. sessions' \in 0 .. MaxSessions
    BY <1>1, SessionBoundsAssumption DEF Save
  <1>4. ASSUME NEW x \in Sessions
        PROVE  SessionInv(x, store[x])'
    <2>1. CASE x = y
      BY <1>1, <1>2, <2>1 DEF SessionInv, Vouched, PendingInv
    <2>2. CASE x # y
      <3>1. store'[x] = store[x] /\ store[x] \in SessionData \cup {Absent}
        BY <1>1, <1>2, <2>2
      <3>2. SessionInv(x, store[x])
        BY DEF RPInv
      <3>3. Vouched(x, store[x].user)' /\ PendingInv(x, store[x].pending)'
        BY <3>1, <3>2 DEF SessionInv, VouchedStay, PendingStay, Vouched, PendingInv
      <3> QED BY <3>3 DEF SessionInv
    <2> QED BY <2>1, <2>2
  <1> QED BY <1>1, <1>2, <1>3, <1>4

(* A request that loads a session and saves it with another pending login, *)
(* or none, and shows a tab another place.                                 *)
LEMMA TabsKept ==
    ASSUME RPInv, NEW t \in Tabs, NEW place,
           at' = [at EXCEPT ![t] = place], place \notin {"provider", "exchanging"},
           place = "callback" => at[t] = "provider",
           UNCHANGED <<login, startedIn, identity, logins>>,
           copy' = copy \/ copy' = [copy EXCEPT ![t] = NoCopy]
    PROVE  VouchedStay /\ PendingStay /\ \A u \in Tabs : TabInv(u)'
  <1>1. at \in [Tabs -> {"start", "home", "login", "provider", "callback", "exchanging",
                         "authorized", "profile", "refused", "failed"}]
    BY DEF RPInv, RPTypeOK
  <1>2. \A u \in Tabs : at'[u] = IF u = t THEN place ELSE at[u]
    BY <1>1
  <1>3. VouchedStay /\ PendingStay
    BY <1>2, NoLoginStarted
  <1>4. ASSUME NEW u \in Tabs
        PROVE  TabInv(u)'
    <2>1. TabInv(u)
      BY DEF RPInv
    <2>2. /\ login'[u] <= logins'
          /\ \A v \in Tabs : v # u /\ login'[v] = login'[u] => login'[u] = NoLogin
          /\ at'[u] \in {"provider", "callback", "exchanging"} => login'[u] \in Logins
      BY <1>2, <2>1 DEF TabInv
    <2>3. ASSUME at'[u] = "exchanging"
          PROVE  /\ copy'[u].sid \in Sessions
                 /\ copy'[u].sid = startedIn'[login'[u]]
                 /\ SessionInv(copy[u].sid, copy[u].session)'
      <3>1. u # t /\ at[u] = "exchanging"
        BY <1>2, <2>3
      <3>2. copy'[u] = copy[u]
        BY <3>1 DEF RPInv, RPTypeOK
      <3>3. copy[u].sid \in Sessions /\ SessionInv(copy[u].sid, copy[u].session)
        BY <2>1, <3>1 DEF TabInv
      <3>4. SessionInv(copy[u].sid, copy[u].session)'
        BY <1>3, <3>2, <3>3 DEF SessionInv, VouchedStay, PendingStay, Vouched, PendingInv
      <3> QED BY <2>1, <3>1, <3>2, <3>3, <3>4 DEF TabInv
    <2> QED BY <2>2, <2>3 DEF TabInv
  <1> QED BY <1>3, <1>4

LEMMA GetHomeKeeps ==
    ASSUME RPInv, NEW t \in Tabs, GetHome(t) \/ GetProfile(t)
    PROVE  RPInv'
  <1>1. PICK place : /\ place \in {"home", "profile", "login"}
                     /\ at' = [at EXCEPT ![t] = place]
    BY DEF GetHome, GetProfile, Show
  <1>2. PICK y, s : y = Sid /\ s = Loaded
    OBVIOUS
  <1>3. Save(s) /\ (HasSession \/ sessions < MaxSessions)
    BY <1>2 DEF GetHome, GetProfile, Save
  <1>4. y \in Sessions /\ s \in SessionData /\ SessionInv(y, s)
    BY <1>2, <1>3, LoadedSession
  <1>5. UNCHANGED <<login, copy, startedIn, identity, logins, ends>>
    BY DEF GetHome, GetProfile
  <1>6. VouchedStay /\ PendingStay /\ \A u \in Tabs : TabInv(u)'
    BY <1>1, <1>5, TabsKept
  <1>7. SessionInv(y, s)'
    BY <1>4, <1>6 DEF SessionInv, VouchedStay, PendingStay, Vouched, PendingInv
  <1>8. /\ store' \in [Sessions -> SessionData \cup {Absent}]
        /\ cookie' \in Sessions \cup {NoSession}
        /\ sessions' \in 0 .. MaxSessions
        /\ \A x \in Sessions : SessionInv(x, store[x])'
    BY <1>2, <1>3, <1>4, <1>6, <1>7, SaveKeeps
  <1>9. RPTypeOK'
    BY <1>1, <1>5, <1>8 DEF RPInv, RPTypeOK
  <1> QED BY <1>6, <1>8, <1>9 DEF RPInv

LEMMA LoginKeeps ==
    ASSUME RPInv, NEW t \in Tabs, Login(t)
    PROVE  RPInv'
  <1>1. PICK y, s : y = Sid /\ s = WithPending(Loaded, logins + 1)
    OBVIOUS
  <1>2. Save(s) /\ (HasSession \/ sessions < MaxSessions)
    BY <1>1 DEF Login, Save
  <1>3. /\ logins' = logins + 1
        /\ login' = [login EXCEPT ![t] = logins + 1]
        /\ startedIn' = [startedIn EXCEPT ![logins + 1] = y]
        /\ at' = [at EXCEPT ![t] = "provider"]
        /\ UNCHANGED <<copy, identity, ends>>
    BY <1>1 DEF Login, Show
  <1>4. logins + 1 \in Logins /\ logins \in Nat
    BY SessionBoundsAssumption DEF RPInv, RPTypeOK, Login, Logins
  <1>5. Loaded \in SessionData /\ y \in Sessions /\ SessionInv(y, Loaded)
    BY <1>1, <1>2, LoadedSession
  <1>6. s \in SessionData /\ s.user = Loaded.user /\ s.pending = logins + 1
    BY <1>1, <1>4, <1>5 DEF WithPending, SessionData
  <1>7. /\ \A u \in Tabs : login'[u] = IF u = t THEN logins + 1 ELSE login[u]
        /\ \A u \in Tabs : at'[u] = IF u = t THEN "provider" ELSE at[u]
        /\ \A h \in Logins : startedIn'[h] = IF h = logins + 1 THEN y ELSE startedIn[h]
    BY <1>3, <1>4 DEF RPInv, RPTypeOK
  <1>8. VouchedStay
    <2> SUFFICES ASSUME NEW x \in Sessions, NEW user, Vouched(x, user), user # Nobody
                 PROVE  Vouched(x, user)'
      BY DEF VouchedStay, Vouched
    <2>1. PICK h \in Logins : startedIn[h] = x /\ identity[h] = user /\ Settled(h)
      BY DEF Vouched
    <2>2. h # logins + 1
      BY <1>4, <2>1 DEF Settled, Logins
    <2>3. startedIn'[h] = x /\ identity'[h] = user
      BY <1>3, <1>7, <2>1, <2>2
    <2>4. Settled(h)'
      BY <1>3, <1>4, <1>7, <2>1, <2>2 DEF Settled, Logins
    <2> QED BY <2>3, <2>4 DEF Vouched
  <1>9. PendingStay
    BY <1>3, <1>4, <1>7 DEF PendingStay, PendingInv, Logins
  <1>10. SessionInv(y, s)'
    <2>1. Vouched(y, s.user)'
      BY <1>5, <1>6, <1>8 DEF SessionInv, VouchedStay, Vouched
    <2>2. PendingInv(y, s.pending)'
      BY <1>3, <1>4, <1>6, <1>7 DEF PendingInv
    <2> QED BY <2>1, <2>2 DEF SessionInv
  <1>11. /\ store' \in [Sessions -> SessionData \cup {Absent}]
         /\ cookie' \in Sessions \cup {NoSession}
         /\ sessions' \in 0 .. MaxSessions
         /\ \A x \in Sessions : SessionInv(x, store[x])'
    BY <1>1, <1>2, <1>5, <1>6, <1>8, <1>9, <1>10, SaveKeeps
  <1>12. RPTypeOK'
    <2>1. /\ at' \in [Tabs -> {"start", "home", "login", "provider", "callback",
                               "exchanging", "authorized", "profile", "refused", "failed"}]
          /\ login' \in [Tabs -> Logins \cup {NoLogin}]
          /\ startedIn' \in [Logins -> Sessions \cup {NoSession}]
      BY <1>3, <1>4, <1>5 DEF RPInv, RPTypeOK
    <2>2. logins' \in 0 .. MaxLogins
      BY <1>3, <1>4 DEF Logins
    <2> QED BY <1>3, <1>11, <2>1, <2>2 DEF RPInv, RPTypeOK
  <1>13. ASSUME NEW u \in Tabs
         PROVE  TabInv(u)'
    <2>1. TabInv(u) /\ \A v \in Tabs : TabInv(v)
      BY DEF RPInv
    <2>2. \A v \in Tabs : login[v] \in Logins \cup {NoLogin} /\ login[v] <= logins
      BY <2>1 DEF RPInv, RPTypeOK, TabInv
    <2>3. login'[u] <= logins'
      BY <1>3, <1>4, <1>7, <2>2 DEF Logins, NoLogin
    <2>4. ASSUME NEW v \in Tabs, v # u, login'[v] = login'[u]
          PROVE  login'[u] = NoLogin
      BY <1>4, <1>7, <2>1, <2>2, <2>4 DEF TabInv, Logins, NoLogin
    <2>5. at'[u] \in {"provider", "callback", "exchanging"} => login'[u] \in Logins
      BY <1>4, <1>7, <2>1 DEF TabInv
    <2>6. ASSUME at'[u] = "exchanging"
          PROVE  /\ copy'[u].sid \in Sessions
                 /\ copy'[u].sid = startedIn'[login'[u]]
                 /\ SessionInv(copy[u].sid, copy[u].session)'
      <3>1. u # t /\ at[u] = "exchanging" /\ copy' = copy /\ login'[u] = login[u]
        BY <1>3, <1>7, <2>6
      <3>2. /\ copy[u].sid \in Sessions
            /\ copy[u].sid = startedIn[login[u]]
            /\ SessionInv(copy[u].sid, copy[u].session)
            /\ login[u] \in Logins /\ login[u] <= logins
        BY <2>1, <3>1 DEF TabInv
      <3>3. startedIn'[login[u]] = startedIn[login[u]]
        BY <1>4, <1>7, <3>2 DEF Logins
      <3>4. SessionInv(copy[u].sid, copy[u].session)'
        BY <1>8, <1>9, <3>1, <3>2 DEF SessionInv, VouchedStay, PendingStay, Vouched, PendingInv
      <3> QED BY <3>1, <3>2, <3>3, <3>4
    <2> QED BY <2>3, <2>4, <2>5, <2>6 DEF TabInv
  <1> QED BY <1>11, <1>12, <1>13 DEF RPInv

(* A refused callback.                                                     *)
LEMMA RefusedCallbackKeeps ==
    ASSUME RPInv, NEW t \in Tabs, BeginCallback(t), ~StateMatches(Loaded, login[t])
    PROVE  RPInv'
  <1>1. PICK y, s : y = Sid /\ s = [Loaded EXCEPT !.pending = NoLogin]
    OBVIOUS
  <1>2. /\ Save(s) /\ (HasSession \/ sessions < MaxSessions)
        /\ at' = [at EXCEPT ![t] = "refused"]
        /\ UNCHANGED <<login, copy, startedIn, identity, logins, ends>>
    BY <1>1 DEF BeginCallback, ErrorPage, Show, Save
  <1>3. Loaded \in SessionData /\ y \in Sessions /\ SessionInv(y, Loaded)
    BY <1>1, <1>2, LoadedSession
  <1>4. s \in SessionData /\ s.user = Loaded.user /\ s.pending = NoLogin
    BY <1>1, <1>3 DEF SessionData
  <1>5. SessionInv(y, s)
    BY <1>3, <1>4 DEF SessionInv, PendingInv, Logins, NoLogin
  <1>6. VouchedStay /\ PendingStay /\ \A u \in Tabs : TabInv(u)'
    BY <1>2, TabsKept
  <1>7. SessionInv(y, s)'
    BY <1>3, <1>5, <1>6 DEF SessionInv, VouchedStay, PendingStay, Vouched, PendingInv
  <1>8. /\ store' \in [Sessions -> SessionData \cup {Absent}]
        /\ cookie' \in Sessions \cup {NoSession}
        /\ sessions' \in 0 .. MaxSessions
        /\ \A x \in Sessions : SessionInv(x, store[x])'
    BY <1>1, <1>2, <1>3, <1>4, <1>6, <1>7, SaveKeeps
  <1>9. RPTypeOK'
    BY <1>2, <1>8 DEF RPInv, RPTypeOK
  <1> QED BY <1>6, <1>8, <1>9 DEF RPInv

(* A callback that goes on: its login was started in the session it works  *)
(* on.                                                                     *)
LEMMA AcceptedCallbackKeeps ==
    ASSUME RPInv, NEW t \in Tabs, BeginCallback(t), StateMatches(Loaded, login[t])
    PROVE  RPInv'
  <1>1. PICK y, s : y = Sid /\ s = [Loaded EXCEPT !.pending = NoLogin]
    OBVIOUS
  <1>2. /\ at[t] = "callback"
        /\ at' = [at EXCEPT ![t] = "exchanging"]
        /\ copy' = [copy EXCEPT ![t] = [sid |-> y, session |-> s]]
        /\ UNCHANGED <<store, cookie, sessions, login, startedIn, identity, logins, ends>>
    BY <1>1 DEF BeginCallback, Show
  <1>3. login[t] \in Logins
    BY <1>2 DEF RPInv, TabInv
  <1>4. HasSession
    BY <1>3 DEF StateMatches, Loaded, NewSession, Logins, NoLogin
  <1>5. Loaded \in SessionData /\ y \in Sessions /\ SessionInv(y, Loaded)
    BY <1>1, <1>4, LoadedSession
  <1>6. s \in SessionData /\ s.user = Loaded.user /\ s.pending = NoLogin
    BY <1>1, <1>5 DEF SessionData
  <1>7. SessionInv(y, s)
    BY <1>5, <1>6 DEF SessionInv, PendingInv, Logins, NoLogin
  <1>8. startedIn[login[t]] = y
    BY <1>3, <1>5 DEF StateMatches, SessionInv, PendingInv
  <1>9. \A u \in Tabs : /\ at'[u] = IF u = t THEN "exchanging" ELSE at[u]
                        /\ copy'[u] = IF u = t THEN [sid |-> y, session |-> s] ELSE copy[u]
    BY <1>2 DEF RPInv, RPTypeOK
  <1>10. VouchedStay /\ PendingStay
    BY <1>2, <1>9, NoLoginStarted
  <1>11. RPTypeOK'
    <2>1. copy' \in [Tabs -> [sid : Sessions \cup {NoSession}, session : SessionData]]
      BY <1>2, <1>5, <1>6 DEF RPInv, RPTypeOK
    <2> QED BY <1>2, <2>1 DEF RPInv, RPTypeOK
  <1>12. \A x \in Sessions : SessionInv(x, store[x])'
    BY <1>2, <1>10 DEF RPInv, SessionInv, VouchedStay, PendingStay, Vouched, PendingInv
  <1>13. ASSUME NEW u \in Tabs
         PROVE  TabInv(u)'
    <2>1. TabInv(u)
      BY DEF RPInv
    <2>2. CASE u = t
      <3>1. SessionInv(y, s)'
        BY <1>5, <1>7, <1>10 DEF SessionInv, VouchedStay, PendingStay, Vouched, PendingInv
      <3>2. copy'[u].sid = y /\ copy'[u].session = s
        BY <1>9, <2>2
      <3>3. SessionInv(copy[u].sid, copy[u].session)'
        BY <3>1, <3>2 DEF SessionInv, Vouched, PendingInv
      <3> QED BY <1>2, <1>3, <1>5, <1>8, <1>9, <2>1, <2>2, <3>2, <3>3 DEF TabInv
    <2>3. CASE u # t
      <3>1. at'[u] = at[u] /\ copy'[u] = copy[u]
        BY <1>9, <2>3
      <3>2. at[u] = "exchanging" => SessionInv(copy[u].sid, copy[u].session)'
        BY <1>10, <2>1, <3>1
           DEF TabInv, SessionInv, VouchedStay, PendingStay, Vouched, PendingInv
      <3> QED BY <1>2, <2>1, <3>1, <3>2 DEF TabInv
    <2> QED BY <2>2, <2>3
  <1> QED BY <1>11, <1>12, <1>13 DEF RPInv

(* The end of a callback: the session of its login gets who the provider   *)
(* authenticated in this login, or keeps the user it had.                  *)
LEMMA EndCallbackKeeps ==
    ASSUME RPInv, NEW t \in Tabs, EndCallback(t)
    PROVE  RPInv'
  <1>1. PICK y, c, h : y = copy[t].sid /\ c = copy[t].session /\ h = login[t]
    OBVIOUS
  <1>2. /\ at[t] = "exchanging"
        /\ copy' = [copy EXCEPT ![t] = NoCopy]
        /\ UNCHANGED <<cookie, login, startedIn, identity, logins, sessions, ends>>
    BY DEF EndCallback
  <1>3. PICK place, s : /\ place \in {"authorized", "failed"}
                        /\ at' = [at EXCEPT ![t] = place]
                        /\ store' = [store EXCEPT ![y] = s]
                        /\ s = [c EXCEPT !.user = identity[h]] \/ s = c
    BY <1>1 DEF EndCallback, ErrorPage, Show
  <1>4. VouchedStay /\ PendingStay /\ \A u \in Tabs : TabInv(u)'
    BY <1>2, <1>3, TabsKept
  <1>5. /\ y \in Sessions /\ c \in SessionData /\ SessionInv(y, c)
        /\ h \in Logins /\ y = startedIn[h] /\ h <= logins
        /\ \A u \in Tabs : u # t => login[u] # h
    BY <1>1, <1>2 DEF RPInv, RPTypeOK, TabInv, Logins, NoLogin
  <1>6. s \in SessionData /\ s.pending = c.pending /\ s.user \in {c.user, identity[h]}
    BY <1>3, <1>5 DEF RPInv, RPTypeOK, SessionData
  <1>7. Settled(h)
    BY <1>2, <1>5 DEF Settled
  <1>8. Vouched(y, s.user)
    BY <1>5, <1>6, <1>7 DEF SessionInv, Vouched
  <1>9. Vouched(y, s.user)' /\ PendingInv(y, s.pending)'
    BY <1>4, <1>5, <1>6, <1>8
       DEF SessionInv, VouchedStay, PendingStay, Vouched, PendingInv
  <1>10. ASSUME NEW x \in Sessions
         PROVE  SessionInv(x, store[x])'
    <2>1. store \in [Sessions -> SessionData \cup {Absent}]
      BY DEF RPInv, RPTypeOK
    <2>2. CASE x = y
      <3>1. store'[x] = s
        BY <1>3, <2>1, <2>2
      <3> QED BY <1>9, <2>2, <3>1 DEF SessionInv, Vouched, PendingInv
    <2>3. CASE x # y
      <3>1. store'[x] = store[x] /\ SessionInv(x, store[x])
        BY <1>3, <2>1, <2>3 DEF RPInv
      <3> QED BY <1>4, <3>1 DEF SessionInv, VouchedStay, PendingStay, Vouched, PendingInv
    <2> QED BY <2>2, <2>3
  <1>11. RPTypeOK'
    <2>1. copy' \in [Tabs -> [sid : Sessions \cup {NoSession}, session : SessionData]]
      BY <1>2 DEF RPInv, RPTypeOK, NoCopy, NewSession, SessionData
    <2>2. store' \in [Sessions -> SessionData \cup {Absent}]
      BY <1>3, <1>5, <1>6 DEF RPInv, RPTypeOK
    <2> QED BY <1>2, <1>3, <2>1, <2>2 DEF RPInv, RPTypeOK
  <1> QED BY <1>4, <1>10, <1>11 DEF RPInv

(* Where sessions are only ended, those that remain are right.             *)
LEMMA EndedSessionsKeep ==
    ASSUME RPInv, VouchedStay, PendingStay, NEW x \in Sessions,
           store'[x] = store[x] \/ store'[x] = Absent
    PROVE  SessionInv(x, store[x])'
  <1>1. CASE store'[x] = store[x]
    BY <1>1 DEF RPInv, SessionInv, VouchedStay, PendingStay, Vouched, PendingInv
  <1>2. CASE store'[x] = Absent
    <2>1. store'[x].user = Nobody /\ store'[x].pending \notin Logins
      BY <1>2 DEF Absent, Logins
    <2> QED BY <2>1 DEF SessionInv, Vouched, PendingInv
  <1> QED BY <1>1, <1>2

LEMMA LogoutKeeps ==
    ASSUME RPInv, NEW t \in Tabs, Logout(t)
    PROVE  RPInv'
  <1>1. /\ at' = [at EXCEPT ![t] = "start"]
        /\ UNCHANGED <<cookie, login, copy, startedIn, identity, logins, sessions>>
        /\ ends' \in 0 .. MaxEnds
        /\ store' = store \/ store' = [store EXCEPT ![cookie] = Absent]
    BY SessionBoundsAssumption DEF RPInv, RPTypeOK, Logout, Show
  <1>2. VouchedStay /\ PendingStay /\ \A u \in Tabs : TabInv(u)'
    <2>1. PICK place : place = "start"
      OBVIOUS
    <2>2. /\ at' = [at EXCEPT ![t] = place]
          /\ place \notin {"provider", "exchanging"}
          /\ place = "callback" => at[t] = "provider"
      BY <1>1, <2>1
    <2>3. UNCHANGED <<login, startedIn, identity, logins>> /\ copy' = copy
      BY <1>1
    <2> QED BY <2>2, <2>3, TabsKept
  <1>3. \A x \in Sessions : store'[x] = store[x] \/ store'[x] = Absent
    BY <1>1 DEF RPInv, RPTypeOK
  <1>4. RPTypeOK'
    <2>1. store' \in [Sessions -> SessionData \cup {Absent}]
      BY <1>1 DEF RPInv, RPTypeOK
    <2> QED BY <1>1, <2>1 DEF RPInv, RPTypeOK
  <1> QED BY <1>2, <1>3, <1>4, EndedSessionsKeep DEF RPInv

LEMMA RestartRPKeeps ==
    ASSUME RPInv, RestartRP
    PROVE  RPInv'
  <1>1. /\ \A x \in Sessions : store'[x] = Absent
        /\ \A u \in Tabs : at'[u] = IF at[u] = "exchanging" THEN "failed" ELSE at[u]
        /\ UNCHANGED <<cookie, login, startedIn, identity, logins, sessions>>
    BY DEF RestartRP
  <1>2. VouchedStay /\ PendingStay
    BY <1>1, NoLoginStarted
  <1>3. \A u \in Tabs : TabInv(u)'
    BY <1>1 DEF RPInv, TabInv
  <1>4. RPTypeOK'
    BY SessionBoundsAssumption
       DEF RPInv, RPTypeOK, RestartRP, NoCopy, NewSession, SessionData
  <1> QED BY <1>1, <1>2, <1>3, <1>4, EndedSessionsKeep DEF RPInv

(* The provider authenticates only in logins a tab is at its page for, and *)
(* no session has a user from one of these yet.                            *)
LEMMA AuthenticatesKeeps ==
    ASSUME RPInv, NEW h, NEW tag \in Tags, Authenticates(h, tag)
    PROVE  RPInv'
  <1>1. /\ identity' = [identity EXCEPT ![h] = tag]
        /\ UNCHANGED <<store, cookie, at, login, copy, startedIn, logins, sessions, ends>>
        /\ ~Settled(h)
    BY DEF Authenticates, Settled
  <1>2. \A g \in Logins : g # h => identity'[g] = identity[g]
    BY <1>1 DEF RPInv, RPTypeOK
  <1>3. \A g \in Logins : Settled(g) => Settled(g)'
    BY <1>1 DEF Settled
  <1>4. VouchedStay
    BY <1>1, <1>2, <1>3 DEF VouchedStay, Vouched
  <1>5. PendingStay
    BY <1>1 DEF PendingStay, PendingInv
  <1>6. RPTypeOK'
    BY <1>1 DEF RPInv, RPTypeOK
  <1>7. \A x \in Sessions : SessionInv(x, store[x])'
    BY <1>1, <1>4, <1>5, EndedSessionsKeep
  <1>8. ASSUME NEW u \in Tabs
        PROVE  TabInv(u)'
    <2>1. TabInv(u)
      BY DEF RPInv
    <2>2. at[u] = "exchanging" => SessionInv(copy[u].sid, copy[u].session)'
      BY <1>1, <1>4, <1>5, <2>1
         DEF TabInv, SessionInv, VouchedStay, PendingStay, Vouched, PendingInv
    <2> QED BY <1>1, <2>1, <2>2 DEF TabInv
  <1> QED BY <1>6, <1>7, <1>8 DEF RPInv

LEMMA ApprovesKeeps ==
    ASSUME RPInv, NEW t \in Tabs, Approves(t)
    PROVE  RPInv'
  <1>1. /\ at[t] = "provider"
        /\ at' = [at EXCEPT ![t] = "callback"]
        /\ UNCHANGED <<store, cookie, login, copy, startedIn, identity, logins, sessions, ends>>
    BY DEF Approves, Show
  <1>2. VouchedStay /\ PendingStay /\ \A u \in Tabs : TabInv(u)'
    <2>1. PICK place : place = "callback"
      OBVIOUS
    <2>2. /\ at' = [at EXCEPT ![t] = place]
          /\ place \notin {"provider", "exchanging"}
          /\ place = "callback" => at[t] = "provider"
      BY <1>1, <2>1
    <2>3. UNCHANGED <<login, startedIn, identity, logins>> /\ copy' = copy
      BY <1>1
    <2> QED BY <2>2, <2>3, TabsKept
  <1>3. \A x \in Sessions : SessionInv(x, store[x])'
    BY <1>1, <1>2, EndedSessionsKeep
  <1>4. RPTypeOK'
    BY <1>1 DEF RPInv, RPTypeOK
  <1> QED BY <1>2, <1>3, <1>4 DEF RPInv

----------------------------------------------------------------------------
(* The login.                                                              *)

(* Who the provider authenticated in a login is a client that was chosen   *)
(* in an attempt of its page, and a member of the context chosen with it.  *)
AuthenticatedIn(h, who, as) ==
    \E i \in DOMAIN as :
        /\ as[i].page = h
        /\ who = <<as[i].chosen["context"], as[i].chosen["client"]>>
        /\ as[i].chosen["client"] \in Members[as[i].chosen["context"]]

IdentityInv ==
    \A h \in Logins : identity[h] # Nobody => AuthenticatedIn(h, identity[h], attempts)

Inv == PageInv /\ RPInv /\ IdentityInv

LEMMA AuthenticatedKept ==
    ASSUME NEW h, NEW who, NEW as, NEW bs, Kept(as, bs), AuthenticatedIn(h, who, as)
    PROVE  AuthenticatedIn(h, who, bs)
  <1>1. PICK i \in DOMAIN as : /\ as[i].page = h
                               /\ who = <<as[i].chosen["context"], as[i].chosen["client"]>>
                               /\ as[i].chosen["client"] \in Members[as[i].chosen["context"]]
    BY DEF AuthenticatedIn
  <1>2. i \in DOMAIN bs /\ bs[i].page = as[i].page /\ bs[i].chosen = as[i].chosen
    BY DEF Kept
  <1> QED BY <1>1, <1>2 DEF AuthenticatedIn

(* The invariant holds.                                                    *)
LEMMA InitInv == Init => Inv
  <1> SUFFICES ASSUME Init
               PROVE  Inv
    OBVIOUS
  <1>1. PageInv
    <2>1. PageTypeOK
      BY PageBoundsAssumption DEF Init, PageInit, PageTypeOK, Empty, Loadable
    <2> QED BY <2>1 DEF Init, PageInit, PageInv, AttemptsInv, PostsInv
  <1>2. RPTypeOK
    BY SessionBoundsAssumption
       DEF Init, RPInit, RPTypeOK, NoCopy, NewSession, SessionData
  <1>3. \A s \in Sessions : SessionInv(s, store[s])
    BY DEF Init, RPInit, Absent, SessionInv, Vouched, PendingInv, Logins
  <1>4. \A t \in Tabs : TabInv(t)
    BY DEF Init, RPInit, TabInv, NoLogin
  <1>5. IdentityInv
    BY DEF Init, RPInit, IdentityInv
  <1> QED BY <1>1, <1>2, <1>3, <1>4, <1>5 DEF Inv, RPInv

(* A step of the page alone.                                               *)
LEMMA PageStepKeeps ==
    ASSUME PageInv, PageStep
    PROVE  PageInv' /\ Kept(attempts, attempts')
  <1>1. CASE \E p \in Logins, f \in Fields, file \in Files : ReadFile(p, f, file)
    BY <1>1, ReadFileKeeps, PagesAssumption
  <1>2. CASE \E p \in Logins : BuildAuthMsg(p)
    BY <1>2, BuildAuthMsgKeeps, PagesAssumption
  <1>3. CASE \E r \in reads : OnLoad(r)
    BY <1>3, OnLoadKeeps
  <1>4. CASE \E i \in DOMAIN attempts : AttemptStep(i) \/ DaemonStops(i)
    <2>1. PICK i \in DOMAIN attempts : AttemptStep(i) \/ DaemonStops(i)
      BY <1>4
    <2> QED BY <2>1, OnOpenKeeps, RefusedKeeps, OnMessageKeeps, ServeDaemonKeeps DEF AttemptStep
  <1> QED BY <1>1, <1>2, <1>3, <1>4 DEF PageStep

(* A step of the relying party alone.                                      *)
LEMMA RPStepKeeps ==
    ASSUME RPInv, (\E t \in Tabs : Request(t)) \/ RestartRP
    PROVE  RPInv' /\ identity' = identity
  <1>1. CASE RestartRP
    BY <1>1, RestartRPKeeps DEF RestartRP
  <1>2. ASSUME NEW t \in Tabs, Request(t)
        PROVE  RPInv'
    <2>1. CASE GetHome(t) \/ GetProfile(t)
      BY <2>1, GetHomeKeeps
    <2>2. CASE BeginCallback(t)
      BY <2>2, RefusedCallbackKeeps, AcceptedCallbackKeeps
    <2>3. CASE EndCallback(t)
      BY <2>3, EndCallbackKeeps
    <2>4. CASE Logout(t)
      BY <2>4, LogoutKeeps
    <2> QED BY <1>2, <2>1, <2>2, <2>3, <2>4 DEF Request
  <1>3. ASSUME NEW t \in Tabs, Request(t)
        PROVE  identity' = identity
    BY <1>3 DEF Request, GetHome, GetProfile, BeginCallback, EndCallback, Logout
  <1> QED BY <1>1, <1>2, <1>3

(* Steps in which the provider authenticates nobody.                       *)
LEMMA IdentityKept ==
    ASSUME IdentityInv, identity' = identity, Kept(attempts, attempts')
    PROVE  IdentityInv'
  BY AuthenticatedKept DEF IdentityInv

LEMMA HandlePostKeeps ==
    ASSUME Inv, NEW m \in posts, HandlePost(m)
    PROVE  Inv'
  <1>1. CASE PostFails(m) /\ UNCHANGED rpVars
    <2>1. PageInv' /\ Kept(attempts, attempts')
      BY <1>1, ProviderKeeps DEF Inv
    <2>2. RPInv'
      BY <1>1 DEF Inv, rpVars, RPInv, RPTypeOK, SessionInv, Vouched, PendingInv, Settled, TabInv
    <2>3. IdentityInv'
      BY <1>1, <2>1, IdentityKept DEF Inv, rpVars
    <2> QED BY <2>1, <2>2, <2>3 DEF Inv
  <1>2. CASE /\ m.message["client"] \in Members[m.message["context"]]
             /\ Authenticates(m.page, <<m.message["context"], m.message["client"]>>)
             /\ PostSucceeds(m)
    <2> DEFINE c == m.message["context"]
               k == m.message["client"]
    <2>1. PageInv' /\ Kept(attempts, attempts')
      BY <1>2, ProviderKeeps DEF Inv
    <2>2. PostInv(m, attempts)
      BY DEF Inv, PageInv, PostsInv
    <2>3. <<c, k>> \in Tags
      BY <2>2, SubjectsAssumption DEF PostInv, RightTypes
    <2>4. RPInv'
      BY <1>2, <2>3, AuthenticatesKeeps DEF Inv
    <2>5. AuthenticatedIn(m.page, <<c, k>>, attempts)
      BY <1>2, <2>2 DEF PostInv, AuthenticatedIn
    <2>6. identity' = [identity EXCEPT ![m.page] = <<c, k>>]
      BY <1>2 DEF Authenticates
    <2>7. ASSUME NEW h \in Logins, identity'[h] # Nobody
          PROVE  AuthenticatedIn(h, identity'[h], attempts')
      <3>1. identity \in [Logins -> Tags \cup {Nobody}]
        BY DEF Inv, RPInv, RPTypeOK
      <3>2. CASE h = m.page
        BY <2>1, <2>5, <2>6, <3>1, <3>2, AuthenticatedKept
      <3>3. CASE h # m.page
        <4>1. identity'[h] = identity[h]
          BY <2>6, <3>1, <3>3
        <4> QED BY <2>1, <2>7, <4>1, AuthenticatedKept DEF Inv, IdentityInv
      <3> QED BY <3>2, <3>3
    <2>8. IdentityInv'
      BY <2>7 DEF IdentityInv
    <2> QED BY <2>1, <2>4, <2>8 DEF Inv
  <1> QED BY <1>1, <1>2 DEF HandlePost

LEMMA NextKeeps == Inv /\ [Next]_vars => Inv'
  <1> SUFFICES ASSUME Inv, [Next]_vars
               PROVE  Inv'
    OBVIOUS
  <1> USE DEF Inv
  <1>1. ASSUME NEW t \in Tabs, StartLogin(t)
        PROVE  Inv'
    <2>1. logins + 1 \in Pages
      BY <1>1, PagesAssumption, SessionBoundsAssumption
         DEF StartLogin, Login, RPInv, RPTypeOK, Logins
    <2>2. PageInv' /\ Kept(attempts, attempts')
      BY <1>1, <2>1, ProviderKeeps DEF StartLogin
    <2>3. RPInv' /\ identity' = identity
      BY <1>1, LoginKeeps DEF StartLogin, Login
    <2> QED BY <2>2, <2>3, IdentityKept
  <1>2. ASSUME NEW t \in Tabs, FinishLogin(t)
        PROVE  Inv'
    <2>1. PageInv' /\ Kept(attempts, attempts')
      BY <1>2, OnSuccessKeeps DEF FinishLogin
    <2>2. RPInv' /\ identity' = identity
      BY <1>2, ApprovesKeeps DEF FinishLogin, Approves
    <2> QED BY <2>1, <2>2, IdentityKept
  <1>3. ASSUME NEW m \in posts, HandlePost(m)
        PROVE  Inv'
    BY <1>3, HandlePostKeeps
  <1>4. CASE PageStep /\ UNCHANGED rpVars
    <2>1. PageInv' /\ Kept(attempts, attempts')
      BY <1>4, PageStepKeeps
    <2>2. RPInv'
      BY <1>4 DEF rpVars, RPInv, RPTypeOK, SessionInv, Vouched, PendingInv, Settled, TabInv
    <2> QED BY <1>4, <2>1, <2>2, IdentityKept DEF rpVars
  <1>5. CASE ((\E t \in Tabs : Request(t)) \/ RestartRP) /\ UNCHANGED pageVars
    <2>1. RPInv' /\ identity' = identity
      BY <1>5, RPStepKeeps
    <2>2. PageInv' /\ Kept(attempts, attempts')
      BY <1>5, SameAttempts
         DEF pageVars, PageInv, PageTypeOK, AttemptsInv, PostsInv
    <2> QED BY <2>1, <2>2, IdentityKept
  <1>6. CASE UNCHANGED vars
    <2>1. PageInv'
      BY <1>6 DEF vars, pageVars, PageInv, PageTypeOK, AttemptsInv, PostsInv
    <2>2. RPInv'
      BY <1>6
         DEF vars, rpVars, RPInv, RPTypeOK, SessionInv, Vouched, PendingInv, Settled, TabInv
    <2>3. IdentityInv'
      BY <1>6 DEF vars, pageVars, rpVars, IdentityInv
    <2> QED BY <2>1, <2>2, <2>3
  <1> QED BY <1>1, <1>2, <1>3, <1>4, <1>5, <1>6 DEF Next

LEMMA AlwaysInv == Spec => []Inv
  BY InitInv, NextKeeps, PTL DEF Spec

(* Every variable of pages, daemon and relying party has its type.         *)
THEOREM TypeCorrect == Spec => []TypeOK
  <1>1. Inv => TypeOK
    BY DEF Inv, PageInv, RPInv, TypeOK
  <1> QED BY <1>1, AlwaysInv, PTL

(* What a page posts was made from the context and the client that were    *)
(* loaded when the user asked, whatever he loads while the connection is   *)
(* opened and the daemon works.                                            *)
THEOREM PostedWasChosen == Spec => []PostedAsChosen
  <1>1. Inv => PostedAsChosen
    BY DEF Inv, PageInv, PostsInv, PostInv, PostedAsChosen
  <1> QED BY <1>1, AlwaysInv, PTL

(* The daemon, which reads two files without a name, takes neither for the *)
(* other: it refuses them only when the user chose a wrong one.            *)
THEOREM DaemonReadsInOrder == Spec => []RightFilesAreRead
  <1>1. Inv => RightFilesAreRead
    BY DEF Inv, PageInv, AttemptsInv, AttemptInv, RightTypes, RightFilesAreRead
  <1> QED BY <1>1, AlwaysInv, PTL

(* The user of a session is who the provider authenticated in a login that *)
(* this session started, although a callback writes back a copy it loaded  *)
(* before it waited, and sessions end meanwhile.                           *)
THEOREM SessionUserFromItsLogin == Spec => []UserComesFromItsLogin
  <1>1. Inv => UserComesFromItsLogin
    BY DEF Inv, RPInv, SessionInv, Vouched, UserComesFromItsLogin
  <1> QED BY <1>1, AlwaysInv, PTL

(* And he is a client chosen on the page of such a login, and a member of  *)
(* the context chosen with it.                                             *)
THEOREM SessionUserWasChosen == Spec => []UserIsOwnTag
  <1>1. Inv => UserIsOwnTag
    <2> SUFFICES ASSUME Inv, NEW s \in Sessions, store[s].user # Nobody
                 PROVE  \E i \in DOMAIN attempts :
                          LET chosen == attempts[i].chosen
                          IN  /\ startedIn[attempts[i].page] = s
                              /\ store[s].user = <<chosen["context"], chosen["client"]>>
                              /\ chosen["client"] \in Members[chosen["context"]]
      BY DEF UserIsOwnTag
    <2>1. PICK h \in Logins : startedIn[h] = s /\ identity[h] = store[s].user
      BY DEF Inv, RPInv, SessionInv, Vouched
    <2>2. AuthenticatedIn(h, identity[h], attempts)
      BY <2>1 DEF Inv, IdentityInv
    <2> QED BY <2>1, <2>2 DEF AuthenticatedIn
  <1> QED BY <1>1, AlwaysInv, PTL

----------------------------------------------------------------------------
(* As long as there was one login at most and no session ended, the tab of *)
(* the login, on its way to the callback, finds it pending in its session. *)
OnlyLogin == logins <= 1 /\ ends = 0

Expected(t) ==
    /\ at[t] # "refused"
    /\ at[t] \in {"provider", "callback"} => HasSession /\ store[cookie].pending = login[t]

SoleInv == OnlyLogin => \A t \in Tabs : Expected(t)

(* What is saved is loaded next time.                                      *)
LEMMA SavedIsLoaded ==
    ASSUME RPInv, NEW s \in SessionData, Save(s)
    PROVE  HasSession' /\ store'[cookie'] = s
  <1>1. PICK y : y = Sid
    OBVIOUS
  <1>2. y \in Sessions
    BY <1>1, LoadedSession DEF Save
  <1>3. store' = [store EXCEPT ![y] = s] /\ cookie' = y
    BY <1>1 DEF Save
  <1>4. store'[cookie'] = s
    BY <1>2, <1>3 DEF RPInv, RPTypeOK
  <1>5. s # Absent
    BY DEF SessionData, Absent, Logins, NoLogin
  <1>6. cookie' # NoSession
    BY <1>2, <1>3 DEF Sessions, NoSession
  <1> QED BY <1>4, <1>5, <1>6 DEF HasSession

(* The tab in the only login is the only one in a login.                   *)
LEMMA OnlyTab ==
    ASSUME RPInv, OnlyLogin, NEW t \in Tabs, NEW u \in Tabs,
           at[t] \in {"provider", "callback", "exchanging"},
           at[u] \in {"provider", "callback", "exchanging"}
    PROVE  t = u /\ logins = 1
  <1>1. /\ login[t] \in Logins /\ login[t] <= logins
        /\ login[u] \in Logins /\ login[u] <= logins /\ logins \in Nat
    BY DEF RPInv, RPTypeOK, TabInv
  <1>2. login[t] = 1 /\ login[u] = 1 /\ logins = 1
    BY <1>1 DEF OnlyLogin, Logins
  <1> QED BY <1>2 DEF RPInv, TabInv, NoLogin

(* A step that shows t another place, where nobody waits for the callback. *)
LEMMA ElsewhereKeeps ==
    ASSUME RPInv, SoleInv, NEW t \in Tabs, NEW place,
           at' = [at EXCEPT ![t] = place], place \notin {"refused", "provider", "callback"},
           UNCHANGED <<login, logins, ends>>,
           (\E u \in Tabs : u # t /\ at[u] \in {"provider", "callback"}) /\ HasSession =>
             HasSession' /\ store'[cookie'].pending = store[cookie].pending
    PROVE  SoleInv'
  <1>1. \A u \in Tabs : at'[u] = IF u = t THEN place ELSE at[u]
    BY DEF RPInv, RPTypeOK
  <1>2. ASSUME OnlyLogin, NEW u \in Tabs
        PROVE  Expected(u)'
    <2>1. Expected(u)
      BY <1>2 DEF SoleInv
    <2>2. at'[u] # "refused"
      BY <1>1, <2>1 DEF Expected
    <2>3. ASSUME at'[u] \in {"provider", "callback"}
          PROVE  HasSession' /\ store'[cookie'].pending = login'[u]
      <3>1. u # t /\ at[u] = at'[u]
        BY <1>1, <2>3
      <3>2. HasSession /\ store[cookie].pending = login[u]
        BY <2>1, <2>3, <3>1 DEF Expected
      <3> QED BY <2>3, <3>1, <3>2
    <2> QED BY <2>2, <2>3 DEF Expected
  <1> QED BY <1>2 DEF SoleInv, OnlyLogin

LEMMA LoginExpected ==
    ASSUME RPInv, NEW t \in Tabs, Login(t), SoleInv
    PROVE  SoleInv'
  <1>1. PICK s : s = WithPending(Loaded, logins + 1)
    OBVIOUS
  <1>2. Save(s) /\ (HasSession \/ sessions < MaxSessions)
    BY <1>1 DEF Login, Save
  <1>3. logins + 1 \in Logins /\ logins \in Nat
    BY SessionBoundsAssumption DEF RPInv, RPTypeOK, Login, Logins
  <1>4. s \in SessionData /\ s.pending = logins + 1
    BY <1>1, <1>2, <1>3, LoadedSession DEF WithPending, SessionData
  <1>5. HasSession' /\ store'[cookie'].pending = logins + 1
    BY <1>2, <1>4, SavedIsLoaded
  <1>6. /\ logins' = logins + 1 /\ ends' = ends
        /\ \A u \in Tabs : login'[u] = IF u = t THEN logins + 1 ELSE login[u]
        /\ \A u \in Tabs : at'[u] = IF u = t THEN "provider" ELSE at[u]
    BY DEF Login, Show, RPInv, RPTypeOK
  <1>7. ASSUME OnlyLogin', NEW u \in Tabs
        PROVE  Expected(u)'
    <2>1. OnlyLogin /\ logins = 0
      BY <1>3, <1>6, <1>7 DEF OnlyLogin
    <2>2. CASE u = t
      BY <1>5, <1>6, <2>2 DEF Expected
    <2>3. CASE u # t
      <3>1. at[u] \notin {"provider", "callback"}
        BY <2>1, OnlyTab
      <3>2. at[u] # "refused"
        BY <2>1 DEF SoleInv, Expected
      <3> QED BY <1>6, <2>3, <3>1, <3>2 DEF Expected
    <2> QED BY <2>2, <2>3
  <1> QED BY <1>7 DEF SoleInv

LEMMA ApprovesExpected ==
    ASSUME RPInv, NEW t \in Tabs, Approves(t), SoleInv
    PROVE  SoleInv'
  <1>1. /\ at[t] = "provider" /\ UNCHANGED <<store, cookie, login, logins, ends>>
        /\ \A u \in Tabs : at'[u] = IF u = t THEN "callback" ELSE at[u]
    BY DEF Approves, Show, RPInv, RPTypeOK
  <1> QED BY <1>1 DEF SoleInv, OnlyLogin, Expected, HasSession

LEMMA RequestExpected ==
    ASSUME RPInv, NEW t \in Tabs, Request(t), SoleInv
    PROVE  SoleInv'
  <1>1. CASE GetHome(t) \/ GetProfile(t)
    <2>1. PICK place, s :
            /\ at' = [at EXCEPT ![t] = place] /\ place \in {"home", "profile", "login"}
            /\ s = Loaded /\ Save(s)
      BY <1>1 DEF GetHome, GetProfile, Show
    <2>2. s \in SessionData
      BY <2>1, LoadedSession DEF Save
    <2>3. HasSession' /\ store'[cookie'] = s
      BY <2>1, <2>2, SavedIsLoaded
    <2>4. HasSession => s = store[cookie]
      BY <2>1 DEF Loaded
    <2>5. UNCHANGED <<login, logins, ends>>
      BY <1>1 DEF GetHome, GetProfile
    <2>6. place \notin {"refused", "provider", "callback"}
      BY <2>1
    <2> QED BY <2>1, <2>3, <2>4, <2>5, <2>6, ElsewhereKeeps
  <1>2. CASE BeginCallback(t) /\ StateMatches(Loaded, login[t])
    <2>1. PICK place : at' = [at EXCEPT ![t] = place] /\ place = "exchanging"
      BY <1>2 DEF BeginCallback, Show
    <2>2. UNCHANGED <<store, cookie, login, logins, ends>>
      BY <1>2 DEF BeginCallback
    <2>3. HasSession => HasSession' /\ store'[cookie'].pending = store[cookie].pending
      BY <2>2 DEF HasSession
    <2> QED BY <2>1, <2>2, <2>3, ElsewhereKeeps
  <1>3. CASE BeginCallback(t) /\ ~StateMatches(Loaded, login[t])
    <2>1. at[t] = "callback" /\ UNCHANGED <<logins, ends>>
      BY <1>3 DEF BeginCallback
    <2>2. ~OnlyLogin
      <3>1. ASSUME OnlyLogin
            PROVE  FALSE
        <4>1. HasSession /\ store[cookie].pending = login[t]
          BY <2>1, <3>1 DEF SoleInv, Expected
        <4> QED BY <1>3, <4>1 DEF StateMatches, Loaded
      <3> QED BY <3>1
    <2> QED BY <2>1, <2>2 DEF SoleInv, OnlyLogin
  <1>4. CASE EndCallback(t)
    <2>1. at[t] = "exchanging" /\ UNCHANGED <<login, logins, ends>>
      BY <1>4 DEF EndCallback
    <2>2. PICK place : at' = [at EXCEPT ![t] = place] /\ place \in {"authorized", "failed"}
      BY <1>4 DEF EndCallback, Show, ErrorPage
    <2>3. CASE OnlyLogin
      <3>1. ~ \E u \in Tabs : u # t /\ at[u] \in {"provider", "callback"}
        BY <2>1, <2>3, OnlyTab
      <3> QED BY <2>1, <2>2, <3>1, ElsewhereKeeps
    <2>4. CASE ~OnlyLogin
      BY <2>1, <2>4 DEF SoleInv, OnlyLogin
    <2> QED BY <2>3, <2>4
  <1>5. CASE Logout(t)
    <2>1. ends' = ends + 1 /\ ends \in Nat
      BY <1>5, SessionBoundsAssumption DEF Logout, RPInv, RPTypeOK
    <2> QED BY <2>1 DEF SoleInv, OnlyLogin
  <1> QED BY <1>1, <1>2, <1>3, <1>4, <1>5 DEF Request

LEMMA NextExpected == Inv /\ SoleInv /\ [Next]_vars => SoleInv'
  <1> SUFFICES ASSUME Inv, SoleInv, [Next]_vars
               PROVE  SoleInv'
    OBVIOUS
  <1>1. RPInv
    BY DEF Inv
  <1>2. ASSUME NEW t \in Tabs, StartLogin(t) \/ FinishLogin(t)
        PROVE  SoleInv'
    BY <1>1, <1>2, LoginExpected, ApprovesExpected DEF StartLogin, FinishLogin
  <1>3. CASE RestartRP
    <2>1. ends' = ends + 1 /\ ends \in Nat
      BY <1>1, <1>3, SessionBoundsAssumption DEF RestartRP, RPInv, RPTypeOK
    <2> QED BY <2>1 DEF SoleInv, OnlyLogin
  <1>4. CASE UNCHANGED <<store, cookie, at, login, logins, ends>>
    BY <1>4 DEF SoleInv, OnlyLogin, Expected, HasSession
  <1>5. ASSUME NEW m \in posts, HandlePost(m)
        PROVE  SoleInv'
    BY <1>4, <1>5 DEF HandlePost, Authenticates, rpVars
  <1>6. CASE UNCHANGED rpVars
    BY <1>4, <1>6 DEF rpVars
  <1> QED BY <1>1, <1>2, <1>3, <1>5, <1>6, RequestExpected DEF Next, vars

(* A login that is the only one, in a session that no logout or restart    *)
(* ends meanwhile, is not refused when the user comes back from the        *)
(* provider, whatever else he looks at in other tabs.                      *)
THEOREM SoleLoginIsAccepted == Spec => []SoleLoginAccepted
  <1>1. Init => SoleInv
    BY DEF Init, RPInit, SoleInv, Expected
  <1>2. Inv /\ SoleInv => SoleLoginAccepted
    <2> SUFFICES ASSUME Inv, SoleInv, ~(logins > 1 \/ ends > 0)
                 PROVE  \A t \in Tabs : at[t] # "refused"
      BY DEF SoleLoginAccepted
    <2>1. logins \in Nat /\ ends \in Nat
      BY SessionBoundsAssumption DEF Inv, RPInv, RPTypeOK
    <2> QED BY <2>1 DEF SoleInv, OnlyLogin, Expected
  <1>3. Spec => []SoleInv
    BY <1>1, AlwaysInv, NextExpected, PTL DEF Spec
  <1> QED BY <1>2, <1>3, AlwaysInv, PTL
=============================================================================
