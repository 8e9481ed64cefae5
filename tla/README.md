# DAGA, verified

A verification development for the DAGA cothority of this repository: a set of
servers ("conodes") that authenticate the members of a group without learning
which member they authenticate. TLA+ modules model the servers' protocols, the
state of the service and the library underneath; TLC checks them on small
instances; TLAPS proves the properties that matter most for every instance.
`PROJECT.json` lists components, runs, mutants, hazards, findings, theorems and,
for every definition, the lines of code it models.

Paths below are relative to `src/`.

## 1. The system

| component | state it keeps | operations | talks to |
|---|---|---|---|
| Context generation, `dagacothority/protocols/dagacontextgeneration` | per instance: the context being built, indices of children, signatures, the request, a `daga.Server`, an unbuffered result channel | `Start`, `handleAnnounce`, `handleAnnounceReply`, `handleSign`, `handleSignReply`, `handleDone`, `WaitForResult` | leader and its direct children by onet messages; the service by callbacks (`acceptRequest`, `startServingContext`) and the result channel |
| Challenge generation, `.../dagachallengegeneration` | per instance: commitments and openings by context index, the leader's commitment | `Start`, `handleAnnounce(Reply)`, `handleOpen(Reply)`, `handleFinalize`, `WaitForResult` | as above, then a ring over the roster |
| Authentication, `.../dagaauth` | per instance: the request, `acceptContext` on children | `Start`, `handleServerMsg`, `handleFinishedServerMsg`, `WaitForResult` | a ring over the roster, then a broadcast |
| Service, `dagacothority/service` | a map of third-party services, each with a map of contexts; a copy in bbolt | API handlers `CreateContext`, `PKClient`, `Auth`; `startServingContext`, `save`, `setupState`, `NewProtocol` | the three protocols; clients |
| DAGA library, `sign/daga` | none (values), except the channels of one proof | `ServerProtocol`, proofs and their verification, challenge functions; `NewAuthenticationMessage`, `newClientProof`, `verifyClientProof`, `GetFinalLinkageTag` | called by protocols and clients |
| Slices and encodings, `dagacothority/{utils,struct,network}.go` | none | `ContainsSameElems`, `IndexOf`, `NewContext`, Net encodings | used everywhere |
| Login page, `PoC/OPApp/.../main.js`, with the daemon `dagacothority/dagadaemon` | the context and the client loaded from files; a web socket per attempt | select a file, ask for a login, forward to the daemon, post its message, follow the redirect | the daemon on the user's machine (web socket), the identity provider (HTTP) |
| Relying party, `PoC/RPApp` | sessions in the memory of the process: a login under way, a user | `/`, `/login`, `/authorization-code/callback`, `/profile`, `/logout` | the identity provider, by redirects of the browser and a token request |
| JavaScript library, `dagacothority/external/js`, built into `PoC/OPApp/.../bundle.js` | web sockets by address, with the listeners of the requests | `createSocket`, `si_to_ws`, encodings | conodes |
| Other clients: `dagacothority/{api,client}.go`, `dagaclient` | keys and contexts in files | one request after the other | API of the service |
| Conode, simulation, test helpers | none of their own | start servers, drive clients | onet |

A third party asks one node, from then on the *leader*, to create a context.
The leader announces the request with an index for each child, collects keys
and commitments, has the context it builds signed by all, hands the result to
the API handler and broadcasts `Done`, upon which the children serve the
context too. A client then (`PKClient`) sends the commitments of its proof to
any node and gets a challenge that all nodes chose together (commit, open, a
ring of signatures); with it the proof is completed and sent (`Auth`) to any
node, which starts the ring that turns the client's initial tag into its
linkage tag.

In the proof of concept that client is the daemon of a user who logs in at a
relying party: `/login` redirects the browser to the identity provider, whose
login page has the daemon build the authentication message of the context and
client the user has loaded, and posts it; the provider has it authenticated and
sends the browser back with a code, for which the relying party gets the
linkage tag as the subject of an OpenID Connect token.

### What is hard about it

- *Interleaving.* API handlers run in goroutines of their own, next to the
  instances of the protocols (onet runs the handlers of one instance one at a
  time, and aggregates the children's answers), and all of them reach the state
  of the service. A client's proof has two goroutines on each side.
- *Failure.* A child that refuses, fails or stops tells the leader nothing; the
  only defence is the timeout of `WaitForResult`, and it races the late answer.
  Protocol instances are lost in a restart, the service's state is reloaded.
- *Ordering.* The result is handed over before `Done` is sent. Rings follow the
  order of the roster, signatures and keys the index in the context, and the
  two differ when the leader of a request is not the creator of the context.
- *Callbacks.* In the browser everything is a callback: file readers finish in
  any order, an attempt to log in can be started while another is under way, a
  socket that is kept is shared by requests that do not know of each other. The
  relying party awaits the provider between reading a session and saving it.
- *Distributed checks.* What makes a context or a challenge genuine is checked
  piecewise by several handlers on several nodes.

### What makes each component correct

- Context generation: a served context was agreed to by every node, with its
  own key and commitment, for members who subscribed (if the leader ends with
  the context it had signed; otherwise only the nodes whose keys are in it have
  agreed); one outcome per request; failure leaves no trace; the call returns.
- Challenge generation: nobody shows an opening before all are committed; the
  challenge is the sum of what was committed, signed by all; only the leader
  finishes; the ring reaches everyone whatever the order of indices.
- Authentication: the result is the client's own linkage tag or the null tag
  when the servers follow the protocol, and with faulty servers still that tag if
  it has one server proof of each; honest servers accept each other; the message
  never returns to the leader as an unfinished one.
- Service state: no panic, no context lost while the node runs, none that is
  served but not stored, no concurrent access to a map.
- Client proof: both sides return and leave no goroutine; exactly the proofs
  that were built are accepted.
- Login page and daemon: what is posted is what the user had loaded when he
  asked; the daemon gets it in the order it reads it; every attempt ends.
- Relying party: the user of a session is who the provider authenticated in a
  login of that session; a login that nothing disturbs is accepted.
- The two together: who is logged in has asked for it, on a page of the login of
  that session, with a client that is a member of the context he chose.
- JavaScript library: a caller gets the reply to its own request, of the conode
  it asked, if it was alone on the socket, and never that of a later one; every
  request settles.

## 2. The modules

| module | models | composed of |
|---|---|---|
| `PointSlices` | the helpers on slices of points | |
| `ContextAgreement` | abstract: what one creation promises (decide once, serve only the decision) | |
| `ContextGeneration` | the context generation protocol with the `CreateContext` goroutine | `PointSlices`; refines `ContextAgreement` |
| `ContextGeneration_proofs` | its theorems | |
| `RosterRing` | roster positions, context indices, the ring | `PointSlices` |
| `RosterRing_proofs` | lemmas: the ring visits the nodes in order; N different indices are all of them | |
| `CommonChallenge` | abstract: what a request for a challenge promises (shares fixed first, one challenge, one answer) | |
| `ChallengeGeneration` | the challenge generation protocol with `PKClient`'s wait | `RosterRing`; refines `CommonChallenge` |
| `ChallengeGeneration_proofs` | its theorems | `RosterRing_proofs` |
| `ServerMessages` | pure: the message the servers extend, its tags, proofs, signatures and their verification | |
| `TagAgreement` | abstract: what an authentication promises (each server contributes once, one tag of the client, one answer) | |
| `DagaAuth` | the authentication protocol with `Auth`'s wait | `RosterRing`, `ServerMessages`; refines `TagAgreement` |
| `DagaAuth_proofs` | its theorems | `RosterRing_proofs` |
| `ClientProof` | both sides of the client's proof of knowledge, goroutines and channels | |
| `ClientProof_proofs` | its theorems | |
| `ServiceState` | one node's service state, locks, saves, restarts | |
| `ServiceState_proofs` | its theorems | |
| `LoginPage` | the page (`main.js`) with the daemon's handler | |
| `RelyingParty` | the application (`app.js`, `routes/`) with its sessions | |
| `WebLogin` | a login from the relying party to the page and back | `LoginPage`, `RelyingParty` |
| `WebLogin_proofs` | the theorems of these three | |
| `DagaSocket` | `createSocket` and the browser's web sockets | |
| `DagaSocket_proofs` | its theorems | |
| `MC...` | values of the constants for TLC | |

### State and actions against the code

*Common to the protocols.* One action per handler, with its refusal and its
error as disjuncts. `msgs` is the set of messages in flight: a message is
consumed by the handler it triggers and any order of delivery is possible.
`Aggregated` is onet's aggregation: the handler of a slice type is called once
every child has answered, and never when there is no child. `waiter` is the
goroutine of the API handler. Where a handler blocks on the unbuffered result
channel it is split: the leader's `phase` is "publishing" until `PublishResult`
meets the waiter, and stays so for ever when the waiter has timed out. `Crash`
is a stopped process: instances are in memory only, so within one instance a
node that is down stays down (`ServiceState` models the restart). A send to a
node that is down may report an error (`SendErrors`); the error ends the
handler where the code says so. Messages are lost only that way: onet sends
over TCP/TLS. A broadcast is one step. Handlers hold no lock across steps.

*`ContextGeneration`.* The leader is node 0 because
`GenerateNaryTreeWithRoot` moves it to the front. `AssignedIndex` is the index
of `Start`; `server[n]` the index of the node's `daga.Server`. `BuiltContext`
is what `handleAnnounceReply` stores; `DeviatingContexts` what a leader that
does not follow the protocol may send instead (other members, a foreign key or
commitment, foreign generators, too few generators), which is what
`handleSign`'s checks are for. `OtherContexts` is what it may send in `Done`
instead of the context it had signed, to any child it has announced the request
to and at any moment: other members, under the keys of the nodes or under keys
that are all its own, with the signatures it can have for it (`Obtained`).
`handleDone` verifies these signatures and nothing else. Left out are a `Done` to
a child that has no `daga.Server` yet, on which `startServingContext` panics, and
contexts with fewer keys than nodes. `deviations`, one of `DeviationSets` chosen
at the start, says which of all this the leader may do; `EndsAsSigned` that "Done"
is not among it, so that `Done` brings the context that was signed. Keys, commitments and signatures are symbolic: a
key is named by its owner, a signature is the pair of signer and content.

*`ChallengeGeneration`.* Commitments and openings are tables by context index,
as in the code; `Savable` holds the conditions under which `saveCommitment` and
`saveOpening` do not panic. Openings are independent scalars, so their sum is
the set of its terms. A faulty node may sign with another key, repeat the
leader's commitment, show another opening or claim another index, forward
another challenge or drop a signature; it does not replay what it was sent in an
earlier instance, for the model is of one. `handleAnnounceReply` verifies and
saves reply by reply: `handled` are the children whose commitments are saved when
the loop ends, because it is through, finds a wrong signature or panics. `faults` is who may do what, chosen among
`FaultScenarios` at the start, so that one run has nodes without faults and
nodes with them (the same in `DagaAuth`).

*`ServerMessages`, `DagaAuth`.* A tag is known by how often each server has
applied its secrets to the client's initial tag, `LinkageTag` being the one in
which each server has exactly once. A proof names the server and the two tags
it relates; the algebra of the proof itself is not modelled. A request says
whether its proof verifies and which servers find its commitments wrong.
`SignaturesValid` is the code's check: the signature under the key of the index
that comes with it, over what was there when it was made; that this is the index
of the entry is not compared. What a faulty server may do (`Altered`): drop the
last entries, add none, one or two of its own (a server proof, right or wrong, or
a misbehaving proof with any index and any tag), leave itself out, and forward
the message or broadcast it as finished whenever it likes. Left out: a faulty
server that replaces the client's request, uses another's secrets, or brings in
entries of another instance.

*`ServiceState`.* What is done under `State`'s lock is one action. The maps of
contexts are covered by no lock, so an access to one begins in one step and
ends in a later one; of two writes at the same time one may be lost, a reader
and a marshaller may see a write under way or not, and the Go runtime may end
the process (`Crash`). `save` is three steps: take the read lock, marshal,
write. `Restart` is `setupState`.

*`ClientProof`.* Each goroutine is a program counter and each channel a queue
with its capacity and its closed flag; a send on an unbuffered channel and its
receive are one step of both. kyber's prover and verifier (external) are
modelled by the calls they make. `Altered` is what a client may send instead of
the proof it was given, `Simulated` among it: a transcript right in itself, for a
challenge the servers have not signed for it.

*`LoginPage`.* One action per callback of the page. An attempt is a record of
both ends of its connection: what `buildAuthMsg` captured (`chosen`), the state
of the socket, what is on the way in either direction, and the daemon's handler.
`data` is `Main.data`, changed when a reader finishes (`OnLoad`), not when a file
is selected. The handler of the daemon is one step, `Serve`: it reads the two
messages in order, checks their types, and answers or gives up; whatever it does
it returns and the connection is closed, which the page sees after what was
sent before. Leaving the page (`OnSuccess`) ends its readers, posts and sockets.

*`RelyingParty`.* A request is one step, for Node runs it without interruption,
except the callback, which waits for the token and works on its copy of the
session meanwhile (`BeginCallback`, `EndCallback`). express-session is modelled
by what the code relies on: `Loaded` (the session the cookie names, or a new
one), `Save` (also of a session that was destroyed meanwhile). passport keeps
the handle of one login in the session, under the `sessionKey` of the strategy,
and uses it up when a callback comes. `RestartRP` empties the memory store.

*`WebLogin`.* The two composed: the redirect of `/login` loads the page of that
login, the redirect the page follows is the callback of that login. The provider
is environment: it vouches for the linkage tag of a posted message whose client
is a member of the context. That the tag is the client's is what `DagaAuth` and
`ClientProof` are about.

*`DagaSocket`.* A socket has its `readyState`, the requests whose listeners are
registered for each event (for the opening in the order of registration, which
is the order in which they send), and what is under way in either direction. The caller
may pass the sockets it kept or none. `alone` records at creation whether
anything else was unanswered on the socket. The conode is environment.

Definitions named `<name>_<mistake>` are mistakes a change of the code could
make; no specification uses them. Each property is paired in `PROJECT.json`
with such a mistake that breaks it.

## 3. The runs

`CHECK_DEADLOCK FALSE` in every configuration: an instance of a protocol, a
proof, a bounded number of requests come to an end.

| run | instance | what it shows |
|---|---|---|
| `cg_faults` | 3 nodes, node 1 may refuse, nodes 0 and 2 may stop; the leader may have any of `DeviatingContexts` signed and ends with the signed one, or have other members signed and send any of `OtherContexts` in `Done` | `CreateReturns` and `ServedHasConsent`; for a leader that ends with the signed context also `ServedIsApproved`, `ServedMembersSubscribed`, `FailedMeansUnserved`, the refinement `ImplementsAgreement`, and that a result spreads (`AllServe`) |
| `cg_reply` | 3 nodes, no fault | **violated** `ReplyMeansServed` |
| `cg_members` | 3 nodes, another set of members | **violated** `ServedAnswersRequest` |
| `ch_nodes` | 4 nodes, leader last, two indices swapped; no faults, or one that may refuse and all that may stop, or these and two that send wrong values (the leader one of them) | `CommitBeforeReveal`, `ResultGenuine`, `OnlyLeaderFinalizes`, `NoPanic` (nodes that follow the protocol), `RingCompletes`, the refinement `ImplementsCommonChallenge` |
| `au_servers` | 3 nodes, any leader, two indices swapped; no faults, or one that may refuse and all that may stop, or any one or two that are faulty; every kind of request | `ResultIsLinkageTag` (for servers that follow the protocol, and for results with one server proof of each); for servers that follow the protocol `HonestMessagesAccepted` (the client follows it, too), `LeaderNotReentered` and the refinement `ImplementsTagAgreement`; without faults `InstancesEnd` |
| `au_misbehaving` | a client that misbehaves towards two servers | **violated** `MisbehavingAnswered` |
| `cp_goroutines` | contexts of 1, 2 and 3 clients, every index, a failing server, all of `Altered` | `NoGoroutineLeft`, `AcceptsReturnedProofs`, `ClientReturns`, `ServerReturns` |
| `st_faults` | 3 creations for 2 services, a request, failing saves, one stop | `ServiceIsKnown`, `ContextsStay` |
| `st_races` | 2 creations for one service, a request | **violated** `NoConcurrentMapAccess` |
| `st_stored` | 2 creations for one service, no fault | **violated** `ServedIsStored` |
| `web_login` | 2 tabs, 2 logins, 2 clients, 3 file selections, 2 attempts, one logout or restart | `PostedAsChosen`, `RightFilesAreRead`, `UserComesFromItsLogin`, `SoleLoginAccepted`, `UserIsOwnTag`, `AttemptsEnd` |
| `js_socket` | 3 requests to 2 conodes of one host with neighbouring ports | `AloneGetsOwnReply`, `NoLaterReply`, `Settles` |

The type invariant of each module is checked by one of its passing runs
(`TypeOK`). `HonestMessagesAccepted` is for clients that follow the protocol; for
the others the same is false, which is `au_misbehaving`. The two refinements of
agreements that only nodes following the protocol keep are stated with that
condition before the initial states and before the steps of the abstract
specification; it is chosen once, at the start.

*Why the bounds are enough.* The protocols are symmetric in the children up to
their index, and every hazard involves the leader, the child that does
something wrong, one that does not, and (for the ring of challenges) one between
them; four nodes contain that situation in every order, and leave an honest child
when two are faulty. Three nodes are enough for what a faulty leader or server
does to one message (`cg_faults`, `au_servers`): a faulty node, an honest one and
one that is either. The leader of `ch_nodes` is one of the nodes whose index differs from
its position, so that the two orders disagree about the leader and about a child.
Two challenges and two
services tell "the same" from "another". One stop is enough for the state:
what a restart loads does not depend on earlier restarts. A proof for three
clients has a first, a middle and a last clause. Two
tabs and two logins let one login overtake, overwrite or outlive the other; three
selections are a context, a client and a change of mind, on the page of one
login (or of both); one ended session is enough for a login to outlive its
session. Three requests on a socket are one that is answered, one that gets its
answer, and one that comes between. What does not depend on a bound is proved
(section 4).

*Fairness.* Weak fairness of each handler, of the API goroutine and of the
timeout: onet delivers what it accepted and calls the handlers, goroutines are
scheduled, `time.After` fires. Weak fairness of a child is for the disjunction
of its handlers. Nothing is assumed of the order, of stops, or that a timeout
waits long enough: the leader's timeout may fire at any moment after `Start`. In
`DagaAuth` a faulty server need not run.
For `ClientProof`, weak fairness of each goroutine, and of the API call that
asks for the challenge (it ends with an answer or an error). For `WebLogin`, weak
fairness of the steps of each attempt, in the browser and in the daemon (its
connection is accepted or refused, its handler returns, its callbacks run);
nothing is assumed of the user or the provider. For `DagaSocket`, weak fairness of
what the browser has begun and of the conode for each request it has received;
connections need not break, and a conode need not close one.

### Findings

- `cg_reply`. `handleSignReply` hands over the result before it broadcasts
  `Done`, so `CreateContext` may reply while children do not serve the context.
  `service_test.go:153` describes the symptom, and thinks it impossible.
- `cg_members`. `ContainsSameElems([x, y], [x, x])` is true.
- `st_races`. The maps of contexts are written without any lock.
- `st_stored`. Two saves overlap under the read lock, and the older snapshot
  may be the one that stays.
- `au_misbehaving`. A misbehaving proof is verified under the key at its
  position in the message instead of the key of the server's index.

Two more limits of the code are in the models as what faulty participants may do,
and are why the properties above carry the conditions they carry:

- `handleDone` verifies the signatures under the keys in the message and compares
  the context with nothing (its TODO says so of the keys), so a leader can have a
  child serve a context that the child has not approved, where `daga.go:146` says
  it won't. `ServedHasConsent` is what remains.
- `GetFinalLinkageTag` counts neither the entries nor those of one server, and a
  misbehaving proof is bound to no tag: with a faulty server the client may be
  answered with a message that some servers have not served, where
  `dagaauth/struct.go:30` says that it is completed by all, and with another tag.
  What `ResultIsLinkageTag` says of results with one server proof of each server is
  what remains.

## 4. The proofs

`ContextGeneration_proofs` proves, for every number of nodes, every request,
every choice of nodes that refuse or stop and every choice of the deviations of
the model:

- `TypeCorrect`: the type invariant;
- `ServedContextsHaveConsent`: `ServedHasConsent`;
- `OnlyApprovedContextsAreServed`: `ServedIsApproved`;
- `OnlySubscribersAreMembers`: `ServedMembersSubscribed`;
- `FailedCreationsAreUnserved`: `FailedMeansUnserved`;
- `ProtocolImplementsAgreement`: every step maps to a step of
  `ContextAgreement` or to a stutter, with the answer of `WaitForResult` as the
  decision (these four properties are about leaders that end with the context
  they had signed; of the others they are false);
- `LoneServerServesNothing`: with a roster of one, where onet has no child to
  wait for and calls no handler, the context never comes to be served.

None of the properties is inductive. The inductive invariant says, for each
message in flight, what its sender had checked when it sent it (a signature of
a child is over a context that the child approved; a `Done` carries the final
context of the leader, fully signed), that the leader's phase and the waiter's
agree (`Done` exists only after the result was taken, so never after a
failure), and that what is served is the decision. `OnlyApprovedContextsAreServed`
needs that signatures are unforgeable: a signature under the key of child `c`
was made by `c`, and only in `handleSign`, after its checks. This alone is what
remains of the approval when `Done` may bring another context:
`ServedContextsHaveConsent`, by an invariant of its own over every signature of a
child in a message or at the leader. Unforgeable signatures are also what
`OnlySubscribersAreMembers` needs, with a lemma about `ContainsSameElems`: it is the
equality of the two sets when the second slice repeats nothing, for as many
different elements as there may be are all of them (`SameWithoutRepeats`). With a
repetition it is not, which is the finding of `cg_members`.

`ServiceState_proofs` proves, for every set of services and goroutines and
every number of stops, the type invariant, `ServiceIsKnown` and `ContextsStay`.
The inductive part is that a goroutine past its validation runs in the process
that validated: its service is in the memory of that process, which a stop
clears together with the goroutine.

`ChallengeGeneration_proofs` proves, for every number of nodes, every order of
their indices, every leader and every fault scenario of the model:

- `TypeCorrect`: the type invariant;
- `OpenedAfterCommitments`: `CommitBeforeReveal`;
- `ChildrenDoNotFinalize`: `OnlyLeaderFinalizes`;
- `ChallengeIsGenuine`: `ResultGenuine`;
- `HonestServersNeverPanic`: `NoPanic`;
- `ProtocolKeepsPromise`: every step maps to a step of `CommonChallenge` or to a
  stutter; the shares are fixed once every commitment is in the leader's table.

The inductive invariant says that a child answers only what the leader signed
under its own key; that the indices the leader saves are different and not its
own, so that by counting they are all the others (`RosterRing_proofs`); that an
`Open`, and with it every opening of a child, exists only when all commitments
are signed; and that a child signs in the ring with its last step. So a
challenge that carries N valid signatures of different indices carries the
signature of each node, and can only have reached the one that signed first,
the leader, which is why a child never takes the branch that ends the ring.
`NoPanic` needs an invariant of its own (`OwnIndices`): as long as no node is
faulty, what a child sends carries the index of that child, and a table of the
leader has nothing but its own share before all the answers are in, so that each
of them finds its place in range and empty.

`DagaAuth_proofs` proves, for every number of nodes, every leader, every order of
the indices, every request and every fault scenario:

- `TypeCorrect`: the type invariant;
- `AnswerIsLinkageTag`: `ResultIsLinkageTag`, when the servers follow the protocol,
  and, with faulty servers, for results with one server proof of each;
- `LeaderIsNotReentered`: `LeaderNotReentered`, for two servers or more that follow
  the protocol;
- `HonestAreAccepted`: `HonestMessagesAccepted`, when servers and client follow
  the protocol;
- `ProtocolKeepsPromise`: every step maps to a step of `TagAgreement` or to a
  stutter, when the servers follow the protocol, or stop or refuse.

The inductive invariant has two parts. What does not depend on the servers: a
result has passed the verifications of `GetFinalLinkageTag` (`ResultVerified`).
From it the part of `AnswerIsLinkageTag` about faulty servers follows without a word about who sent what:
each valid server proof ties its tag to the one before, so along the chain the tag
carries the secrets of the servers so far, each once (`ProofsGiveTag`). That is an
induction over the entries of one message, made as a least counterexample
(`FirstOf`, from the theorem that `<` is well-founded on `Nat`). When the servers
follow the protocol, of each message: no server has made two entries
(`ServedOnce`), all entries come from nodes between the leader and the receiver
(`FromBefore`), the last tag is the one the servers so far make (`RightTag`), and a
finished message has N entries, so those of all servers. None of this is left when
one server is faulty, for the code checks none of it. The next two theorems also
need that without faulty servers a message has exactly as many entries as it has
travelled (`CountInv`), so that it is recognised as finished at the node before the
leader, and that all its signatures and proofs are valid (`ValidInv`). That there
are two servers at least is a fact of the code. A context of one server is never served
(`LoneServerServesNothing`), and `Auth` refuses a context that is not served; with
one node the leader would send the message to itself and call the nil
`acceptContext`. For a client that misbehaves towards a server the code does refuse
honest messages: that is the finding of `au_misbehaving`. The refinement needs that
there is only ever one message (`OneMessage`): one in the ring, or the copies of
its broadcast, and once it is refused or lost no other. Its entries are the
contributions.

`ClientProof_proofs` proves, for contexts of every size, every index and every
challenge, `TypeCorrect`, `GoroutinesEnd` (`NoGoroutineLeft`) and
`ReturnedProofsAreAccepted` (`AcceptsReturnedProofs`). The invariant has two
parts for each side. One relates the program counters of the goroutine that calls
and of kyber's goroutine (`ClientStages`, `ServerStages`). The other says that a
channel is a stream: what was taken from it, followed by its queue, are the first
of the items that pass through it (`Stream`), and how many these are in each
stage (`Built`, `Heard`). So a queue never exceeds its capacity, a channel is
closed when the last item is in it, and the verifier judges the message it was
sent, item by item. `Judged` is what it knows so far: a clause once both
responses to it have come. What it finds valid is a proof of the prover's own
shape (`Genuine`), and among the proofs that were returned and their alterations
only the returned ones are that.


`WebLogin_proofs` proves, for every number of tabs, logins, attempts, sessions
and files, `TypeCorrect`, `PostedWasChosen` (`PostedAsChosen`),
`DaemonReadsInOrder` (`RightFilesAreRead`), `SessionUserFromItsLogin`
(`UserComesFromItsLogin`), `SessionUserWasChosen` (`UserIsOwnTag`) and
`SoleLoginIsAccepted` (`SoleLoginAccepted`). The
invariant has three parts. Of the page: what an attempt has on the way to the
daemon, in its answer and in its post are the files chosen when it began, of the
right types. Of the relying party: the user of a session comes from a login
that this session started and whose identity is settled, that is, no tab is at
the provider for it any more; the copy of the session on which a waiting
callback works has the same owner; and two tabs are never in one login. Of the
two together: the identity of a login is a client that was chosen on its page.
Settledness is what makes the second part inductive: without it the provider
could still change the identity behind a user already taken over.
`SoleLoginIsAccepted` has its own: as long as there was one login and no session
has ended, a tab that is at the provider or on its way back from it has the
session in which the handle of its login is pending.

`DagaSocket_proofs` proves, for every number of conodes and requests,
`TypeCorrect`, `AloneIsAnsweredForItself` (`AloneGetsOwnReply`) and
`NeverALaterReply` (`NoLaterReply`). The invariant follows the requests through
the three queues of a socket (waiting for the opening, on the way to the conode,
on the way back): each is in the order in which the requests were made, and what
comes back is older than what is still going (`InTurn`). A request that listens
has been told nothing and is still in one of the queues of its own socket, and
one that was alone is the oldest of them (`Listening`), so the next message, which
calls all listeners, is its own reply or that of an older request. That the reply
is of the conode that was asked needs that different conodes have different
addresses, which `ConodesAssumption` gives: `si_to_ws` adds one to the port, and
two pairs of host and port stay different.

Assumptions: those of the constants (`NAssumption`, `SubscribersAssumption`,
`MembersAssumption`, `FaultsAssumption`, `ServerIndexAssumption`,
`LeaderAssumption`, `LeadersAssumption`, `SizesAssumption`,
`ChallengesAssumption`, `GoroutinesAssumption`, `ServiceOfAssumption`,
`BoundsAssumption`, `FilesAssumption`, `PagesAssumption`,
`PageBoundsAssumption`, `TagsAssumption`, `SubjectsAssumption`,
`SessionBoundsAssumption`, `ConodesAssumption`, `RequestsAssumption`), which TLC
evaluates in the runs, and the two servers of `LeaderIsNotReentered`. The
conditions in the properties are given above: `EndsAsSigned`, and that the nodes
follow the protocol (`ResultIsLinkageTag`, `HonestMessagesAccepted`,
`LeaderNotReentered`, `ImplementsTagAgreement`, `NoPanic`).

Model-checked only: liveness, which is out of the prover's reach (`CreateReturns`,
`AllServe`, `RingCompletes`, `InstancesEnd`, `ClientReturns`, `ServerReturns`,
`AttemptsEnd`, `Settles`), and the violated properties. Every invariant, action
property and refinement of the passing runs is a theorem. The library's induction
theorems, which take an operator, are out of the provers' reach too; the one
induction over data (`ProofsGiveTag`) goes by a least counterexample instead.

## 5. What is not modelled

- The group arithmetic of the proofs, and hashing: symbolic, see above. What a
  participant that does not follow the protocol may send is what section 2 lists
  for each module, and every property and theorem about such participants is
  about those. Messages of one instance replayed in another are not among it, for
  each model is of one instance.
- onet and kyber: external, modelled by what the code relies on.
- `PriRand` always returns an error, which kyber ignores; randomness is not
  modelled.
- The composition of the API handlers with the service state over time (a
  context checked when a request comes in, used by a protocol later). It adds
  no behaviour to its parts: a node that runs never drops a context
  (`ContextsAreKept` is proved), so what was checked stays true; instances of
  protocols do not survive a restart (`Crash` in each protocol); and a child that
  does not serve the context, because its `Done` has not come or was lost, is one
  that `mayRefuse`.
- A service stored with no context may come back with a nil map after a restart
  (`service.go:461` would panic): whether protobuf decodes an empty map as nil is
  a matter of the external codec. `ServiceState` lets it be an empty, usable map.
- The dex connector of the identity provider is not in the repository; dex,
  express-session, passport and the browser are modelled by what the code relies
  on.
- The encodings of `bundle.js` and `toml_to_roster` (which swallows every error
  and then returns a roster without some or all of its Ids) have no state and no
  caller here; `getStatus` of `main.js`, which would use them, is commented out.
- Command lines, the Go client API, simulation, test helpers, templates,
  generated and vendored code: wiring without state of their own.

## 6. Plan

Done, in this order: `ContextGeneration` with its abstraction and proofs;
`ChallengeGeneration`; `ServerMessages` and `DagaAuth`; `ServiceState` with
proofs; `ClientProof`; `LoginPage`, `RelyingParty` and `WebLogin`; `DagaSocket`;
`CommonChallenge` and its refinement; the proofs about `ChallengeGeneration` and
`WebLogin`; those about `DagaAuth`, `ClientProof` and `DagaSocket`, and the last
invariants of the others; `TagAgreement` and its refinement.

Next: an abstract specification of the service state as its clients see it.
