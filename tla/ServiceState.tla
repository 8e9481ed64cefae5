--------------------------- MODULE ServiceState ---------------------------
(***************************************************************************)
(* The state of one node's DAGA service (dagacothority/service): the map   *)
(* of third-party services, each with its map of contexts, the goroutines  *)
(* that read and update it, and its copy in permanent storage.             *)
(*                                                                         *)
(* A creator is a goroutine that accepts a CreateContext request and, once *)
(* the context is generated, starts serving it (the API handler of the     *)
(* leader or the protocol instance of a child); the context it creates is  *)
(* named by it.  A requester is a goroutine that checks whether the node   *)
(* serves a context (validateContext, for the PKClient and Auth requests). *)
(*                                                                         *)
(* State's lock protects the outer map only.  What is done under it is one *)
(* action; an access to a map of contexts, which no lock protects, begins  *)
(* in one step and ends in a later one.                                    *)
(***************************************************************************)
EXTENDS Integers, FiniteSets

CONSTANTS Services,     \* third-party services
          Creators, Requesters,
          ServiceOf,    \* the service of each creator's context
          Asked,        \* the context (its creator) each requester asks about
          SaveMayFail,  \* whether onet's Save may return an error
          MaxCrashes    \* bound on the number of times the node stops

Goroutines == Creators \cup Requesters

ASSUME GoroutinesAssumption == Creators \cap Requesters = {}
ASSUME ServiceOfAssumption ==
    ServiceOf \in [Creators -> Services] /\ Asked \in [Requesters -> Creators]
ASSUME BoundsAssumption == SaveMayFail \in BOOLEAN /\ MaxCrashes \in Nat

VARIABLES
    state,    \* Storage.State in memory
    disk,     \* what the database holds under storageID
    pc,       \* where each goroutine stands
    snapshot, \* what each creator's save has marshalled
    up,       \* whether the node runs
    panicked, \* whether startServingContext has panicked
    crashes

vars == <<state, disk, pc, snapshot, up, panicked, crashes>>

(* newState() *)
NewState == [known |-> {}, contexts |-> [s \in Services |-> {}]]
NothingStored == [known |-> {}, contexts |-> <<>>]
States == [known : SUBSET Services, contexts : [Services -> SUBSET Creators]]

TypeOK ==
    /\ state \in States
    /\ disk \in States \cup {NothingStored}
    /\ pc \in [Goroutines -> {"idle", "generating", "checking", "writing", "written",
                              "saving", "marshalled", "served", "failed", "reading",
                              "accepted", "refused", "stopped"}]
    /\ snapshot \in [Creators -> States]
    /\ up \in BOOLEAN
    /\ panicked \in BOOLEAN
    /\ crashes \in 0 .. MaxCrashes

Init ==
    /\ state = NewState
    /\ disk = NothingStored
    /\ pc = [g \in Goroutines |-> "idle"]
    /\ snapshot = [g \in Creators |-> NewState]
    /\ up = TRUE
    /\ panicked = FALSE
    /\ crashes = 0

Goto(g, label) == pc' = [pc EXCEPT ![g] = label]

(* The service whose contexts a goroutine is concerned with.               *)
Service(g) == ServiceOf[IF g \in Creators THEN g ELSE Asked[g]]

(* Accesses under way to the map of contexts of service s.                 *)
Writers(s) == {g \in Creators : pc[g] = "writing" /\ Service(g) = s}
Readers(s) == {g \in Goroutines : pc[g] \in {"checking", "reading"} /\ Service(g) = s}
              \cup {g \in Creators : pc[g] = "saving" /\ s \in state.known}

(* save() holds the read lock until onet's Save returns.                   *)
ReadLocked == \E g \in Creators : pc[g] \in {"saving", "marshalled"}

----------------------------------------------------------------------------
(* Creating a context.                                                     *)

(* createIfNotExisting without its check, and not called.                  *)
WithService_Overwrites(st, s) ==
    [known |-> st.known \cup {s}, contexts |-> [st.contexts EXCEPT ![s] = {}]]
WithService_NotCreated(st, s) == st

(* createIfNotExisting                                                     *)
WithService(st, s) ==
    IF s \in st.known THEN st
    ELSE [known |-> st.known \cup {s}, contexts |-> [st.contexts EXCEPT ![s] = {}]]

(* ValidateCreateContextReq, under the write lock.                         *)
ValidateCreateContextReq(g) ==
    /\ up /\ pc[g] = "idle" /\ ~ReadLocked
    /\ state' = WithService(state, Service(g))
    /\ Goto(g, "generating")
    /\ UNCHANGED <<disk, snapshot, up, panicked, crashes>>

(* The protocol reports an error, or its wait times out.                   *)
GenerationFails(g) ==
    /\ up /\ pc[g] = "generating"
    /\ Goto(g, "failed")
    /\ UNCHANGED <<state, disk, snapshot, up, panicked, crashes>>

(* All the goroutines stop with the process and its memory is lost.        *)
Stop ==
    /\ up' = FALSE
    /\ pc' = [g \in Goroutines |->
                IF pc[g] \in {"idle", "served", "failed", "accepted", "refused"}
                  THEN pc[g] ELSE "stopped"]
    /\ state' = NewState
    /\ snapshot' = [g \in Creators |-> NewState]
    /\ UNCHANGED disk

(* startServingContext: find the service and start looking for the context *)
(* in its map; an unknown service is a panic.                              *)
StartServing(g) ==
    /\ up /\ pc[g] = "generating"
    /\ IF Service(g) \in state.known
         THEN Goto(g, "checking") /\ UNCHANGED <<state, disk, snapshot, up, panicked>>
         ELSE panicked' = TRUE /\ Stop
    /\ UNCHANGED crashes

CheckExisting(g) ==
    /\ up /\ pc[g] = "checking"
    /\ Goto(g, IF g \in state.contexts[Service(g)] THEN "failed" ELSE "writing")
    /\ UNCHANGED <<state, disk, snapshot, up, panicked, crashes>>

(* Of two writes of a map at the same time one may be lost.                *)
WriteContext(g) ==
    /\ up /\ pc[g] = "writing"
    /\ \/ state' = [state EXCEPT !.contexts[Service(g)] = @ \cup {g}]
       \/ Writers(Service(g)) # {g} /\ UNCHANGED state
    /\ Goto(g, "written")
    /\ UNCHANGED <<disk, snapshot, up, panicked, crashes>>

(* save(): take the read lock, and start marshalling the maps.             *)
BeginSave(g) ==
    /\ up /\ pc[g] = "written"
    /\ Goto(g, "saving")
    /\ UNCHANGED <<state, disk, snapshot, up, panicked, crashes>>

(* What is marshalled of a map that is being written may hold the entry or *)
(* not.                                                                    *)
Marshal(g) ==
    /\ up /\ pc[g] = "saving"
    /\ \E seen \in SUBSET UNION {Writers(s) : s \in state.known} :
         snapshot' = [snapshot EXCEPT ![g] =
            [state EXCEPT !.contexts = [s \in Services |-> @[s] \cup (seen \cap Writers(s))]]]
    /\ Goto(g, "marshalled")
    /\ UNCHANGED <<state, disk, up, panicked, crashes>>

(* The database is written and the lock released; an error is logged only. *)
Persist(g) ==
    /\ up /\ pc[g] = "marshalled"
    /\ \/ disk' = snapshot[g]
       \/ SaveMayFail /\ UNCHANGED disk
    /\ Goto(g, "served")
    /\ UNCHANGED <<state, snapshot, up, panicked, crashes>>

----------------------------------------------------------------------------
(* Requests under a context.                                               *)

(* acceptContext: find the service and start looking for the context.      *)
Ask(r) ==
    /\ up /\ pc[r] = "idle"
    /\ Goto(r, IF Service(r) \in state.known THEN "reading" ELSE "refused")
    /\ UNCHANGED <<state, disk, snapshot, up, panicked, crashes>>

Answer(r) ==
    /\ up /\ pc[r] = "reading"
    /\ \E found \in {Asked[r] \in state.contexts[Service(r)],
                     Asked[r] \in state.contexts[Service(r)] \cup Writers(Service(r))} :
         Goto(r, IF found THEN "accepted" ELSE "refused")
    /\ UNCHANGED <<state, disk, snapshot, up, panicked, crashes>>

----------------------------------------------------------------------------
(* The process.                                                            *)

Racing == \E s \in Services : \E g \in Writers(s) :
             (Writers(s) \cup Readers(s)) \ {g} # {}

(* The Go runtime may end a process whose map is written while it is       *)
(* written, read or iterated; it may also stop for any other reason.       *)
Crash ==
    /\ up /\ crashes < MaxCrashes
    /\ Stop
    /\ crashes' = crashes + 1
    /\ UNCHANGED panicked

(* The state taken as found, without a case for an empty database.         *)
Loaded_AsFound == disk

(* setupState: what was stored, or a new state the first time.             *)
Loaded == IF disk = NothingStored THEN NewState ELSE disk

(* newService                                                              *)
Restart ==
    /\ ~up /\ ~panicked
    /\ up' = TRUE
    /\ state' = Loaded
    /\ UNCHANGED <<disk, pc, snapshot, panicked, crashes>>

CreatorStep(g) ==
    \/ ValidateCreateContextReq(g) \/ GenerationFails(g) \/ StartServing(g)
    \/ CheckExisting(g) \/ WriteContext(g) \/ BeginSave(g) \/ Marshal(g) \/ Persist(g)

Next ==
    \/ \E g \in Creators : CreatorStep(g)
    \/ \E r \in Requesters : Ask(r) \/ Answer(r)
    \/ Crash \/ Restart

Spec == Init /\ [][Next]_vars

----------------------------------------------------------------------------
(* Properties.                                                             *)

(* startServingContext never finds the service of its context missing: the *)
(* service was created by the same process when the request was validated, *)
(* minutes earlier, and a protocol instance does not outlive the process.  *)
ServiceIsKnown == ~panicked

(* A context the node serves stays served as long as the node runs,        *)
(* whatever other goroutines create for the same service meanwhile.        *)
ContextsStay ==
    [][up /\ up' => \A s \in Services : state.contexts[s] \subseteq state'.contexts[s]]_vars

(* What State's comment on its mutex asks for: no map is written while     *)
(* another goroutine reads or writes it.                                   *)
NoConcurrentMapAccess == ~Racing

(* What the comments of save and startServingContext say: once a context   *)
(* is served, permanent storage holds it.                                  *)
ServedIsStored ==
    \A g \in Creators : pc[g] = "served" =>
        disk # NothingStored /\ g \in disk.contexts[ServiceOf[g]]
=============================================================================
