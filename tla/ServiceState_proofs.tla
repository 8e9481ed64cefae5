----------------------- MODULE ServiceState_proofs -----------------------
(***************************************************************************)
(* Theorems about ServiceState, for all services, all goroutines and any   *)
(* number of stops.                                                        *)
(***************************************************************************)
EXTENDS ServiceState, TLAPS

(* Where a goroutine depends on the memory of the process it runs in.      *)
Creating == {"generating", "checking", "writing", "written", "saving", "marshalled"}
AtRest == {"idle", "served", "failed", "accepted", "refused", "stopped"}

(* Contexts belong to services that were created.                          *)
Consistent(st) == \A s \in Services : s \notin st.known => st.contexts[s] = {}

(* The inductive invariant: a creator past its validation runs in the      *)
(* process that created its service, and nothing runs in a stopped one.    *)
IInv ==
    /\ TypeOK
    /\ ~panicked
    /\ \A g \in Creators : pc[g] \in Creating => ServiceOf[g] \in state.known
    /\ ~up => \A g \in Goroutines : pc[g] \in AtRest
    /\ Consistent(state)
    /\ \A g \in Creators : Consistent(snapshot[g])
    /\ disk # NothingStored => Consistent(disk)

----------------------------------------------------------------------------
LEMMA NewStateIsConsistent == NewState \in States /\ Consistent(NewState)
  BY DEF NewState, States, Consistent

(* createIfNotExisting keeps every service and every context there is.     *)
LEMMA WithServiceKeeps ==
  ASSUME NEW st \in States, Consistent(st), NEW s \in Services
  PROVE  /\ WithService(st, s) \in States
         /\ Consistent(WithService(st, s))
         /\ st.known \cup {s} = WithService(st, s).known
         /\ \A t \in Services : st.contexts[t] \subseteq WithService(st, s).contexts[t]
  BY DEF WithService, States, Consistent

LEMMA InitIInv == Init => IInv
  <1> SUFFICES ASSUME Init PROVE IInv
    OBVIOUS
  <1>0. snapshot \in [Creators -> States] /\ crashes \in 0 .. MaxCrashes
    BY NewStateIsConsistent, BoundsAssumption DEF Init
  <1>1. TypeOK
    BY <1>0, NewStateIsConsistent DEF Init, TypeOK
  <1>2. \A g \in Creators : pc[g] \notin Creating
    BY DEF Init, Creating, Goroutines
  <1>3. Consistent(state) /\ \A g \in Creators : Consistent(snapshot[g])
    BY NewStateIsConsistent DEF Init
  <1> QED
    BY <1>1, <1>2, <1>3 DEF Init, IInv

(* A stop leaves the invariant true whoever brings it about.               *)
LEMMA StopKeeps ==
  ASSUME IInv, Stop, UNCHANGED panicked, crashes' \in 0 .. MaxCrashes
  PROVE  IInv'
  <1>1. TypeOK'
    BY NewStateIsConsistent DEF IInv, TypeOK, Stop
  <1>2. \A g \in Goroutines : pc'[g] \in AtRest /\ pc'[g] \notin Creating
    BY DEF Stop, AtRest, Creating
  <1>3. Consistent(state') /\ \A g \in Creators : Consistent(snapshot'[g])
    BY NewStateIsConsistent DEF Stop
  <1> QED
    BY <1>1, <1>2, <1>3 DEF IInv, Stop, Goroutines

(* Steps that only move one goroutine that runs, and leave the state.      *)
LEMMA MoveKeeps ==
  ASSUME IInv, NEW g \in Goroutines, up,
         NEW label \in {"generating", "checking", "writing", "written", "saving",
                        "marshalled", "served", "failed", "reading", "accepted", "refused"},
         g \in Creators /\ label \in Creating => ServiceOf[g] \in state'.known,
         Goto(g, label),
         state' \in States, Consistent(state'), state.known \subseteq state'.known,
         snapshot' \in [Creators -> States],
         \A h \in Creators : Consistent(snapshot'[h]),
         disk' \in States \cup {NothingStored},
         disk' # NothingStored => Consistent(disk'),
         UNCHANGED <<up, panicked, crashes>>
  PROVE  IInv'
  <1>1. TypeOK'
    BY DEF IInv, TypeOK, Goto
  <1>2. \A h \in Creators : pc'[h] \in Creating => ServiceOf[h] \in state'.known
    BY DEF IInv, TypeOK, Goto, Goroutines
  <1> QED
    BY <1>1, <1>2 DEF IInv

(* A creator's step, other than a stop, keeps the contexts there are.      *)
LEMMA CreatorStepKeeps ==
  ASSUME IInv, NEW g \in Creators, CreatorStep(g)
  PROVE  /\ IInv'
         /\ \A s \in Services : state.contexts[s] \subseteq state'.contexts[s]
  <1> DEFINE s == ServiceOf[g]
  <1>t. /\ state \in States /\ snapshot \in [Creators -> States]
        /\ disk \in States \cup {NothingStored}
    BY DEF IInv, TypeOK
  <1>c. /\ Consistent(state) /\ \A h \in Creators : Consistent(snapshot[h])
        /\ disk # NothingStored => Consistent(disk)
        /\ \A h \in Creators : pc[h] \in Creating => ServiceOf[h] \in state.known
    BY DEF IInv
  <1>g. /\ g \in Goroutines /\ s \in Services /\ Service(g) = s
        /\ \A h \in Creators : Service(h) = ServiceOf[h] /\ ServiceOf[h] \in Services
    BY ServiceOfAssumption DEF Goroutines, Service
  <1>1. CASE ValidateCreateContextReq(g)
    <2>1. /\ state' \in States /\ Consistent(state') /\ s \in state'.known
          /\ state.known \subseteq state'.known
          /\ \A t \in Services : state.contexts[t] \subseteq state'.contexts[t]
      BY <1>1, <1>t, <1>c, <1>g, WithServiceKeeps DEF ValidateCreateContextReq
    <2> QED
      BY <1>1, <1>t, <1>c, <1>g, <2>1, MoveKeeps DEF ValidateCreateContextReq
  <1>2. CASE GenerationFails(g)
    BY <1>2, <1>t, <1>c, <1>g, MoveKeeps DEF GenerationFails, Creating
  <1>3. CASE StartServing(g)
    <2>1. s \in state.known
      BY <1>3, <1>c DEF StartServing, Creating
    <2> QED
      BY <1>3, <2>1, <1>t, <1>c, <1>g, MoveKeeps DEF StartServing
  <1>4. CASE CheckExisting(g)
    <2>1. s \in state.known
      BY <1>4, <1>c DEF CheckExisting, Creating
    <2>2. PICK label \in {"failed", "writing"} : Goto(g, label)
      BY <1>4 DEF CheckExisting
    <2> QED
      BY <1>4, <2>1, <2>2, <1>t, <1>c, <1>g, MoveKeeps DEF CheckExisting
  <1>5. CASE WriteContext(g)
    <2>1. s \in state.known
      BY <1>5, <1>c DEF WriteContext, Creating
    <2>2. /\ state' \in States /\ Consistent(state') /\ state'.known = state.known
          /\ \A t \in Services : state.contexts[t] \subseteq state'.contexts[t]
      <3>1. CASE state' = [state EXCEPT !.contexts[s] = @ \cup {g}]
        BY <3>1, <2>1, <1>t, <1>c, <1>g DEF States, Consistent
      <3>2. CASE UNCHANGED state
        BY <3>2, <1>t, <1>c
      <3> QED
        BY <1>5, <1>g, <3>1, <3>2 DEF WriteContext
    <2> QED
      BY <1>5, <2>1, <2>2, <1>t, <1>c, <1>g, MoveKeeps DEF WriteContext
  <1>6. CASE BeginSave(g)
    <2>1. s \in state.known
      BY <1>6, <1>c DEF BeginSave, Creating
    <2> QED
      BY <1>6, <2>1, <1>t, <1>c, <1>g, MoveKeeps DEF BeginSave
  <1>7. CASE Marshal(g)
    <2>1. s \in state.known
      BY <1>7, <1>c DEF Marshal, Creating
    <2>2. PICK seen \in SUBSET UNION {Writers(t) : t \in state.known} :
            snapshot' = [snapshot EXCEPT ![g] =
              [state EXCEPT !.contexts =
                 [t \in Services |-> @[t] \cup (seen \cap Writers(t))]]]
      BY <1>7 DEF Marshal
    <2> DEFINE marshalled ==
          [state EXCEPT !.contexts =
             [t \in Services |-> @[t] \cup (seen \cap Writers(t))]]
    <2>3. \A t \in Services : Writers(t) # {} => t \in state.known
      BY <1>c, <1>g DEF Writers, Creating
    <2>4. \A t \in Services : Writers(t) \subseteq Creators
      BY DEF Writers
    <2>5. marshalled \in States /\ Consistent(marshalled)
      BY <2>3, <2>4, <1>t, <1>c DEF States, Consistent
    <2> HIDE DEF marshalled
    <2>6. /\ snapshot' \in [Creators -> States]
          /\ \A h \in Creators : Consistent(snapshot'[h])
      BY <2>2, <2>5, <1>t, <1>c DEF marshalled
    <2> QED
      BY <1>7, <2>1, <2>6, <1>t, <1>c, <1>g, MoveKeeps DEF Marshal
  <1>8. CASE Persist(g)
    <2>1. disk' \in States \cup {NothingStored} /\ (disk' # NothingStored => Consistent(disk'))
      BY <1>8, <1>t, <1>c DEF Persist
    <2> QED
      BY <1>8, <2>1, <1>t, <1>c, <1>g, MoveKeeps DEF Persist, Creating
  <1> QED
    BY <1>1, <1>2, <1>3, <1>4, <1>5, <1>6, <1>7, <1>8 DEF CreatorStep

(* A requester's step moves it and changes nothing else.                   *)
LEMMA RequesterStepKeeps ==
  ASSUME IInv, NEW r \in Requesters, Ask(r) \/ Answer(r)
  PROVE  IInv' /\ UNCHANGED state
  <1>1. /\ state \in States /\ snapshot \in [Creators -> States]
        /\ disk \in States \cup {NothingStored}
        /\ Consistent(state) /\ \A h \in Creators : Consistent(snapshot[h])
        /\ disk # NothingStored => Consistent(disk)
    BY DEF IInv, TypeOK
  <1>2. r \in Goroutines /\ r \notin Creators
    BY GoroutinesAssumption DEF Goroutines
  <1>3. /\ up /\ UNCHANGED <<state, disk, snapshot, up, panicked, crashes>>
        /\ \E label \in {"reading", "accepted", "refused"} : Goto(r, label)
    BY DEF Ask, Answer
  <1> QED
    BY <1>1, <1>2, <1>3, MoveKeeps

(* A restart takes the memory back from permanent storage, and finds no    *)
(* goroutine of the stopped process in the middle of a creation.           *)
LEMMA RestartKeeps ==
  ASSUME IInv, Restart
  PROVE  IInv'
  <1>1. Loaded \in States /\ Consistent(Loaded)
    BY NewStateIsConsistent DEF IInv, TypeOK, Loaded
  <1>2. TypeOK'
    BY <1>1 DEF IInv, TypeOK, Restart
  <1>3. \A g \in Goroutines : pc'[g] \notin Creating
    BY DEF IInv, Restart, AtRest, Creating
  <1> QED
    BY <1>1, <1>2, <1>3 DEF IInv, Restart, Goroutines

LEMMA StutterKeeps ==
  ASSUME IInv, UNCHANGED vars
  PROVE  IInv'
  <1>1. TypeOK'
    BY DEF IInv, TypeOK, vars
  <1> QED
    BY <1>1 DEF IInv, vars, Consistent

(* The inductive step, and what it says of the contexts the node serves.   *)
LEMMA NextKeeps ==
  ASSUME IInv, Next
  PROVE  /\ IInv'
         /\ up /\ up' => \A s \in Services : state.contexts[s] \subseteq state'.contexts[s]
  <1>1. ASSUME NEW g \in Creators, CreatorStep(g)
        PROVE  /\ IInv'
               /\ \A s \in Services : state.contexts[s] \subseteq state'.contexts[s]
    BY <1>1, CreatorStepKeeps
  <1>2. ASSUME NEW r \in Requesters, Ask(r) \/ Answer(r)
        PROVE  IInv' /\ UNCHANGED state
    BY <1>2, RequesterStepKeeps
  <1>3. CASE Crash
    <2>1. crashes' \in 0 .. MaxCrashes
      BY <1>3, BoundsAssumption DEF IInv, TypeOK, Crash
    <2> QED
      BY <1>3, <2>1, StopKeeps DEF Crash, Stop
  <1>4. CASE Restart
    BY <1>4, RestartKeeps DEF Restart
  <1> QED
    BY <1>1, <1>2, <1>3, <1>4 DEF Next

----------------------------------------------------------------------------
(* The strengthened invariant holds in every reachable state of the node.  *)
THEOREM Invariant == Spec => []IInv
  <1>1. IInv /\ [Next]_vars => IInv'
    BY NextKeeps, StutterKeeps
  <1> QED
    BY <1>1, InitIInv, PTL DEF Spec

(* Memory, permanent storage and the snapshots of save() keep their types. *)
THEOREM TypeCorrect == Spec => []TypeOK
  <1>1. IInv => TypeOK
    BY DEF IInv
  <1> QED
    BY <1>1, Invariant, PTL

(* However many contexts are created at the same time, and wherever the    *)
(* node stops and restarts, startServingContext finds the service that     *)
(* ValidateCreateContextReq created: it never panics.                      *)
THEOREM ServiceAlwaysKnown == Spec => []ServiceIsKnown
  <1>1. IInv => ServiceIsKnown
    BY DEF IInv, ServiceIsKnown
  <1> QED
    BY <1>1, Invariant, PTL

(* A running node never drops a context it serves: createIfNotExisting     *)
(* keeps the map of a service that exists, and nothing else empties it.    *)
THEOREM ContextsAreKept == Spec => ContextsStay
  <1>1. IInv /\ [Next]_vars =>
          [up /\ up' => \A s \in Services :
             state.contexts[s] \subseteq state'.contexts[s]]_vars
    BY NextKeeps
  <1> QED
    BY <1>1, Invariant, PTL DEF Spec, ContextsStay
=============================================================================
