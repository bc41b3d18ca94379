-------------------------- MODULE HostAccessProofs --------------------------
(***************************************************************************)
(* Theorems about UserStore and HostAccess, for any users and keys, any    *)
(* number of connections and any number of crashes and key rotations: what *)
(* the store promises, that HostAccess runs the store as UserStore         *)
(* specifies it, and which tokens are refused for an unknown key.          *)
(***************************************************************************)
EXTENDS HostAccess, TLAPS

-----------------------------------------------------------------------------
(* Types of the store *)

(* The kinds of files differ and list users. *)
LEMMA FileFacts ==
    /\ Missing \in File /\ Torn \in File
    /\ \A S \in SUBSET Users : Listing(S) \in File
    /\ \A S : Listing(S).users = S /\ Listing(S).kind = "listing" /\ Listing(S) # Torn
    /\ Missing.users = {} /\ Missing.kind = "missing" /\ Torn.kind = "torn"
    /\ Missing # Torn
    /\ \A f \in File : /\ f.users \subseteq Users
                       /\ f.kind = "listing" \/ f = Missing \/ f = Torn
  <1>1. Missing \in File /\ Torn \in File /\ \A S \in SUBSET Users : Listing(S) \in File
    BY DEF File
  <1>2. \A S : Listing(S).users = S /\ Listing(S).kind = "listing"
    BY DEF Listing
  <1>3. Missing.users = {} /\ Missing.kind = "missing" /\ Torn.kind = "torn" /\ Torn.users = {}
    BY DEF Missing, Torn
  <1>4. Missing # Torn /\ \A S : Listing(S) # Torn
    BY <1>2, <1>3
  <1>5. ASSUME NEW f \in File
        PROVE  f.users \subseteq Users /\ (f.kind = "listing" \/ f = Missing \/ f = Torn)
    <2>1. f = Missing \/ f = Torn \/ \E S \in SUBSET Users : f = Listing(S)
      BY DEF File
    <2> QED
      BY <1>2, <1>3, <2>1
  <1> QED
    BY <1>1, <1>2, <1>3, <1>4, <1>5

(* The host starts well typed, with or without a file. *)
LEMMA TypeInit == Init => TypeOK
  <1>1. Idle \in Task
    BY DEF Idle, Task, TaskPc
  <1>2. Init => file \in File
    BY FileFacts DEF Init
  <1>3. Init => task \in [Tasks -> Task]
    BY <1>1 DEF Init
  <1>4. Init => starts \in 0..MaxStarts
    BY UserStoreAssumption DEF Init
  <1>5. Init => /\ disk_failed \in BOOLEAN /\ running \in BOOLEAN /\ bootstrap_mode \in BOOLEAN
                /\ users \subseteq Users /\ loaded \subseteq Users
                /\ lock \in {{}} \cup {{c} : c \in Tasks} /\ granted \subseteq Users
    BY DEF Init
  <1> QED
    BY <1>2, <1>3, <1>4, <1>5 DEF TypeOK

(* Loading, crashing and every step of a task keep the types. *)
LEMMA TypeNext == TypeOK /\ [Next]_vars => TypeOK'
  <1> SUFFICES ASSUME TypeOK, [Next]_vars PROVE TypeOK'
    OBVIOUS
  <1> USE DEF disk, host
  <1>0. Idle \in Task
    BY DEF Idle, Task, TaskPc
  <1>f. Torn \in File /\ (\A S \in SUBSET Users : Listing(S) \in File) /\ file.users \subseteq Users
    BY FileFacts DEF TypeOK
  <1>1. CASE UNCHANGED vars
    BY <1>1 DEF vars, TypeOK
  <1>2. CASE Load
    BY <1>2, <1>f, UserStoreAssumption DEF Load, TypeOK
  <1>3. CASE Crash
    BY <1>0, <1>3 DEF Crash, TypeOK
  <1>4. ASSUME NEW c \in Tasks, NEW u \in Users, Ask(c, u) PROVE TypeOK'
    BY <1>4 DEF Ask, TypeOK, Task, TaskPc
  <1>5. ASSUME NEW c \in Tasks, Proceed(c) PROVE TypeOK'
    <2>0. task[c] \in Task /\ task[c].sub \subseteq Users /\ task[c].json \subseteq Users
      BY DEF TypeOK, Task
    <2>e. End(c) => task' \in [Tasks -> Task]
      BY <1>0 DEF End, TypeOK
    <2>g. Granted(c) => granted' \subseteq Users /\ task' \in [Tasks -> Task]
      BY <2>0, <2>e DEF Granted, TypeOK
    <2>t. ASSUME NEW pc \in TaskPc, Goto(c, pc) PROVE task' \in [Tasks -> Task]
      BY <2>0, <2>t DEF Goto, TypeOK, Task
    <2>1. CASE IsAuthorized(c)
      BY <2>1, <2>e, <2>g, <2>t DEF IsAuthorized, TypeOK, TaskPc
    <2>2. CASE Bootstrap(c)
      BY <2>2, <2>e, <2>t DEF Bootstrap, TypeOK, TaskPc
    <2>3. CASE RegisterUser(c)
      <3>1. CASE Known(c) /\ Granted(c) /\ UNCHANGED <<users, lock>>
        BY <2>3, <2>g, <3>1 DEF RegisterUser, TypeOK
      <3>2. CASE ~Known(c)
        <4>1. users' \subseteq Users /\ lock' = {c} /\ UNCHANGED <<disk, host, granted>>
          BY <2>0, <2>3, <3>2 DEF RegisterUser, TypeOK
        <4>2. task' = [task EXCEPT ![c].pc = "open", ![c].json = users']
          BY <2>3, <3>2 DEF RegisterUser
        <4>3. task' \in [Tasks -> Task]
          BY <2>0, <4>1, <4>2 DEF TypeOK, Task, TaskPc
        <4> QED
          BY <4>1, <4>3 DEF TypeOK
      <3> QED
        BY <2>3, <3>1, <3>2 DEF RegisterUser
    <2>4. CASE PersistOpen(c)
      BY <1>f, <2>4, <2>t DEF PersistOpen, TypeOK, TaskPc
    <2>5. CASE PersistWrite(c)
      BY <1>f, <2>0, <2>5, <2>g DEF PersistWrite, TypeOK
    <2>6. CASE PersistFails(c)
      BY <2>6, <2>e DEF PersistFails, TypeOK
    <2> QED
      BY <1>5, <2>1, <2>2, <2>3, <2>4, <2>5, <2>6 DEF Proceed
  <1> QED
    BY <1>1, <1>2, <1>3, <1>4, <1>5 DEF Next

(* Every reachable state of the store is well typed; in particular at most one
   task has the write lock. *)
THEOREM StoreTypeCorrect == Spec => []TypeOK
  BY TypeInit, TypeNext, PTL DEF Spec

-----------------------------------------------------------------------------
(* A closed store stays closed, whatever the disk does. *)

(* Nobody is on the way to a registration in a store that is closed. *)
ClosedInvariant ==
    /\ StoreStaysClosed
    /\ Closed => \A c \in Tasks : task[c].pc \notin {"register", "open", "write"}
    /\ running /\ ~bootstrap_mode => \A c \in Tasks : task[c].pc # "bootstrap"
    /\ ~running => \A c \in Tasks : task[c] = Idle

(* Registration starts only in bootstrap mode from an empty list, and the list
   that was loaded is empty then. *)
LEMMA ClosedNext ==
    ASSUME TypeOK, ClosedInvariant, [Next]_vars
    PROVE  ClosedInvariant'
  <1> USE DEF ClosedInvariant, StoreStaysClosed, Closed, TypeOK, disk, host
  <1>1. CASE UNCHANGED vars
    BY <1>1 DEF vars
  <1>2. CASE Load
    BY <1>2 DEF Load, Idle
  <1>3. CASE Crash
    BY <1>3 DEF Crash, Idle
  <1>4. ASSUME NEW c \in Tasks, NEW u \in Users, Ask(c, u) PROVE ClosedInvariant'
    BY <1>4 DEF Ask, At
  <1>5. ASSUME NEW c \in Tasks, Proceed(c) PROVE ClosedInvariant'
    <2>e. ASSUME End(c) PROVE \A d \in Tasks : task'[d] = Idle \/ task'[d] = task[d]
      BY <2>e DEF End
    <2>1. CASE IsAuthorized(c)
      <3>1. running /\ UNCHANGED <<host, users>>
        BY <2>1 DEF IsAuthorized, At
      <3>2. CASE End(c)
        BY <2>e, <3>2, <3>1 DEF Idle
      <3>3. CASE bootstrap_mode /\ Goto(c, "bootstrap")
        <4>1. task[c].pc = "check" /\ task' = [task EXCEPT ![c].pc = "bootstrap"]
          BY <2>1, <3>3 DEF IsAuthorized, At, Goto
        <4>2. \A d \in Tasks : task'[d] = task[d] \/ task'[d].pc = "bootstrap"
          BY <4>1 DEF Task
        <4> QED
          BY <3>1, <3>3, <4>2
      <3> QED
        BY <2>1, <3>2, <3>3 DEF IsAuthorized, Granted
    <2>2. CASE Bootstrap(c)
      <3>1. running /\ UNCHANGED <<host, users>>
        BY <2>2 DEF Bootstrap, At
      <3>2. CASE users = {} /\ Goto(c, "register")
        <4>1. ~Closed
          <5>1. bootstrap_mode
            BY <2>2 DEF Bootstrap, At
          <5> QED
            BY <3>1, <3>2, <5>1
        <4> QED
          BY <3>1, <4>1
      <3>3. CASE End(c)
        BY <2>e, <3>1, <3>3 DEF Idle
      <3> QED
        BY <2>2, <3>2, <3>3 DEF Bootstrap
    <2>3. CASE RegisterUser(c)
      BY <2>3 DEF RegisterUser, At
    <2>4. CASE PersistOpen(c) \/ PersistWrite(c) \/ PersistFails(c)
      BY <2>4 DEF PersistOpen, PersistWrite, PersistFails, At
    <2> QED
      BY <1>5, <2>1, <2>2, <2>3, <2>4 DEF Proceed
  <1> QED
    BY <1>1, <1>2, <1>3, <1>4, <1>5 DEF Next

(* check_or_bootstrap registers nobody in a store that has users or whose
   bootstrap mode is off, for any number of racing connections, crashes and
   disk errors. *)
THEOREM ClosedStoreStaysClosed == Spec => []StoreStaysClosed
  <1>1. Init => ClosedInvariant
    BY DEF Init, ClosedInvariant, StoreStaysClosed, Idle
  <1>2. TypeOK /\ ClosedInvariant /\ [Next]_vars => ClosedInvariant'
    BY ClosedNext
  <1>3. ClosedInvariant => StoreStaysClosed
    BY DEF ClosedInvariant
  <1> QED
    BY <1>1, <1>2, <1>3, StoreTypeCorrect, PTL DEF Spec

-----------------------------------------------------------------------------
(* Memory and disk, as long as the disk has not failed. *)

(* The task in persist has the write lock and writes the list in memory, its own
   user included; before it opens the file, and when nobody is in persist, the
   file is whole. *)
PersistInvariant ==
    \A c \in Tasks :
        /\ Persisting(c) <=> c \in lock
        /\ Persisting(c) => /\ running
                            /\ task[c].json = users
                            /\ task[c].sub \subseteq users
        /\ task[c].pc = "open" => file # Torn

(* Users that were granted are in the list in memory while the host runs, and in
   the list on disk whenever there is one. *)
GrantInvariant ==
    /\ GrantIsDurable
    /\ running => granted \subseteq users
    /\ file = Missing => granted = {}

DiskInvariant == DiskMatchesMemory /\ PersistInvariant /\ GrantInvariant

(* A lock that is free is nobody's: no task is in persist. *)
LEMMA FreeLock ==
    ASSUME PersistInvariant, lock = {}
    PROVE  \A c \in Tasks : ~Persisting(c)
  BY DEF PersistInvariant

(* A step in which no task enters or leaves persist and nothing is granted. *)
LEMMA QuietStoreStep ==
    ASSUME TypeOK, DiskInvariant, ~disk_failed, ~disk_failed',
           UNCHANGED <<file, running, users, lock>>,
           granted' = granted \/ (granted' \subseteq users /\ lock = {} /\ running),
           \A c \in Tasks : task'[c] = task[c] \/ (~Persisting(c) /\ ~Persisting(c)')
    PROVE  DiskInvariant'
  <1>1. \A c \in Tasks : Persisting(c)' <=> Persisting(c)
    BY DEF Persisting
  <1>2. DiskMatchesMemory'
    BY <1>1 DEF DiskInvariant, DiskMatchesMemory
  <1>3. PersistInvariant'
    BY <1>1 DEF DiskInvariant, PersistInvariant, Persisting
  <1>4. GrantInvariant'
    <2>1. CASE granted' = granted
      BY <2>1 DEF DiskInvariant, GrantInvariant, GrantIsDurable
    <2>2. CASE granted' \subseteq users /\ lock = {} /\ running
      <3>1. file.users = users
        BY <2>2, FreeLock DEF DiskInvariant, DiskMatchesMemory
      <3>2. file = Missing => users = {}
        BY <3>1, FileFacts
      <3> QED
        BY <2>2, <3>1, <3>2 DEF GrantInvariant, GrantIsDurable
    <2> QED
      BY <2>1, <2>2
  <1> QED
    BY <1>2, <1>3, <1>4 DEF DiskInvariant

(* Every step keeps memory and disk together. *)
LEMMA DiskNext ==
    ASSUME TypeOK, ClosedInvariant, DiskInvariant, ~disk_failed, ~disk_failed', [Next]_vars
    PROVE  DiskInvariant'
  <1> USE DEF disk, host
  <1>1. CASE UNCHANGED vars
    BY <1>1, QuietStoreStep DEF vars
  <1>2. CASE Load
    <2>1. \A c \in Tasks : ~Persisting(c) /\ task'[c] = task[c] /\ c \notin lock
      BY <1>2 DEF Load, ClosedInvariant, Persisting, Idle, DiskInvariant, PersistInvariant
    <2>2. running' /\ users' = file.users /\ file # Torn /\ UNCHANGED <<file, lock, granted>>
      BY <1>2 DEF Load
    <2>3. granted \subseteq file.users
      BY <2>2, FileFacts DEF TypeOK, DiskInvariant, GrantInvariant, GrantIsDurable
    <2>4. \A c \in Tasks : ~Persisting(c)'
      BY <2>1 DEF Persisting
    <2>5. PersistInvariant'
      BY <2>1, <2>2, <2>4 DEF PersistInvariant, Persisting
    <2>6. GrantInvariant'
      BY <2>2, <2>3 DEF DiskInvariant, GrantInvariant, GrantIsDurable
    <2> QED
      BY <2>2, <2>5, <2>6 DEF DiskInvariant, DiskMatchesMemory
  <1>3. CASE Crash
    <2>1. \A c \in Tasks : ~Persisting(c)' /\ task'[c].pc = "idle"
      BY <1>3 DEF Crash, Persisting, Idle
    <2> QED
      BY <1>3, <2>1 DEF Crash, DiskInvariant, DiskMatchesMemory, PersistInvariant,
                        GrantInvariant, GrantIsDurable
  <1>4. ASSUME NEW c \in Tasks, NEW u \in Users, Ask(c, u) PROVE DiskInvariant'
    <2>1. ~Persisting(c) /\ ~Persisting(c)' /\ \A d \in Tasks \ {c} : task'[d] = task[d]
      BY <1>4 DEF Ask, At, Persisting, TypeOK
    <2> QED
      BY <1>4, <2>1, QuietStoreStep DEF Ask
  <1>5. ASSUME NEW c \in Tasks, Proceed(c) PROVE DiskInvariant'
    <2>0. task[c] \in Task
      BY DEF TypeOK
    <2>e. ASSUME End(c)
          PROVE  ~Persisting(c)' /\ \A d \in Tasks \ {c} : task'[d] = task[d]
      BY <2>e DEF End, Idle, Persisting, TypeOK
    <2>t. ASSUME NEW pc \in {"bootstrap", "register"}, Goto(c, pc)
          PROVE  ~Persisting(c)' /\ \A d \in Tasks \ {c} : task'[d] = task[d]
      BY <2>0, <2>t DEF Goto, Persisting, TypeOK, Task
    <2>1. CASE IsAuthorized(c)
      <3>1. ~Persisting(c) /\ ~Persisting(c)' /\ \A d \in Tasks \ {c} : task'[d] = task[d]
        BY <2>1, <2>e, <2>t DEF IsAuthorized, Granted, At, Persisting
      <3>2. granted' = granted \/ (granted' \subseteq users /\ lock = {} /\ running)
        BY <2>1 DEF IsAuthorized, Granted, Known, At, DiskInvariant, GrantInvariant
      <3> QED
        BY <2>1, <3>1, <3>2, QuietStoreStep DEF IsAuthorized
    <2>2. CASE Bootstrap(c)
      <3>1. ~Persisting(c) /\ ~Persisting(c)' /\ \A d \in Tasks \ {c} : task'[d] = task[d]
        BY <2>2, <2>e, <2>t DEF Bootstrap, At, Persisting
      <3> QED
        BY <2>2, <3>1, QuietStoreStep DEF Bootstrap
    <2>3. CASE RegisterUser(c)
      <3>1. ~Persisting(c) /\ lock = {} /\ running
        BY <2>3 DEF RegisterUser, At, Persisting
      <3>2. CASE Known(c) /\ Granted(c) /\ UNCHANGED <<users, lock>>
        <4>1. granted' \subseteq users
          BY <3>1, <3>2 DEF Known, Granted, DiskInvariant, GrantInvariant
        <4> QED
          BY <2>3, <2>e, <3>1, <3>2, <4>1, QuietStoreStep DEF RegisterUser, Granted
      <3>3. CASE ~Known(c)
        <4>1. /\ users' = users \cup task[c].sub /\ lock' = {c}
              /\ task' = [task EXCEPT ![c].pc = "open", ![c].json = users']
              /\ UNCHANGED <<file, running, granted>>
          BY <2>3, <3>3 DEF RegisterUser
        <4>2. /\ task'[c].pc = "open" /\ task'[c].json = users' /\ task'[c].sub = task[c].sub
              /\ \A d \in Tasks \ {c} : task'[d] = task[d]
          BY <2>0, <4>1 DEF TypeOK, Task
        <4>3. Persisting(c)' /\ \A d \in Tasks \ {c} : ~Persisting(d)' /\ task[d].pc # "open"
          BY <3>1, <4>2, FreeLock DEF DiskInvariant, Persisting
        <4>4. file # Torn
          BY <3>1, FreeLock DEF DiskInvariant, DiskMatchesMemory
        <4>5. PersistInvariant'
          BY <3>1, <4>1, <4>2, <4>3, <4>4 DEF PersistInvariant
        <4>6. GrantInvariant'
          BY <3>1, <4>1 DEF DiskInvariant, GrantInvariant, GrantIsDurable
        <4> QED
          BY <4>3, <4>5, <4>6 DEF DiskInvariant, DiskMatchesMemory
      <3> QED
        BY <2>3, <3>2, <3>3 DEF RegisterUser
    <2>4. ASSUME Persisting(c)
          PROVE  /\ lock = {c} /\ running
                 /\ task[c].json = users /\ task[c].sub \subseteq users
                 /\ granted \subseteq users
                 /\ \A d \in Tasks \ {c} : ~Persisting(d)
      BY <2>4 DEF TypeOK, DiskInvariant, PersistInvariant, GrantInvariant
    <2>5. CASE PersistOpen(c)
      <3>1. /\ task'[c].pc = "write" /\ task'[c].json = task[c].json
            /\ task'[c].sub = task[c].sub
            /\ \A d \in Tasks \ {c} : task'[d] = task[d]
        BY <2>0, <2>5 DEF PersistOpen, Goto, TypeOK, Task
      <3>2. Persisting(c) /\ file' = Torn /\ UNCHANGED <<running, users, lock, granted>>
        BY <2>5 DEF PersistOpen, At, Persisting
      <3>3. Persisting(c)' /\ \A d \in Tasks \ {c} : ~Persisting(d)' /\ task'[d].pc # "open"
        BY <2>4, <3>1, <3>2 DEF Persisting
      <3>4. PersistInvariant'
        BY <2>4, <3>1, <3>2, <3>3 DEF PersistInvariant
      <3>5. GrantInvariant'
        BY <2>4, <3>2, FileFacts DEF GrantInvariant, GrantIsDurable
      <3> QED
        BY <3>3, <3>4, <3>5 DEF DiskInvariant, DiskMatchesMemory
    <2>6. CASE PersistWrite(c)
      <3>1. /\ Persisting(c) /\ file' = Listing(task[c].json) /\ lock' = lock \ {c}
            /\ granted' = granted \cup task[c].sub /\ End(c) /\ UNCHANGED <<running, users>>
        BY <2>6 DEF PersistWrite, At, Persisting, Granted
      <3>2. file'.users = users /\ file' # Torn /\ file' # Missing
        BY <2>4, <3>1, FileFacts
      <3>3. \A d \in Tasks : ~Persisting(d)'
        BY <2>4, <2>e, <3>1 DEF Persisting
      <3>4. PersistInvariant'
        BY <2>4, <3>1, <3>3 DEF PersistInvariant, Persisting
      <3>5. GrantInvariant'
        BY <2>4, <3>1, <3>2 DEF GrantInvariant, GrantIsDurable
      <3> QED
        BY <3>1, <3>2, <3>4, <3>5 DEF DiskInvariant, DiskMatchesMemory
    <2> QED
      BY <1>5, <2>1, <2>2, <2>3, <2>5, <2>6 DEF Proceed, PersistFails
  <1> QED
    BY <1>1, <1>2, <1>3, <1>4, <1>5 DEF Next

(* A disk that has failed has failed for good. *)
LEMMA FailureStays ==
    ASSUME TypeOK, disk_failed, [Next]_vars
    PROVE  disk_failed'
  BY DEF Next, Load, Crash, Ask, Proceed, IsAuthorized, Bootstrap, RegisterUser,
         PersistOpen, PersistWrite, PersistFails, disk, vars

(* As long as opening and writing the file have not failed, the write lock that
   register_user keeps through persist makes memory and disk agree between
   registrations, and no list of users that a restarted host can load misses a
   user that was told it is authorized. *)
THEOREM GrantsSurvive == Spec => [](DiskMatchesMemory /\ GrantIsDurable)
  <1> DEFINE Inv == ClosedInvariant /\ (~disk_failed => DiskInvariant)
  <1>1. Init => Inv
    BY DEF Init, ClosedInvariant, StoreStaysClosed, DiskInvariant, DiskMatchesMemory,
           PersistInvariant, GrantInvariant, GrantIsDurable, Persisting, Idle
  <1>2. TypeOK /\ Inv /\ [Next]_vars => Inv'
    BY ClosedNext, DiskNext, FailureStays
  <1>3. Inv => DiskMatchesMemory /\ GrantIsDurable
    BY DEF DiskInvariant, GrantInvariant, DiskMatchesMemory, GrantIsDurable
  <1> QED
    BY <1>1, <1>2, <1>3, StoreTypeCorrect, PTL DEF Spec

-----------------------------------------------------------------------------
(* The listener and the store *)

(* The listener and the keys leave the store alone, and what a connection's task
   does with it is a step of UserStore. *)
LEMMA AccessStepIsStoreStep == [AccessNext]_allVars => [Next]_vars
  <1> SUFFICES ASSUME [AccessNext]_allVars PROVE [Next]_vars
    OBVIOUS
  <1>1. CASE UNCHANGED allVars
    BY <1>1 DEF allVars
  <1>2. CASE Rotate \/ Expire \/ Accept \/ Close
    BY <1>2 DEF Rotate, Expire, Accept, Close
  <1>3. CASE Serve \/ HostStops
    BY <1>3 DEF Serve, HostStops, Next
  <1>4. ASSUME NEW c \in Tasks, Established(c) \/ JoinNext(c) \/ Fetch(c) \/ TaskStep(c)
        PROVE  [Next]_vars
    <2>1. CASE Established(c) \/ JoinNext(c) \/ Fetch(c) \/ LookupCached(c) \/ Store(c)
      BY <2>1 DEF Established, JoinNext, Fetch, LookupCached, Store
    <2>2. CASE Decode(c)
      BY <2>2 DEF Decode, Next
    <2>3. CASE CheckOrBootstrap(c)
      BY <2>3 DEF CheckOrBootstrap, Next
    <2> QED
      BY <1>4, <2>1, <2>2, <2>3 DEF TaskStep
  <1> QED
    BY <1>1, <1>2, <1>3, <1>4 DEF AccessNext

(* Whatever the listener, the identity provider and the key cache do, the store
   of authorized users behaves as UserStore says. *)
THEOREM AccessUsesStore == AccessSpec => Spec
  <1>1. AccessInit => Init
    BY DEF AccessInit
  <1> QED
    BY <1>1, AccessStepIsStoreStep, PTL DEF AccessSpec, Spec

(* So a closed store stays closed and grants are durable when tokens are
   validated, connections accepted and the host restarted around it. *)
THEOREM StoreIsSafeBehindListener == AccessSpec => [](StoreStaysClosed /\ GrantIsDurable)
  BY AccessUsesStore, ClosedStoreStaysClosed, GrantsSurvive, PTL

-----------------------------------------------------------------------------
(* Keys *)

Places == {"none", "lookup", "fetch", "answer", "recheck", "decode", "ask", "done", "unknown",
           "joined"}
Request == [at : Places, kid : Keys, answer : SUBSET Keys, excused : BOOLEAN]

(* Types of the listener, the key cache and the connections. *)
AccessTypeOK ==
    /\ published \in (SUBSET Keys) \ {{}}
    /\ cache \in [keys : SUBSET Keys, fresh : BOOLEAN]
    /\ request \in [Tasks -> Request]

(* Where a connection is, the key of its token is where it looks next: at the
   provider, in the answer it was given, or in the cache it has filled; or the
   provider or another task has taken it away on the way. *)
KeyInvariant ==
    \A c \in Tasks :
        LET r == request[c] IN
        /\ r.at \in {"lookup", "fetch"} => r.excused \/ r.kid \in published
        /\ r.at = "answer" => r.excused \/ r.kid \in r.answer
        /\ r.at = "recheck" => r.excused \/ Hit(c)
        /\ r.at = "unknown" => r.excused

(* A connection that is put aside has the key that Done gives it. *)
LEMMA DoneIsRequest ==
    ASSUME AccessTypeOK, NEW at \in Places
    PROVE  Done(at) \in Request /\ Done(at).at = at
  <1>1. \E k \in Keys : TRUE
    BY DEF AccessTypeOK
  <1>2. (CHOOSE k \in Keys : TRUE) \in Keys
    BY <1>1
  <1> QED
    BY <1>2 DEF Done, Request

(* A step of connection c that writes its request only, and leaves it where
   nothing is known of its key or where the invariant holds of it. *)
LEMMA RequestStep ==
    ASSUME AccessTypeOK, KeyInvariant, NEW c \in Tasks, NEW r \in Request,
           request' = [request EXCEPT ![c] = r], UNCHANGED <<published, cache>>,
           /\ r.at \in {"lookup", "fetch"} => r.excused \/ r.kid \in published
           /\ r.at = "answer" => r.excused \/ r.kid \in r.answer
           /\ r.at = "recheck" => r.excused \/ (cache.fresh /\ r.kid \in cache.keys)
           /\ r.at = "unknown" => r.excused
    PROVE  AccessTypeOK' /\ KeyInvariant'
  <1>1. request' \in [Tasks -> Request] /\ request'[c] = r
        /\ \A d \in Tasks \ {c} : request'[d] = request[d]
    BY DEF AccessTypeOK
  <1>2. AccessTypeOK'
    BY <1>1 DEF AccessTypeOK
  <1>3. KeyInvariant'
    BY <1>1 DEF KeyInvariant, Hit
  <1> QED
    BY <1>2, <1>3

(* The request of a connection that moves on has its new place and is otherwise
   what it was. *)
LEMMA MovedRequest ==
    ASSUME AccessTypeOK, NEW c \in Tasks, NEW at \in Places, Move(c, at)
    PROVE  \E r \in Request :
             /\ request' = [request EXCEPT ![c] = r]
             /\ r = [request[c] EXCEPT !.at = at]
             /\ r.at = at /\ r.kid = request[c].kid
             /\ r.answer = request[c].answer /\ r.excused = request[c].excused
  <1> DEFINE r == [request[c] EXCEPT !.at = at]
  <1>1. request[c] \in Request
    BY DEF AccessTypeOK
  <1>2. /\ r \in Request
        /\ r.at = at /\ r.kid = request[c].kid
        /\ r.answer = request[c].answer /\ r.excused = request[c].excused
    BY <1>1 DEF Request
  <1>3. request' = [request EXCEPT ![c] = r]
    BY DEF Move
  <1> QED
    BY <1>2, <1>3

(* A connection that is put aside. *)
LEMMA LeaveStep ==
    ASSUME AccessTypeOK, KeyInvariant, NEW c \in Tasks, NEW at \in {"decode", "ask", "done", "joined"},
           Leave(c, at), UNCHANGED <<published, cache>>
    PROVE  AccessTypeOK' /\ KeyInvariant'
  <1>1. Done(at) \in Request /\ Done(at).at = at
    BY DoneIsRequest DEF Places
  <1> QED
    BY <1>1, RequestStep DEF Leave

(* The host starts and stops with no request. *)
LEMMA NoRequests ==
    ASSUME AccessTypeOK, request' = [c \in Tasks |-> NoRequest], cache' = NoCache,
           UNCHANGED published
    PROVE  AccessTypeOK' /\ KeyInvariant'
  <1>1. NoRequest \in Request /\ NoRequest.at = "none"
    BY DoneIsRequest DEF NoRequest, Places
  <1> QED
    BY <1>1 DEF AccessTypeOK, KeyInvariant, NoCache

(* Excusing requests only weakens what the invariant asks of them. *)
LEMMA ExcuseFacts ==
    ASSUME AccessTypeOK, NEW C, Excuse(C)
    PROVE  /\ request' \in [Tasks -> Request]
           /\ \A c \in Tasks : /\ request'[c].at = request[c].at
                               /\ request'[c].kid = request[c].kid
                               /\ request'[c].answer = request[c].answer
                               /\ request'[c].excused = (request[c].excused \/ c \in C)
  BY DEF AccessTypeOK, Excuse, Request

(* Every step keeps the key of every token where it is looked for, or excuses
   the token. *)
LEMMA AccessInvNext ==
    ASSUME AccessTypeOK, KeyInvariant, [AccessNext]_allVars
    PROVE  AccessTypeOK' /\ KeyInvariant'
  <1>1. CASE UNCHANGED allVars
    BY <1>1 DEF allVars, accessVars, AccessTypeOK, KeyInvariant, Hit
  <1>2. CASE Rotate
    <2> DEFINE C == {c \in Seeking : request[c].kid \notin published'}
    <2>1. Excuse(C) /\ published' \in (SUBSET Keys) \ {{}} /\ UNCHANGED cache
      BY <1>2 DEF Rotate
    <2>2. AccessTypeOK'
      BY <2>1, ExcuseFacts DEF AccessTypeOK
    <2>3. \A c \in Tasks : request[c].at \in {"lookup", "fetch"} => c \in C \/ request[c].kid \in published'
      BY DEF Seeking
    <2>4. KeyInvariant'
      BY <2>1, <2>3, ExcuseFacts DEF KeyInvariant, Hit
    <2> QED
      BY <2>2, <2>4
  <1>3. CASE Expire
    <2> DEFINE C == {c \in Seeking : request[c].at = "recheck"}
    <2>1. Excuse(C) /\ UNCHANGED published /\ cache' \in [keys : SUBSET Keys, fresh : BOOLEAN]
      BY <1>3 DEF Expire, AccessTypeOK
    <2>2. AccessTypeOK'
      BY <2>1, ExcuseFacts DEF AccessTypeOK
    <2>3. \A c \in Tasks : request[c].at = "recheck" => c \in C
      BY DEF Seeking
    <2>4. \A c \in Tasks :
            /\ request'[c].at = request[c].at /\ request'[c].kid = request[c].kid
            /\ request'[c].answer = request[c].answer
            /\ request[c].excused \/ request[c].at = "recheck" => request'[c].excused
      BY <2>1, <2>3, ExcuseFacts
    <2>5. KeyInvariant'
      BY <2>1, <2>4 DEF KeyInvariant
    <2> QED
      BY <2>2, <2>5
  <1>4. CASE Serve \/ HostStops
    BY <1>4, NoRequests DEF Serve, HostStops
  <1>5. CASE Accept \/ Close
    BY <1>5 DEF Accept, Close, AccessTypeOK, KeyInvariant, Hit
  <1>6. ASSUME NEW c \in Tasks, Established(c) PROVE AccessTypeOK' /\ KeyInvariant'
    <2>1. PICK kid \in Keys :
            request' = [request EXCEPT ![c] = [at |-> "lookup", kid |-> kid, answer |-> {},
                                               excused |-> kid \notin published]]
      BY <1>6 DEF Established
    <2>2. [at |-> "lookup", kid |-> kid, answer |-> {}, excused |-> kid \notin published] \in Request
      BY DEF Request, Places
    <2>3. UNCHANGED <<published, cache>>
      BY <1>6 DEF Established
    <2> QED
      BY <2>1, <2>2, <2>3, RequestStep
  <1>7. ASSUME NEW c \in Tasks, JoinNext(c) PROVE AccessTypeOK' /\ KeyInvariant'
    BY <1>7, LeaveStep DEF JoinNext
  <1>8. ASSUME NEW c \in Tasks, LookupCached(c) PROVE AccessTypeOK' /\ KeyInvariant'
    <2>1. UNCHANGED <<published, cache>>
      BY <1>8 DEF LookupCached
    <2>2. CASE Hit(c)
      BY <1>8, <2>1, <2>2, LeaveStep DEF LookupCached
    <2>3. CASE ~Hit(c) /\ request[c].at = "lookup"
      <3>1. Move(c, "fetch")
        BY <1>8, <2>3 DEF LookupCached
      <3>2. PICK r \in Request : /\ request' = [request EXCEPT ![c] = r]
                                 /\ r.at = "fetch" /\ r.kid = request[c].kid
                                 /\ r.excused = request[c].excused
        BY <3>1, MovedRequest DEF Places
      <3>3. r.excused \/ r.kid \in published
        BY <2>3, <3>2 DEF KeyInvariant
      <3> QED
        BY <2>1, <3>2, <3>3, RequestStep
    <2>4. CASE ~Hit(c) /\ request[c].at = "recheck"
      <3>1. Move(c, "unknown")
        BY <1>8, <2>4 DEF LookupCached
      <3>2. PICK r \in Request : /\ request' = [request EXCEPT ![c] = r]
                                 /\ r.at = "unknown" /\ r.excused = request[c].excused
        BY <3>1, MovedRequest DEF Places
      <3>3. r.excused
        BY <2>4, <3>2 DEF KeyInvariant
      <3> QED
        BY <2>1, <3>2, <3>3, RequestStep
    <2> QED
      BY <1>8, <2>2, <2>3, <2>4 DEF LookupCached, Is
  <1>9. ASSUME NEW c \in Tasks, Fetch(c) PROVE AccessTypeOK' /\ KeyInvariant'
    <2>1. UNCHANGED <<published, cache>> /\ request[c].at = "fetch" /\ request[c] \in Request
      BY <1>9 DEF Fetch, Is, AccessTypeOK
    <2>2. CASE request' = [request EXCEPT ![c].at = "answer", ![c].answer = published]
      <3> DEFINE r == [[request[c] EXCEPT !.at = "answer"] EXCEPT !.answer = published]
      <3>1. request' = [request EXCEPT ![c] = r]
        BY <2>1, <2>2 DEF AccessTypeOK
      <3>2. r \in Request
        BY <2>1 DEF Request, Places, AccessTypeOK
      <3>3. r.at = "answer" /\ r.kid = request[c].kid /\ r.answer = published
            /\ r.excused = request[c].excused
        BY <2>1 DEF Request
      <3>4. r.excused \/ r.kid \in r.answer
        BY <2>1, <3>3 DEF KeyInvariant
      <3> QED
        BY <2>1, <3>1, <3>2, <3>3, <3>4, RequestStep
    <2>3. CASE Leave(c, "done")
      BY <2>1, <2>3, LeaveStep
    <2> QED
      BY <1>9, <2>2, <2>3 DEF Fetch
  <1>10. ASSUME NEW c \in Tasks, Store(c) PROVE AccessTypeOK' /\ KeyInvariant'
    <2> DEFINE n(d) == IF d = c THEN [request[c] EXCEPT !.at = "recheck"]
                       ELSE [request[d] EXCEPT !.excused = @ \/ request[d].at = "recheck"]
    <2>1. /\ request[c].at = "answer" /\ UNCHANGED published
          /\ cache' = [keys |-> request[c].answer, fresh |-> TRUE]
          /\ request' = [d \in Tasks |-> n(d)]
      BY <1>10 DEF Store, Is
    <2>2. \A d \in Tasks : request[d] \in Request
      BY DEF AccessTypeOK
    <2>3. \A d \in Tasks : n(d) \in Request
      BY <2>2 DEF Request, Places
    <2>4. AccessTypeOK'
      BY <2>1, <2>2, <2>3 DEF AccessTypeOK, Request
    <2>5. ASSUME NEW d \in Tasks, d # c
          PROVE  /\ request'[d].at = request[d].at /\ request'[d].kid = request[d].kid
                 /\ request'[d].answer = request[d].answer
                 /\ request'[d].excused = (request[d].excused \/ request[d].at = "recheck")
      BY <2>1, <2>2, <2>5 DEF Request
    <2>6. /\ request'[c].at = "recheck" /\ request'[c].kid = request[c].kid
          /\ request'[c].excused = request[c].excused
      BY <2>1, <2>2 DEF Request
    <2>7. request'[c].excused \/ Hit(c)'
      BY <2>1, <2>6 DEF KeyInvariant, Hit
    <2>8. KeyInvariant'
      <3>1. \A d \in Tasks \ {c} :
              /\ request'[d].at = request[d].at /\ request'[d].kid = request[d].kid
              /\ request'[d].answer = request[d].answer
              /\ request[d].excused \/ request[d].at = "recheck" => request'[d].excused
        BY <2>5
      <3> HIDE DEF n
      <3> QED
        BY <2>1, <2>6, <2>7, <3>1 DEF KeyInvariant
    <2> QED
      BY <2>4, <2>8
  <1>11. ASSUME NEW c \in Tasks, Decode(c) PROVE AccessTypeOK' /\ KeyInvariant'
    BY <1>11, LeaveStep DEF Decode
  <1>12. ASSUME NEW c \in Tasks, CheckOrBootstrap(c) PROVE AccessTypeOK' /\ KeyInvariant'
    <2>1. UNCHANGED <<published, cache>>
      BY <1>12 DEF CheckOrBootstrap
    <2>2. CASE UNCHANGED request
      BY <2>1, <2>2 DEF AccessTypeOK, KeyInvariant, Hit
    <2> QED
      BY <1>12, <2>1, <2>2, LeaveStep DEF CheckOrBootstrap
  <1> QED
    BY <1>1, <1>2, <1>3, <1>4, <1>5, <1>6, <1>7, <1>8, <1>9, <1>10, <1>11, <1>12
    DEF AccessNext, TaskStep

(* The key set, the cache and the requests are well typed, and the key of every
   token is where its task looks next. *)
THEOREM KeysAreFollowed == AccessSpec => [](AccessTypeOK /\ KeyInvariant)
  <1>1. AccessInit => AccessTypeOK /\ KeyInvariant
    <2> SUFFICES ASSUME AccessInit PROVE AccessTypeOK /\ KeyInvariant
      OBVIOUS
    <2>1. (CHOOSE k \in Keys : TRUE) \in Keys
      <3>1. \E k \in Keys : TRUE
        BY DEF AccessInit
      <3> QED
        BY <3>1
    <2>2. NoRequest \in Request /\ NoRequest.at = "none"
      BY <2>1 DEF NoRequest, Done, Request, Places
    <2> QED
      BY <2>2 DEF AccessInit, AccessTypeOK, KeyInvariant, NoCache
  <1> QED
    BY <1>1, AccessInvNext, PTL DEF AccessSpec

(* A connection's token is refused for an unknown key only if the provider did
   not publish that key all the while, or the keys this task had fetched were
   overwritten or expired before its second lookup: for any number of
   connections that fetch at once, and any number of rotations and restarts. *)
THEOREM OnlyExcusedKeysAreUnknown == AccessSpec => []UnknownKeyIsExcused
  <1>1. KeyInvariant => UnknownKeyIsExcused
    BY DEF KeyInvariant, UnknownKeyIsExcused
  <1> QED
    BY <1>1, KeysAreFollowed, PTL
=============================================================================
