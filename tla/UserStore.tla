----------------------------- MODULE UserStore -----------------------------
(***************************************************************************)
(* The host's list of authorized users (host/auth/src/user_store.rs), its  *)
(* file, and the connection tasks that ask it for authorization.           *)
(*                                                                         *)
(* In bootstrap mode the first user to ask is registered.  The question    *)
(* takes two read locks and the registration a write lock, which is kept   *)
(* while the file is written; other tasks run between any two of these.    *)
(* The file is overwritten in place, so a crash or an error in the middle  *)
(* of a write leaves something that does not parse.                        *)
(***************************************************************************)
EXTENDS Integers, FiniteSets

CONSTANTS
    Users,          \* `sub` claims
    Tasks,          \* connections served at the same time
    MaxStarts       \* bound on starts of the host process

ASSUME UserStoreAssumption == MaxStarts \in Nat \ {0}

VARIABLES
    file,            \* what is on disk
    disk_failed,     \* opening or writing the file has failed (history variable)
    running,         \* the host process is up, with the store loaded
    starts,          \* times the host has been started
    bootstrap_mode,  \* from the configuration of this start
    users,           \* data.authorized_users
    loaded,          \* what load() found this time (history variable)
    lock,            \* the task that holds the write lock, if any
    task,            \* the connection tasks
    granted          \* users that were told they are authorized (history variable)

disk == <<file, disk_failed>>
host == <<running, starts, bootstrap_mode, loaded>>
vars == <<disk, host, users, lock, task, granted>>

(* A file is missing, torn, or lists users. *)
Missing == [kind |-> "missing", users |-> {}]
Torn == [kind |-> "torn", users |-> {}]
Listing(S) == [kind |-> "listing", users |-> S]
File == {Missing, Torn} \cup {Listing(S) : S \in SUBSET Users}

(* sub: who asks.  json: the text of the list that is being written. *)
TaskPc == {"idle", "check", "bootstrap", "register", "open", "write"}
Task == [pc : TaskPc, sub : SUBSET Users, json : SUBSET Users]
Idle == [pc |-> "idle", sub |-> {}, json |-> {}]

At(c, pc) == running /\ task[c].pc = pc
Goto(c, pc) == task' = [task EXCEPT ![c].pc = pc]
End(c) == task' = [task EXCEPT ![c] = Idle]
Known(c) == task[c].sub \subseteq users

Init ==
    /\ file \in {Missing} \cup {Listing(S) : S \in SUBSET Users}
    /\ disk_failed = FALSE
    /\ running = FALSE
    /\ starts = 0
    /\ bootstrap_mode = FALSE
    /\ users = {}
    /\ loaded = {}
    /\ lock = {}
    /\ task = [c \in Tasks |-> Idle]
    /\ granted = {}

-----------------------------------------------------------------------------
(* load: a file that does not parse is an error, and the host does not start. *)
Load ==
    /\ ~running
    /\ starts < MaxStarts
    /\ file # Torn
    /\ running' = TRUE
    /\ starts' = starts + 1
    /\ bootstrap_mode' \in BOOLEAN
    /\ users' = file.users
    /\ loaded' = file.users
    /\ UNCHANGED <<disk, lock, task, granted>>

(* The process ends; a write that was under way stays where it was. *)
Crash ==
    /\ running
    /\ running' = FALSE
    /\ users' = {}
    /\ loaded' = {}
    /\ lock' = {}
    /\ task' = [c \in Tasks |-> Idle]
    /\ UNCHANGED <<disk, starts, bootstrap_mode, granted>>

-----------------------------------------------------------------------------
(* A token validates: the task calls check_or_bootstrap for its user. *)
Ask(c, u) ==
    /\ At(c, "idle")
    /\ task' = [task EXCEPT ![c] = [pc |-> "check", sub |-> {u}, json |-> {}]]
    /\ UNCHANGED <<disk, host, users, lock, granted>>

(* Ok(true): the peer is authorized. *)
Granted(c) ==
    /\ granted' = granted \cup task[c].sub
    /\ End(c)

(* is_authorized, under the first read lock. *)
IsAuthorized(c) ==
    /\ At(c, "check")
    /\ lock = {}
    /\ \/ Known(c) /\ Granted(c)
       \/ ~Known(c) /\ bootstrap_mode /\ Goto(c, "bootstrap") /\ UNCHANGED granted
       \/ ~Known(c) /\ ~bootstrap_mode /\ End(c) /\ UNCHANGED granted
    /\ UNCHANGED <<disk, host, users, lock>>

(* The second read lock: is there a user yet?  The guard is dropped before
   register_user asks for the write lock. *)
BootstrapKeepsGuard(c) ==
    /\ At(c, "bootstrap")
    /\ lock = {}
    /\ IF users = {} THEN Goto(c, "register") /\ lock' = {c}
                     ELSE End(c) /\ UNCHANGED lock
    /\ UNCHANGED <<disk, host, users, granted>>

BootstrapUnlessKnown(c) ==
    /\ At(c, "bootstrap")
    /\ lock = {}
    /\ IF ~Known(c) THEN Goto(c, "register") ELSE End(c)
    /\ UNCHANGED <<disk, host, users, lock, granted>>

Bootstrap(c) ==
    /\ At(c, "bootstrap")
    /\ lock = {}
    /\ IF users = {} THEN Goto(c, "register") ELSE End(c)
    /\ UNCHANGED <<disk, host, users, lock, granted>>

(* register_user: Ok for a user that is there by now, else the user is added
   and the list is turned into text. *)
RegisterUnlocked(c) ==
    /\ At(c, "register")
    /\ users' = users \cup task[c].sub
    /\ lock' = lock \cup {c}
    /\ task' = [task EXCEPT ![c].pc = "open", ![c].json = users']
    /\ UNCHANGED <<disk, host, granted>>

RegisterUser(c) ==
    /\ At(c, "register")
    /\ lock = {}
    /\ \/ /\ Known(c)
          /\ Granted(c)
          /\ UNCHANGED <<users, lock>>
       \/ /\ ~Known(c)
          /\ users' = users \cup task[c].sub
          /\ lock' = {c}
          /\ task' = [task EXCEPT ![c].pc = "open", ![c].json = users']
          /\ UNCHANGED granted
    /\ UNCHANGED <<disk, host>>

(* persist: create the directory and open the file, which empties it ... *)
PersistOpen(c) ==
    /\ At(c, "open")
    /\ file' = Torn
    /\ Goto(c, "write")
    /\ UNCHANGED <<disk_failed, host, users, lock, granted>>

(* ... and write the text. *)
PersistWrite(c) ==
    /\ At(c, "write")
    /\ file' = Listing(task[c].json)
    /\ lock' = lock \ {c}
    /\ Granted(c)
    /\ UNCHANGED <<disk_failed, host, users>>

(* An error on the way ends the task; the user stays in the list in memory. *)
PersistFails(c) ==
    /\ At(c, "open") \/ At(c, "write")
    /\ disk_failed' = TRUE
    /\ lock' = lock \ {c}
    /\ End(c)
    /\ UNCHANGED <<file, host, users, granted>>

(* What check_or_bootstrap does next, once a task has called it. *)
Proceed(c) ==
    \/ IsAuthorized(c) \/ Bootstrap(c) \/ RegisterUser(c)
    \/ PersistOpen(c) \/ PersistWrite(c) \/ PersistFails(c)

Next ==
    \/ Load \/ Crash
    \/ \E c \in Tasks : Proceed(c) \/ \E u \in Users : Ask(c, u)

Spec == Init /\ [][Next]_vars

(* The runtime polls every task that can go on, and file operations end. *)
FairSpec == Spec /\ \A c \in Tasks : WF_vars(Proceed(c))

-----------------------------------------------------------------------------
(* Types of the store, its file and its tasks. *)
TypeOK ==
    /\ file \in File
    /\ disk_failed \in BOOLEAN
    /\ running \in BOOLEAN
    /\ starts \in 0..MaxStarts
    /\ bootstrap_mode \in BOOLEAN
    /\ users \subseteq Users
    /\ loaded \subseteq Users
    /\ lock \in {{}} \cup {{c} : c \in Tasks}
    /\ task \in [Tasks -> Task]
    /\ granted \subseteq Users

(* A host without bootstrap mode, or that finds a user in its file, authorizes
   exactly the users it found, whoever asks and however many ask at once. *)
Closed == ~bootstrap_mode \/ loaded # {}
StoreStaysClosed == running /\ Closed => users = loaded

Persisting(c) == task[c].pc \in {"open", "write"}

(* Memory and disk agree whenever no task is in persist, because the write lock
   is kept while the file is written: of two first users, neither text
   overwrites the other.  As long as the disk has not failed. *)
DiskMatchesMemory ==
    running /\ ~disk_failed /\ (\A c \in Tasks : ~Persisting(c)) => file.users = users /\ file # Torn

(* Nobody is forgotten: a user that was told it is authorized is in every list
   the host ever finds again on disk, as long as the disk has not failed. *)
GrantIsDurable == ~disk_failed /\ file.kind = "listing" => granted \subseteq file.users

(* check_or_bootstrap always comes to an end: it waits for locks only behind
   tasks that give them back, itself included. *)
EveryCheckEnds == \A c \in Tasks : task[c].pc # "idle" ~> task[c].pc = "idle"

-----------------------------------------------------------------------------
(* "Second user is NOT auto-registered (bootstrap only registers first user)"
   (host/auth/tests/auth_tests.rs): of the users that ask an empty store, one
   is registered. *)
OnlyFirstUserRegistered == loaded = {} => Cardinality(users) <= 1
=============================================================================
