---------------------------- MODULE HostSessions ----------------------------
(***************************************************************************)
(* The connection tasks of the host (run_server_control_stream in          *)
(* host/transport/src/server.rs) as users of the session registry.         *)
(*                                                                         *)
(* The listener spawns a task per QUIC connection, so create, hold, resume *)
(* and terminate run concurrently.  create_session, hold_session and       *)
(* resume_session first call prune_expired, which reads the clock, takes   *)
(* the lock, prunes and releases it; the method's own critical section     *)
(* comes later, and the clock may have moved and other tasks may have run. *)
(* Each of these sections is a step here.                                  *)
(*                                                                         *)
(* Peers may present any token they ever received, on any connection and   *)
(* as often as they like.                                                  *)
(***************************************************************************)
EXTENDS SessionManager

CONSTANTS
    Tasks,        \* connections served at the same time
    ClockJumps,   \* amounts by which a reading of the wall clock may change
    MaxTime,      \* bound on the clock
    MaxRestarts   \* bound on restarts of the host process

ASSUME BoundsAssumption ==
    ClockJumps \subseteq Int /\ MaxTime \in Nat /\ MaxRestarts \in Nat

VARIABLES
    task,     \* the connection tasks
    known,    \* tokens that reached a peer
    granted   \* how many resumes each nonce has won (history variable)

managerVars == <<now, restarts, sessions, issued>>
vars == <<now, restarts, sessions, issued, task, known, granted>>

(* What a task is doing.  A task in Serving has a session of its own.       *)
Creating == {"create.prune", "create.issue", "create.insert"}
Resuming == {"resume.prune", "resume.session"}
Serving  == {"result", "streaming", "hold.prune", "hold.session", "terminate"}
TaskPc   == {"idle"} \cup Creating \cup Resuming \cup Serving

(* token: the claims a resume presents, or the token to send to the peer.   *)
(* read: the clock prune_expired read before it waited for the lock.        *)
Task == [pc : TaskPc, token : Option(ResumeToken), read : Nat]

Idle == [pc |-> "idle", token |-> {}, read |-> 0]

At(c, pc) == task[c].pc = pc
Token(c) == CHOOSE tok \in task[c].token : TRUE
Goto(c, pc) == task' = [task EXCEPT ![c].pc = pc]
End(c) == task' = [task EXCEPT ![c] = Idle]

(* The task's session, once create_session or resume_session has returned.  *)
Owns(c, s) == task[c].pc \in Serving /\ \E tok \in task[c].token : tok.session_id = s

Init ==
    /\ now = 0
    /\ restarts = 0
    /\ sessions = [s \in {} |-> {}]
    /\ issued = {}
    /\ task = [c \in Tasks |-> Idle]
    /\ known = {}
    /\ granted = [n \in Nonces |-> 0]

-----------------------------------------------------------------------------
(* A task reads the clock and is about to wait for the lock in prune_expired *)
StartPrune(c, pc, tok) ==
    task' = [task EXCEPT ![c] = [pc |-> pc, token |-> tok, read |-> now]]

(* First half of create_session, hold_session and resume_session.           *)
PruneExpired(c, from, to) ==
    /\ At(c, from)
    /\ sessions' = Pruned(task[c].read)
    /\ Goto(c, to)
    /\ UNCHANGED <<now, restarts, issued, known, granted>>

(* A peer authenticates and is authorized: create_session starts.           *)
Authenticate(c) ==
    /\ At(c, "idle")
    /\ StartPrune(c, "create.prune", {})
    /\ UNCHANGED <<managerVars, known, granted>>

CreatePrune(c) == PruneExpired(c, "create.prune", "create.issue")

(* Signing needs no lock, so the clock may move before the insertion.       *)
CreateIssue(c) ==
    /\ At(c, "create.issue")
    /\ \E s \in FreshSessionIds, n \in FreshNonces :
          /\ issued' = issued \cup {Issue(s, n)}
          /\ task' = [task EXCEPT ![c].pc = "create.insert",
                                  ![c].token = {Issue(s, n)}]
    /\ UNCHANGED <<now, restarts, sessions, known, granted>>

CreateInsert(c) ==
    /\ At(c, "create.insert")
    /\ sessions' = Created(Token(c))
    /\ Goto(c, "result")
    /\ UNCHANGED <<now, restarts, issued, known, granted>>

(* issue() fails: the error ends the task before it has a session.          *)
CreateFails(c) ==
    /\ At(c, "create.issue")
    /\ End(c)
    /\ UNCHANGED <<managerVars, known, granted>>

-----------------------------------------------------------------------------
(* A peer presents a token that validates: resume_session starts.           *)
ResumeRequest(c) ==
    /\ At(c, "idle")
    /\ \E tok \in known :
          /\ Validate(tok)
          /\ StartPrune(c, "resume.prune", {tok})
    /\ UNCHANGED <<managerVars, known, granted>>

ResumePrune(c) == PruneExpired(c, "resume.prune", "resume.session")

(* The peer is told of the failure and the task ends.                       *)
ResumeRefused(c) ==
    /\ At(c, "resume.session")
    /\ Resumable(Token(c).session_id)
          => ~Expired(Token(c).session_id) /\ ~NonceMatches(Token(c))
    /\ End(c)
    /\ UNCHANGED <<managerVars, known, granted>>

ResumeExpired(c) ==
    /\ At(c, "resume.session")
    /\ Resumable(Token(c).session_id)
    /\ Expired(Token(c).session_id)
    /\ sessions' = ExpireOnResume(Token(c).session_id)
    /\ End(c)
    /\ UNCHANGED <<now, restarts, issued, known, granted>>

CanResume(c) ==
    /\ At(c, "resume.session")
    /\ Resumable(Token(c).session_id)
    /\ ~Expired(Token(c).session_id)
    /\ NonceMatches(Token(c))

(* issue() fails after the checks: the record is left as it was.            *)
ResumeFails(c) ==
    /\ CanResume(c)
    /\ End(c)
    /\ UNCHANGED <<managerVars, known, granted>>

ResumeSession(c) ==
    /\ CanResume(c)
    /\ \E n \in FreshNonces :
          LET s == Token(c).session_id IN
          /\ sessions' = Resumed(s, n)
          /\ issued' = issued \cup {Issue(s, n)}
          /\ task' = [task EXCEPT ![c].pc = "result", ![c].token = {Issue(s, n)}]
    /\ granted' = [granted EXCEPT ![Token(c).nonce] = @ + 1]
    /\ UNCHANGED <<now, restarts, known>>

-----------------------------------------------------------------------------
(* auth_result or resume_result is written; it may or may not arrive.       *)
SendResult(c) ==
    /\ At(c, "result")
    /\ known' \in {known, known \cup task[c].token}
    /\ Goto(c, "streaming")
    /\ UNCHANGED <<managerVars, granted>>

(* An error leaves the task through a `?`: writing the result or starting   *)
(* the video worker fails, or the peer breaks the protocol.                 *)
FailWithoutCleanup(c) ==
    /\ task[c].pc \in {"result", "streaming"}
    /\ End(c)
    /\ UNCHANGED <<managerVars, known, granted>>

(* The control stream ends without a goodbye: hold_session starts.          *)
Disconnect(c) ==
    /\ At(c, "streaming")
    /\ StartPrune(c, "hold.prune", task[c].token)
    /\ UNCHANGED <<managerVars, known, granted>>

HoldPrune(c) == PruneExpired(c, "hold.prune", "hold.session")

HoldSession(c) ==
    /\ At(c, "hold.session")
    /\ sessions' = Held(Token(c).session_id)
    /\ End(c)
    /\ UNCHANGED <<now, restarts, issued, known, granted>>

(* A goodbye was sent or received: terminate_session.                       *)
Goodbye(c) ==
    /\ At(c, "streaming")
    /\ Goto(c, "terminate")
    /\ UNCHANGED <<managerVars, known, granted>>

TerminateSession(c) ==
    /\ At(c, "terminate")
    /\ sessions' = Terminated(Token(c).session_id)
    /\ End(c)
    /\ UNCHANGED <<now, restarts, issued, known, granted>>

-----------------------------------------------------------------------------
ClockMoves ==
    /\ \E j \in ClockJumps : now' = now + j
    /\ now' \in 0..MaxTime
    /\ UNCHANGED <<restarts, sessions, issued, task, known, granted>>

(* The host process stops and starts again: sessions live in memory only.   *)
Restart ==
    /\ restarts < MaxRestarts
    /\ restarts' = restarts + 1
    /\ sessions' = [s \in {} |-> {}]
    /\ task' = [c \in Tasks |-> Idle]
    /\ UNCHANGED <<now, issued, known, granted>>

TaskStep(c) ==
    \/ Authenticate(c) \/ CreatePrune(c) \/ CreateIssue(c) \/ CreateInsert(c)
    \/ CreateFails(c)
    \/ ResumeRequest(c) \/ ResumePrune(c) \/ ResumeRefused(c) \/ ResumeExpired(c)
    \/ ResumeFails(c) \/ ResumeSession(c)
    \/ SendResult(c) \/ FailWithoutCleanup(c)
    \/ Disconnect(c) \/ HoldPrune(c) \/ HoldSession(c)
    \/ Goodbye(c) \/ TerminateSession(c)

Next == ClockMoves \/ Restart \/ \E c \in Tasks : TaskStep(c)

Spec == Init /\ [][Next]_vars

-----------------------------------------------------------------------------
(* Types of the registry, the tasks and the tokens in flight. *)
TypeOK ==
    /\ now \in Nat
    /\ restarts \in Nat
    /\ DOMAIN sessions \subseteq SessionIds
    /\ sessions \in [DOMAIN sessions -> SessionRecord]
    /\ issued \subseteq ResumeToken
    /\ task \in [Tasks -> Task]
    /\ \A c \in Tasks :
          (task[c].token = {}) <=> task[c].pc \in {"idle", "create.prune", "create.issue"}
    /\ known \subseteq issued
    /\ \A c \in Tasks : task[c].token \subseteq issued
    /\ granted \in [Nonces -> Nat]

(* A resume token is good for one resume: whatever tasks race with the same
   token, replay an old one or fail half way, resume_session accepts each
   nonce at most once because success replaces the record's nonce. *)
SingleUse == \A n \in Nonces : granted[n] <= 1

(* A connected peer's session stays Active: while a task serves a session, no
   pruning, expiry, hold or resume by another task changes its state. *)
ServedSessionIsActive ==
    \A c \in Tasks : \A s \in SessionIds :
        Owns(c, s) => s \in DOMAIN sessions /\ sessions[s].state = "Active"

(* A connected peer's session is its own: a token presented while its session
   is still connected, or by two tasks at once, never gives a session to two
   tasks of run_server_control_stream. *)
OneTaskPerSession ==
    \A c, d \in Tasks : \A s \in SessionIds :
        Owns(c, s) /\ Owns(d, s) => c = d

(* Terminated is final: neither a late hold_session nor a resume with a token
   that is still valid brings a terminated session back. *)
TerminatedIsFinal ==
    [][\A s \in DOMAIN sessions \cap DOMAIN sessions' :
          sessions[s].state = "Terminated" => sessions'[s].state = "Terminated"]_vars

(* A hold window that has passed stays passed: the session is never resumed
   and never held again, even if the pruning before resume_session read the
   clock too early to see it. *)
ExpiredHoldIsLost ==
    [][\A s \in DOMAIN sessions \cap DOMAIN sessions' :
          HoldOver(sessions[s], now) => \/ sessions'[s] = sessions[s]
                                       \/ sessions'[s].state = "Terminated"]_vars

-----------------------------------------------------------------------------
(* The inductive invariant behind SingleUse and the ownership properties. *)

(* Random nonces tell tokens apart. *)
NoncesDiffer == \A t, u \in issued : t.nonce = u.nonce => t = u

(* A record's nonce belongs to a token signed for that session. *)
RecordsAreSigned ==
    \A s \in DOMAIN sessions :
        /\ \E t \in issued : t.session_id = s
        /\ \A n \in sessions[s].current_resume_nonce :
              \E t \in issued : t.session_id = s /\ t.nonce = n

(* A nonce that has won a resume is in no record. *)
SpentNonceIsGone ==
    \A n \in Nonces : granted[n] > 0 =>
        /\ \E t \in issued : t.nonce = n
        /\ \A s \in DOMAIN sessions : n \notin sessions[s].current_resume_nonce

(* A session about to be inserted is new, its token unused, and it is the
   task's alone. *)
Inserting(c, t) == At(c, "create.insert") /\ t \in task[c].token

InsertedSessionIsNew ==
    \A c \in Tasks : \A t \in issued : Inserting(c, t) =>
        /\ t.session_id \notin DOMAIN sessions
        /\ granted[t.nonce] = 0
        /\ \A d \in Tasks : \A u \in issued :
              Inserting(d, u) /\ u.session_id = t.session_id => c = d

(* The inductive invariant: spent nonces are gone from every record, records
   hold only nonces signed for them, sessions being created are new, and
   served sessions are Active and have one task. *)
RegistryInvariant ==
    /\ TypeOK
    /\ NoncesDiffer
    /\ RecordsAreSigned
    /\ SpentNonceIsGone
    /\ InsertedSessionIsNew
    /\ SingleUse
    /\ ServedSessionIsActive
    /\ OneTaskPerSession

-----------------------------------------------------------------------------
(* HostSessions implements SessionLifecycle. *)

(* Signed, and inserted in the map, or lost with it.  A session that is about
   to be inserted is not there yet. *)
Begun(s) ==
    /\ \E tok \in issued : tok.session_id = s
    /\ \A c \in Tasks : ~(At(c, "create.insert") /\ Token(c).session_id = s)

PhaseOf(s) ==
    IF s \in DOMAIN sessions THEN sessions[s].state
    ELSE IF Begun(s) THEN "Terminated" ELSE "None"

GoodOf(s) ==
    IF s \in DOMAIN sessions /\ sessions[s].state # "Terminated"
    THEN sessions[s].current_resume_nonce ELSE {}

Lifecycle ==
    INSTANCE SessionLifecycle WITH
        Sessions <- SessionIds, Connections <- Tasks, Tokens <- Nonces,
        phase <- [s \in SessionIds |-> PhaseOf(s)],
        holder <- [s \in SessionIds |-> {c \in Tasks : Owns(c, s)}],
        good <- [s \in SessionIds |-> GoodOf(s)],
        spent <- {n \in Nonces : granted[n] > 0}

(* The registry and its racing tasks keep the promise of SessionLifecycle:
   every critical section of create_session, hold_session, resume_session,
   terminate_session and prune_expired is one of its steps or changes nothing
   it speaks of. *)
ImplementsLifecycle == Lifecycle!Spec

-----------------------------------------------------------------------------
(* Statements of the repository's documents that the code does not meet. *)

(* "Host holds session state on QUIC interruption and issues a resume token"
   (docs/Plan.md): as long as a session is held, a token to resume it exists. *)
HeldSessionHasToken ==
    \A s \in DOMAIN sessions :
        sessions[s].state = "Held" /\ ~HoldOver(sessions[s], now)
            => \E tok \in issued :
                  /\ tok.session_id = s
                  /\ tok.nonce \in sessions[s].current_resume_nonce
                  /\ Validate(tok)

(* "holds them on unexpected disconnect ... and terminates them on orderly
   shutdown" (docs/Status.md): a session is Active only while it is served. *)
ActiveSessionIsServed ==
    \A s \in DOMAIN sessions :
        sessions[s].state = "Active" => \E c \in Tasks : Owns(c, s)
=============================================================================
