------------------------- MODULE HostSessionsProofs -------------------------
(***************************************************************************)
(* Theorems about HostSessions, for any number of tasks, sessions, nonces  *)
(* and restarts, any ttl and any movement of the clock.                    *)
(***************************************************************************)
EXTENDS HostSessions, TLAPS

(* A task past create.issue has one token, and it was signed by the host. *)
LEMMA TokenOfTask ==
    ASSUME TypeOK, NEW c \in Tasks,
           task[c].pc \notin {"idle", "create.prune", "create.issue"}
    PROVE  /\ task[c].token = {Token(c)}
           /\ Token(c) \in issued
           /\ Token(c) \in ResumeToken
  <1>1. task[c] \in Task
    BY DEF TypeOK
  <1>2. task[c].token # {}
    BY DEF TypeOK
  <1>3. PICK tok : tok \in task[c].token
    BY <1>2
  <1>4. Token(c) \in task[c].token
    BY <1>3 DEF Token
  <1>5. \A x, y \in task[c].token : x = y
    BY <1>1 DEF Task, Option
  <1>6. task[c].token \subseteq issued /\ issued \subseteq ResumeToken
    BY DEF TypeOK
  <1> QED
    BY <1>4, <1>5, <1>6

(* Singletons and the empty set are options. *)
LEMMA OptionFacts ==
    ASSUME NEW S
    PROVE  {} \in Option(S) /\ \A x \in S : {x} \in Option(S)
  BY DEF Option

(* A signed token is well formed. *)
LEMMA IssueType ==
    ASSUME TypeOK, NEW s \in SessionIds, NEW n \in Nonces
    PROVE  Issue(s, n) \in ResumeToken
  BY TtlAssumption, SecretAssumption DEF TypeOK, Issue, Secret, ResumeToken

(* The critical sections turn records into records. *)
LEMMA RecordTypes ==
    ASSUME TypeOK, NEW r \in SessionRecord
    PROVE  /\ EndedRecord(r) \in SessionRecord
           /\ HeldRecord(r) \in SessionRecord
           /\ [r EXCEPT !.state = "Terminated"] \in SessionRecord
  <1>1. {} \in Option(Nat) /\ {now + Ttl} \in Option(Nat) /\ {} \in Option(Nonces)
    BY TtlAssumption, OptionFacts DEF TypeOK
  <1>2. EndedRecord(r) \in SessionRecord
    BY <1>1 DEF EndedRecord, SessionRecord, SessionState
  <1>3. HeldRecord(r) \in SessionRecord
    BY <1>1 DEF HeldRecord, SessionRecord, SessionState
  <1>4. [r EXCEPT !.state = "Terminated"] \in SessionRecord
    BY DEF SessionRecord, SessionState
  <1> QED
    BY <1>2, <1>3, <1>4

(* So do the sections that give a record a nonce. *)
LEMMA NonceRecordTypes ==
    ASSUME NEW n \in Nonces
    PROVE  /\ NewRecord(n) \in SessionRecord
           /\ \A r \in SessionRecord : ResumedRecord(r, n) \in SessionRecord
  <1>1. {} \in Option(Nat) /\ {n} \in Option(Nonces)
    BY OptionFacts
  <1>2. NewRecord(n) \in SessionRecord
    BY <1>1 DEF NewRecord, SessionRecord, SessionState
  <1>3. ASSUME NEW r \in SessionRecord
        PROVE  ResumedRecord(r, n) \in SessionRecord
    <2>1. r.reconnect_count + 1 \in Nat
      BY DEF SessionRecord
    <2>2. ResumedRecord(r, n) = [r EXCEPT !.state = "Active",
                                          !.hold_expires_at = {},
                                          !.current_resume_nonce = {n},
                                          !.reconnect_count = r.reconnect_count + 1]
      BY DEF ResumedRecord, SessionRecord
    <2> QED
      BY <1>1, <2>1, <2>2 DEF SessionRecord, SessionState
  <1> QED
    BY <1>2, <1>3

(* A map of SessionManager: some sessions, each with a record. *)
IsRegistry(m) == DOMAIN m \subseteq SessionIds /\ m \in [DOMAIN m -> SessionRecord]

(* What each critical section makes of the map is again a map of records. *)
LEMMA RegistryTypes ==
    ASSUME TypeOK
    PROVE  /\ \A t : IsRegistry(Pruned(t))
           /\ \A tok \in ResumeToken : IsRegistry(Created(tok))
           /\ \A s : IsRegistry(Held(s))
           /\ \A s : IsRegistry(Terminated(s))
           /\ \A s : Resumable(s) => IsRegistry(ExpireOnResume(s))
           /\ \A s, n : n \in Nonces /\ Resumable(s) => IsRegistry(Resumed(s, n))
  <1>0. IsRegistry(sessions)
    BY DEF TypeOK, IsRegistry
  <1>1. \A t : IsRegistry(Pruned(t))
    BY <1>0, RecordTypes DEF Pruned, IsRegistry
  <1>2. \A tok \in ResumeToken : IsRegistry(Created(tok))
    BY <1>0, NonceRecordTypes DEF Created, IsRegistry, ResumeToken
  <1>3. \A s : IsRegistry(Held(s))
    BY <1>0, RecordTypes DEF Held, IsRegistry
  <1>4. \A s : IsRegistry(Terminated(s))
    BY <1>0, RecordTypes DEF Terminated, IsRegistry
  <1>5. \A s : Resumable(s) => IsRegistry(ExpireOnResume(s))
    BY <1>0, RecordTypes DEF ExpireOnResume, Resumable, IsRegistry
  <1>6. \A s, n : n \in Nonces /\ Resumable(s) => IsRegistry(Resumed(s, n))
    BY <1>0, NonceRecordTypes DEF Resumed, Resumable, IsRegistry
  <1> QED
    BY <1>1, <1>2, <1>3, <1>4, <1>5, <1>6

-----------------------------------------------------------------------------
(* Type correctness *)

(* The part of TypeOK that is about the tasks. *)
TaskOK(t, i) ==
    /\ t \in Task
    /\ (t.token = {}) <=> t.pc \in {"idle", "create.prune", "create.issue"}
    /\ t.token \subseteq i

(* The host starts well typed. *)
LEMMA TypeInit == Init => TypeOK
  BY OptionFacts DEF Init, TypeOK, Idle, Task, TaskPc

(* TypeOK for the next state from its parts: a registry, and one task that
   changed while the host may have signed one more token. *)
LEMMA TypeParts ==
    ASSUME TypeOK, NEW c \in Tasks, NEW t,
           task' = [task EXCEPT ![c] = t],
           issued \subseteq issued', issued' \subseteq ResumeToken,
           TaskOK(t, issued'),
           IsRegistry(sessions'), now' \in Nat, restarts' \in Nat,
           known' \subseteq issued', granted' \in [Nonces -> Nat]
    PROVE  TypeOK'
  <1>1. task' \in [Tasks -> Task]
    BY DEF TypeOK, TaskOK
  <1>2. \A d \in Tasks : task'[d] = IF d = c THEN t ELSE task[d]
    BY DEF TypeOK
  <1>3. \A d \in Tasks :
          (task'[d].token = {}) <=> task'[d].pc \in {"idle", "create.prune", "create.issue"}
    BY <1>2 DEF TypeOK, TaskOK
  <1>4. \A d \in Tasks : task'[d].token \subseteq issued'
    BY <1>2 DEF TypeOK, TaskOK
  <1> QED
    BY <1>1, <1>3, <1>4 DEF TypeOK, IsRegistry

(* The next values of a task. *)
LEMMA TaskTypes ==
    ASSUME TypeOK, NEW c \in Tasks
    PROVE  /\ TaskOK(Idle, issued)
           /\ \A pc \in {"create.prune", "resume.prune", "hold.prune"} :
                \A o \in Option(ResumeToken) :
                  (o = {}) = (pc = "create.prune") /\ o \subseteq issued
                    => TaskOK([pc |-> pc, token |-> o, read |-> now], issued)
           /\ At(c, "create.prune") => TaskOK([task[c] EXCEPT !.pc = "create.issue"], issued)
           /\ task[c].token # {} =>
                \A pc \in {"resume.session", "result", "streaming", "hold.session", "terminate"} :
                    TaskOK([task[c] EXCEPT !.pc = pc], issued)
           /\ \A tok \in ResumeToken : \A pc \in {"create.insert", "result"} :
                TaskOK([task[c] EXCEPT !.pc = pc, !.token = {tok}], issued \cup {tok})
  <1>1. task[c] \in Task /\ task[c].token \subseteq issued /\ now \in Nat
    BY DEF TypeOK
  <1>2. (task[c].token = {}) <=> task[c].pc \in {"idle", "create.prune", "create.issue"}
    BY DEF TypeOK
  <1>3. TaskOK(Idle, issued)
    BY OptionFacts DEF TaskOK, Idle, Task, TaskPc
  <1>4. ASSUME NEW pc \in {"create.prune", "resume.prune", "hold.prune"},
               NEW o \in Option(ResumeToken),
               (o = {}) = (pc = "create.prune"), o \subseteq issued
        PROVE  TaskOK([pc |-> pc, token |-> o, read |-> now], issued)
    BY <1>1, <1>4 DEF TaskOK, Task, TaskPc, Creating, Resuming, Serving
  <1>5. ASSUME At(c, "create.prune")
        PROVE  TaskOK([task[c] EXCEPT !.pc = "create.issue"], issued)
    BY <1>1, <1>2, <1>5 DEF At, TaskOK, Task, TaskPc, Creating, Resuming, Serving
  <1>6. ASSUME task[c].token # {},
               NEW pc \in {"resume.session", "result", "streaming", "hold.session", "terminate"}
        PROVE  TaskOK([task[c] EXCEPT !.pc = pc], issued)
    BY <1>1, <1>2, <1>6 DEF TaskOK, Task, TaskPc, Creating, Resuming, Serving
  <1>7. ASSUME NEW tok \in ResumeToken, NEW pc \in {"create.insert", "result"}
        PROVE  TaskOK([task[c] EXCEPT !.pc = pc, !.token = {tok}], issued \cup {tok})
    <2>1. {tok} \in Option(ResumeToken)
      BY OptionFacts
    <2> QED
      BY <1>1, <2>1 DEF TaskOK, Task, TaskPc, Creating, Resuming, Serving
  <1> QED
    BY <1>3, <1>4, <1>5, <1>6, <1>7

(* Every step of the clock, of a restart and of a task keeps the types. *)
LEMMA TypeNext == TypeOK /\ [Next]_vars => TypeOK'
  <1> SUFFICES ASSUME TypeOK, [Next]_vars PROVE TypeOK'
    OBVIOUS
  <1>0. /\ IsRegistry(sessions) /\ now \in Nat /\ restarts \in Nat
        /\ issued \subseteq ResumeToken /\ known \subseteq issued
        /\ granted \in [Nonces -> Nat] /\ task \in [Tasks -> Task]
    BY DEF TypeOK, IsRegistry
  <1>1. CASE UNCHANGED vars
    BY <1>1 DEF vars, TypeOK
  <1>2. CASE ClockMoves
    BY <1>2 DEF ClockMoves, TypeOK
  <1>3. CASE Restart
    BY <1>3, OptionFacts DEF Restart, TypeOK, Idle, Task, TaskPc
  <1>4. ASSUME NEW c \in Tasks, TaskStep(c) PROVE TypeOK'
    <2> USE <1>0
    <2>1. ASSUME NEW from \in {"create.prune", "resume.prune", "hold.prune"},
                 NEW to,
                 <<from, to>> \in {<<"create.prune", "create.issue">>,
                                   <<"resume.prune", "resume.session">>,
                                   <<"hold.prune", "hold.session">>},
                 PruneExpired(c, from, to)
          PROVE  TypeOK'
      <3>1. task' = [task EXCEPT ![c] = [task[c] EXCEPT !.pc = to]]
        BY <2>1 DEF PruneExpired, Goto
      <3>2. (from = "create.prune") <=> (task[c].token = {})
        BY <2>1 DEF PruneExpired, At, TypeOK
      <3>3. TaskOK([task[c] EXCEPT !.pc = to], issued)
        BY <2>1, <3>2, TaskTypes DEF PruneExpired, At
      <3>4. IsRegistry(sessions')
        BY <2>1, RegistryTypes DEF PruneExpired
      <3> QED
        BY <2>1, <3>1, <3>3, <3>4, TypeParts DEF PruneExpired
    <2>2. ASSUME End(c), UNCHANGED <<now, restarts, issued, known, granted>>,
                 IsRegistry(sessions')
          PROVE  TypeOK'
      BY <2>2, TaskTypes, TypeParts DEF End
    <2>3. ASSUME NEW pc \in {"result", "streaming", "terminate"}, Goto(c, pc),
                 task[c].token # {},
                 UNCHANGED <<now, restarts, issued, granted>>,
                 known' \subseteq issued, IsRegistry(sessions')
          PROVE  TypeOK'
      <3>1. task' = [task EXCEPT ![c] = [task[c] EXCEPT !.pc = pc]]
        BY <2>3 DEF Goto
      <3> QED
        BY <2>3, <3>1, TaskTypes, TypeParts
    <2>4. ASSUME NEW pc \in {"create.prune", "resume.prune", "hold.prune"},
                 NEW o \in Option(ResumeToken), StartPrune(c, pc, o),
                 (o = {}) = (pc = "create.prune"), o \subseteq issued,
                 UNCHANGED <<managerVars, known, granted>>
          PROVE  TypeOK'
      BY <2>4, TaskTypes, TypeParts DEF StartPrune, managerVars
    <2>5. CASE Authenticate(c)
      BY <2>5, <2>4, OptionFacts DEF Authenticate
    <2>6. CASE CreatePrune(c)
      BY <2>6, <2>1 DEF CreatePrune
    <2>7. CASE CreateIssue(c)
      <3>1. PICK s \in SessionIds, n \in Nonces :
              /\ issued' = issued \cup {Issue(s, n)}
              /\ task' = [task EXCEPT ![c] = [task[c] EXCEPT !.pc = "create.insert",
                                                            !.token = {Issue(s, n)}]]
        BY <2>7 DEF CreateIssue, FreshSessionIds, FreshNonces
      <3>2. Issue(s, n) \in ResumeToken
        BY IssueType
      <3> QED
        BY <2>7, <3>1, <3>2, TaskTypes, TypeParts DEF CreateIssue
    <2>8. CASE CreateInsert(c)
      <3>1. Token(c) \in ResumeToken /\ task[c].token # {}
        BY <2>8, TokenOfTask DEF CreateInsert, At
      <3> QED
        BY <2>8, <3>1, <2>3, RegistryTypes DEF CreateInsert
    <2>9. CASE CreateFails(c)
      BY <2>9, <2>2 DEF CreateFails, managerVars
    <2>10. CASE ResumeRequest(c)
      <3>1. PICK tok \in known : StartPrune(c, "resume.prune", {tok})
        BY <2>10 DEF ResumeRequest
      <3>2. {tok} \in Option(ResumeToken) /\ {tok} \subseteq issued
        BY OptionFacts
      <3> QED
        BY <2>10, <3>1, <3>2, <2>4 DEF ResumeRequest
    <2>11. CASE ResumePrune(c)
      BY <2>11, <2>1 DEF ResumePrune
    <2>12. CASE ResumeRefused(c)
      BY <2>12, <2>2 DEF ResumeRefused, managerVars
    <2>13. CASE ResumeExpired(c)
      BY <2>13, <2>2, RegistryTypes DEF ResumeExpired
    <2>14. CASE ResumeFails(c)
      BY <2>14, <2>2 DEF ResumeFails, managerVars
    <2>15. CASE ResumeSession(c)
      <3>1. Token(c) \in ResumeToken
        BY <2>15, TokenOfTask DEF ResumeSession, CanResume, At
      <3> DEFINE s == Token(c).session_id
      <3>2. s \in SessionIds /\ Token(c).nonce \in Nonces
        BY <3>1 DEF ResumeToken
      <3>3. PICK n \in Nonces :
              /\ sessions' = Resumed(s, n)
              /\ issued' = issued \cup {Issue(s, n)}
              /\ task' = [task EXCEPT ![c] = [task[c] EXCEPT !.pc = "result",
                                                            !.token = {Issue(s, n)}]]
        BY <2>15 DEF ResumeSession, FreshNonces
      <3>4. Issue(s, n) \in ResumeToken
        BY <3>2, IssueType
      <3>5. IsRegistry(sessions')
        BY <2>15, <3>3, RegistryTypes DEF ResumeSession, CanResume
      <3>6. granted' \in [Nonces -> Nat]
        BY <2>15, <3>2 DEF ResumeSession
      <3>7. TaskOK([task[c] EXCEPT !.pc = "result", !.token = {Issue(s, n)}], issued')
        BY <3>3, <3>4, TaskTypes
      <3> HIDE DEF s
      <3> QED
        BY <2>15, <3>3, <3>4, <3>5, <3>6, <3>7, TypeParts DEF ResumeSession
    <2>16. CASE SendResult(c)
      <3>1. task[c].token # {} /\ task[c].token \subseteq issued
        BY <2>16 DEF SendResult, At, TypeOK
      <3> QED
        BY <2>16, <3>1, <2>3 DEF SendResult, managerVars
    <2>17. CASE FailWithoutCleanup(c)
      BY <2>17, <2>2 DEF FailWithoutCleanup, managerVars
    <2>18. CASE Disconnect(c)
      <3>1. task[c].token # {} /\ task[c].token \subseteq issued
        BY <2>18 DEF Disconnect, At, TypeOK
      <3>2. task[c].token \in Option(ResumeToken)
        BY DEF Task
      <3> QED
        BY <2>18, <3>1, <3>2, <2>4 DEF Disconnect
    <2>19. CASE HoldPrune(c)
      BY <2>19, <2>1 DEF HoldPrune
    <2>20. CASE HoldSession(c)
      BY <2>20, <2>2, RegistryTypes DEF HoldSession
    <2>21. CASE Goodbye(c)
      <3>1. task[c].token # {}
        BY <2>21 DEF Goodbye, At, TypeOK
      <3> QED
        BY <2>21, <3>1, <2>3 DEF Goodbye, managerVars
    <2>22. CASE TerminateSession(c)
      BY <2>22, <2>2, RegistryTypes DEF TerminateSession
    <2> QED
      BY <1>4, <2>5, <2>6, <2>7, <2>8, <2>9, <2>10, <2>11, <2>12, <2>13, <2>14,
         <2>15, <2>16, <2>17, <2>18, <2>19, <2>20, <2>21, <2>22 DEF TaskStep
  <1> QED
    BY <1>1, <1>2, <1>3, <1>4 DEF Next

(* Every reachable state of the registry and its tasks is well typed. *)
THEOREM TypeCorrect == Spec => []TypeOK
  BY TypeInit, TypeNext, PTL DEF Spec

-----------------------------------------------------------------------------
(* The registry invariant *)

(* With no session, token or busy task the invariant holds. *)
LEMMA InvInit == Init => RegistryInvariant
  <1> SUFFICES ASSUME Init PROVE RegistryInvariant
    OBVIOUS
  <1>1. TypeOK
    BY TypeInit
  <1>2. \A c \in Tasks : task[c].pc = "idle"
    BY DEF Init, Idle
  <1>3. ServedSessionIsActive /\ OneTaskPerSession
    BY <1>2 DEF ServedSessionIsActive, OneTaskPerSession, Owns, Serving
  <1>4. NoncesDiffer /\ RecordsAreSigned /\ SpentNonceIsGone /\ SingleUse
    BY DEF Init, NoncesDiffer, RecordsAreSigned, SpentNonceIsGone, SingleUse
  <1>5. InsertedSessionIsNew
    BY <1>2 DEF InsertedSessionIsNew, Inserting, At
  <1> QED
    BY <1>1, <1>3, <1>4, <1>5 DEF RegistryInvariant

(* A step that signs and grants nothing, adds no session and no nonce, gives
   no task a session and leaves the served sessions in their state. *)
LEMMA QuietStep ==
    ASSUME RegistryInvariant, TypeOK',
           issued' = issued, granted' = granted,
           DOMAIN sessions' = DOMAIN sessions,
           \A s \in DOMAIN sessions :
              sessions'[s].current_resume_nonce \subseteq sessions[s].current_resume_nonce,
           \A d \in Tasks : \A s \in SessionIds :
              Owns(d, s)' => Owns(d, s) /\ sessions'[s].state = sessions[s].state,
           \A d \in Tasks : \A t : Inserting(d, t)' => Inserting(d, t)
    PROVE  RegistryInvariant'
  <1>1. NoncesDiffer' /\ SingleUse'
    BY DEF RegistryInvariant, NoncesDiffer, SingleUse
  <1>2. RecordsAreSigned'
    BY DEF RegistryInvariant, RecordsAreSigned
  <1>3. SpentNonceIsGone'
    BY DEF RegistryInvariant, SpentNonceIsGone
  <1>4. InsertedSessionIsNew'
    BY DEF RegistryInvariant, InsertedSessionIsNew
  <1>5. ServedSessionIsActive'
    BY DEF RegistryInvariant, ServedSessionIsActive
  <1>6. OneTaskPerSession'
    BY DEF RegistryInvariant, OneTaskPerSession
  <1> QED
    BY <1>1, <1>2, <1>3, <1>4, <1>5, <1>6 DEF RegistryInvariant

(* One task changes, and starts neither to serve nor to insert a session. *)
LEMMA QuietTask ==
    ASSUME TypeOK, NEW c \in Tasks, NEW t, task' = [task EXCEPT ![c] = t],
           t.pc \in Serving => task[c].pc \in Serving /\ t.token = task[c].token,
           t.pc # "create.insert"
    PROVE  /\ \A d \in Tasks : \A s \in SessionIds :
                 Owns(d, s)' => Owns(d, s) /\ (d = c => t.pc \in Serving)
           /\ \A d \in Tasks : \A u : Inserting(d, u)' => Inserting(d, u)
  <1>1. \A d \in Tasks : task'[d] = IF d = c THEN t ELSE task[d]
    BY DEF TypeOK
  <1>2. \A d \in Tasks : \A s \in SessionIds :
          Owns(d, s)' => Owns(d, s) /\ (d = c => t.pc \in Serving)
    BY <1>1 DEF Owns
  <1>3. \A d \in Tasks : \A u : Inserting(d, u)' => Inserting(d, u)
    BY <1>1 DEF Inserting, At
  <1> QED
    BY <1>2, <1>3

(* A session that is not Active is served by nobody. *)
LEMMA NotServed ==
    ASSUME RegistryInvariant, NEW s \in SessionIds,
           s \in DOMAIN sessions => sessions[s].state # "Active",
           NEW d \in Tasks
    PROVE  ~Owns(d, s)
  BY DEF RegistryInvariant, ServedSessionIsActive

(* What the critical sections do to nonces and states. *)
LEMMA SectionEffects ==
    ASSUME TypeOK
    PROVE  /\ \A t : /\ DOMAIN Pruned(t) = DOMAIN sessions
                     /\ \A s \in DOMAIN sessions :
                          Pruned(t)[s] = IF HoldOver(sessions[s], t)
                                         THEN EndedRecord(sessions[s]) ELSE sessions[s]
           /\ \A s \in DOMAIN sessions :
                /\ EndedRecord(sessions[s]).current_resume_nonce = {}
                /\ EndedRecord(sessions[s]).state = "Terminated"
                /\ HeldRecord(sessions[s]).current_resume_nonce
                      = sessions[s].current_resume_nonce
           /\ \A s : /\ DOMAIN Held(s) = DOMAIN sessions
                     /\ DOMAIN Terminated(s) = DOMAIN sessions
                     /\ DOMAIN ExpireOnResume(s) = DOMAIN sessions
                     /\ \A x \in DOMAIN sessions \ {s} :
                          /\ Held(s)[x] = sessions[x]
                          /\ Terminated(s)[x] = sessions[x]
                          /\ ExpireOnResume(s)[x] = sessions[x]
           /\ \A s \in DOMAIN sessions :
                /\ Held(s)[s] \in {sessions[s], HeldRecord(sessions[s])}
                /\ Terminated(s)[s] = EndedRecord(sessions[s])
                /\ ExpireOnResume(s)[s] = [sessions[s] EXCEPT !.state = "Terminated"]
                /\ ExpireOnResume(s)[s].current_resume_nonce
                      = sessions[s].current_resume_nonce
  <1>0. \A s \in DOMAIN sessions : sessions[s] \in SessionRecord
    BY DEF TypeOK
  <1>1. \A t : /\ DOMAIN Pruned(t) = DOMAIN sessions
              /\ \A s \in DOMAIN sessions :
                   Pruned(t)[s] = IF HoldOver(sessions[s], t)
                                  THEN EndedRecord(sessions[s]) ELSE sessions[s]
    BY DEF Pruned
  <1>2. \A s \in DOMAIN sessions :
          /\ EndedRecord(sessions[s]).current_resume_nonce = {}
          /\ EndedRecord(sessions[s]).state = "Terminated"
          /\ HeldRecord(sessions[s]).current_resume_nonce
                = sessions[s].current_resume_nonce
    BY <1>0 DEF EndedRecord, HeldRecord, SessionRecord
  <1>3. \A s : /\ DOMAIN Held(s) = DOMAIN sessions
              /\ DOMAIN Terminated(s) = DOMAIN sessions
              /\ DOMAIN ExpireOnResume(s) = DOMAIN sessions
              /\ \A x \in DOMAIN sessions \ {s} :
                   /\ Held(s)[x] = sessions[x]
                   /\ Terminated(s)[x] = sessions[x]
                   /\ ExpireOnResume(s)[x] = sessions[x]
    BY DEF Held, Terminated, ExpireOnResume
  <1>4. \A s \in DOMAIN sessions :
          /\ Held(s)[s] \in {sessions[s], HeldRecord(sessions[s])}
          /\ Terminated(s)[s] = EndedRecord(sessions[s])
          /\ ExpireOnResume(s)[s] = [sessions[s] EXCEPT !.state = "Terminated"]
    BY DEF Held, Terminated, ExpireOnResume
  <1>5. \A s \in DOMAIN sessions :
          ExpireOnResume(s)[s].current_resume_nonce = sessions[s].current_resume_nonce
    BY <1>0, <1>4 DEF SessionRecord
  <1> QED
    BY <1>1, <1>2, <1>3, <1>4, <1>5

(* create_session signs a token for a session id and a nonce never used. *)
LEMMA CreateIssueInv ==
    ASSUME RegistryInvariant, TypeOK', NEW c \in Tasks, CreateIssue(c)
    PROVE  RegistryInvariant'
  <1> USE DEF RegistryInvariant
  <1>0. PICK s \in FreshSessionIds, n \in FreshNonces :
          /\ issued' = issued \cup {Issue(s, n)}
          /\ task' = [task EXCEPT ![c].pc = "create.insert",
                                  ![c].token = {Issue(s, n)}]
    BY DEF CreateIssue
  <1>1. /\ s \in SessionIds /\ n \in Nonces
        /\ \A t \in issued : t.session_id # s /\ t.nonce # n
        /\ issued' = issued \cup {Issue(s, n)}
    BY <1>0 DEF FreshSessionIds, FreshNonces
  <1>2. Issue(s, n).session_id = s /\ Issue(s, n).nonce = n
    BY DEF Issue
  <1>3. sessions' = sessions /\ granted' = granted
    BY DEF CreateIssue
  <1>4. /\ task'[c].pc = "create.insert" /\ task'[c].token = {Issue(s, n)}
        /\ \A d \in Tasks \ {c} : task'[d] = task[d]
    BY <1>0 DEF TypeOK, Task
  <1>5. NoncesDiffer' /\ SingleUse'
    BY <1>1, <1>2, <1>3 DEF NoncesDiffer, SingleUse
  <1>6. RecordsAreSigned' /\ SpentNonceIsGone'
    BY <1>1, <1>3 DEF RecordsAreSigned, SpentNonceIsGone
  <1>7. /\ s \notin DOMAIN sessions
        /\ granted[n] = 0
    <2>1. s \notin DOMAIN sessions
      BY <1>1 DEF RecordsAreSigned
    <2>2. ~(granted[n] > 0) /\ granted[n] \in Nat
      BY <1>1 DEF SpentNonceIsGone, TypeOK
    <2> QED
      BY <2>1, <2>2
  <1>8. InsertedSessionIsNew'
    <2>1. \A d \in Tasks : \A t \in issued' : Inserting(d, t)' =>
            \/ d = c /\ t = Issue(s, n)
            \/ d # c /\ Inserting(d, t) /\ t \in issued
      BY <1>4 DEF Inserting, At, TypeOK
    <2> QED
      BY <1>1, <1>2, <1>3, <1>7, <2>1 DEF InsertedSessionIsNew
  <1>9. \A d \in Tasks : \A x \in SessionIds : Owns(d, x)' => Owns(d, x)
    BY <1>4 DEF Owns, Serving
  <1>10. ServedSessionIsActive' /\ OneTaskPerSession'
    BY <1>3, <1>9 DEF ServedSessionIsActive, OneTaskPerSession
  <1> QED
    BY <1>5, <1>6, <1>8, <1>10

(* create_session inserts a session nobody else has: it gets its only task. *)
LEMMA CreateInsertInv ==
    ASSUME RegistryInvariant, TypeOK', NEW c \in Tasks, CreateInsert(c)
    PROVE  RegistryInvariant'
  <1> USE DEF RegistryInvariant
  <1> DEFINE tok == Token(c)
             s == tok.session_id
  <1>1. task[c].token = {tok} /\ tok \in issued /\ tok \in ResumeToken
    BY TokenOfTask DEF CreateInsert, At
  <1>2. s \in SessionIds /\ tok.nonce \in Nonces
    BY <1>1 DEF ResumeToken
  <1>3. issued' = issued /\ granted' = granted /\ sessions' = Created(tok)
    BY DEF CreateInsert
  <1>4. /\ task'[c].pc = "result" /\ task'[c].token = {tok}
        /\ \A d \in Tasks \ {c} : task'[d] = task[d]
    BY <1>1 DEF CreateInsert, Goto, TypeOK, Task
  <1>5. Inserting(c, tok)
    BY <1>1 DEF Inserting, CreateInsert
  <1>6. s \notin DOMAIN sessions /\ granted[tok.nonce] = 0
    BY <1>1, <1>5 DEF InsertedSessionIsNew
  <1>7. /\ DOMAIN sessions' = DOMAIN sessions \cup {s}
        /\ \A x \in DOMAIN sessions : sessions'[x] = sessions[x]
        /\ sessions'[s].state = "Active"
        /\ sessions'[s].current_resume_nonce = {tok.nonce}
    BY <1>3, <1>6 DEF Created, NewRecord
  <1> HIDE DEF tok, s
  <1>8. NoncesDiffer' /\ SingleUse'
    BY <1>3 DEF NoncesDiffer, SingleUse
  <1>9. RecordsAreSigned'
    BY <1>1, <1>3, <1>7 DEF RecordsAreSigned, s
  <1>10. SpentNonceIsGone'
    BY <1>3, <1>6, <1>7 DEF SpentNonceIsGone
  <1>11. InsertedSessionIsNew'
    <2>1. \A d \in Tasks : \A t \in issued : Inserting(d, t)' => Inserting(d, t) /\ d # c
      BY <1>4 DEF Inserting, At
    <2>2. \A d \in Tasks : \A t \in issued : Inserting(d, t)' => t.session_id # s
      BY <2>1, <1>1, <1>5 DEF InsertedSessionIsNew, s
    <2> QED
      BY <1>3, <1>7, <2>1, <2>2 DEF InsertedSessionIsNew
  <1>12. \A d \in Tasks : \A x \in SessionIds :
           Owns(d, x)' => (d = c /\ x = s) \/ (d # c /\ Owns(d, x))
    BY <1>4 DEF Owns, s
  <1>13. \A d \in Tasks : ~Owns(d, s)
    BY <1>2, <1>6, NotServed
  <1>14. ServedSessionIsActive'
    BY <1>7, <1>12 DEF ServedSessionIsActive
  <1>15. OneTaskPerSession'
    BY <1>12, <1>13 DEF OneTaskPerSession
  <1> QED
    BY <1>8, <1>9, <1>10, <1>11, <1>14, <1>15

(* resume_session spends the nonce presented and replaces it in the record; the
   session was held, so its new task is the only one. *)
LEMMA ResumeSessionInv ==
    ASSUME RegistryInvariant, TypeOK', NEW c \in Tasks, ResumeSession(c)
    PROVE  RegistryInvariant'
  <1> USE DEF RegistryInvariant
  <1> DEFINE tok == Token(c)
             s == tok.session_id
  <1>1. tok \in issued /\ tok \in ResumeToken
    BY TokenOfTask DEF ResumeSession, CanResume, At
  <1>2. s \in SessionIds /\ tok.nonce \in Nonces
    BY <1>1 DEF ResumeToken
  <1>3. /\ s \in DOMAIN sessions /\ sessions[s].state = "Held"
        /\ tok.nonce \in sessions[s].current_resume_nonce
    BY DEF ResumeSession, CanResume, Resumable, NonceMatches
  <1>4. PICK n \in Nonces :
          /\ \A t \in issued : t.nonce # n
          /\ sessions' = Resumed(s, n)
          /\ issued' = issued \cup {Issue(s, n)}
          /\ task' = [task EXCEPT ![c] = [task[c] EXCEPT !.pc = "result",
                                                        !.token = {Issue(s, n)}]]
    BY DEF ResumeSession, FreshNonces
  <1>5. Issue(s, n).session_id = s /\ Issue(s, n).nonce = n
    BY DEF Issue
  <1>6. granted' = [granted EXCEPT ![tok.nonce] = granted[tok.nonce] + 1]
    BY DEF ResumeSession
  <1>7. /\ task'[c].pc = "result" /\ task'[c].token = {Issue(s, n)}
        /\ \A d \in Tasks \ {c} : task'[d] = task[d]
    BY <1>4 DEF TypeOK, Task
  <1>8. sessions[s] \in SessionRecord
    BY <1>3 DEF TypeOK
  <1>9. /\ DOMAIN sessions' = DOMAIN sessions
        /\ \A x \in DOMAIN sessions \ {s} : sessions'[x] = sessions[x]
        /\ sessions'[s].state = "Active"
        /\ sessions'[s].current_resume_nonce = {n}
    BY <1>3, <1>4, <1>8 DEF Resumed, ResumedRecord, SessionRecord
  <1>10. granted[tok.nonce] = 0
    BY <1>2, <1>3 DEF SpentNonceIsGone, TypeOK
  <1>11. \A m \in Nonces : granted'[m] = IF m = tok.nonce THEN 1 ELSE granted[m]
    BY <1>2, <1>6, <1>10 DEF TypeOK
  <1> HIDE DEF tok, s
  <1>12. NoncesDiffer'
    BY <1>4, <1>5 DEF NoncesDiffer
  <1>13. SingleUse'
    BY <1>11 DEF SingleUse
  <1>14. RecordsAreSigned'
    BY <1>4, <1>5, <1>9 DEF RecordsAreSigned
  <1>15. SpentNonceIsGone'
    <2>1. tok.nonce # n
      BY <1>1, <1>4
    <2>2. \A x \in DOMAIN sessions \ {s} : tok.nonce \notin sessions[x].current_resume_nonce
      BY <1>1 DEF RecordsAreSigned, NoncesDiffer, s
    <2>3. granted[n] = 0
      BY <1>4 DEF SpentNonceIsGone, TypeOK
    <2> QED
      BY <1>1, <1>4, <1>9, <1>11, <2>1, <2>2, <2>3 DEF SpentNonceIsGone
  <1>16. InsertedSessionIsNew'
    <2>1. \A d \in Tasks : \A t \in issued' :
            Inserting(d, t)' => Inserting(d, t) /\ t \in issued
      BY <1>7 DEF Inserting, At, TypeOK
    <2>2. \A d \in Tasks : \A t \in issued : Inserting(d, t) => t.nonce # tok.nonce
      BY <1>1, <1>3 DEF InsertedSessionIsNew, NoncesDiffer, s
    <2>3. \A t \in issued : t.nonce \in Nonces
      BY DEF TypeOK, ResumeToken
    <2> QED
      BY <1>9, <1>11, <2>1, <2>2, <2>3 DEF InsertedSessionIsNew
  <1>17. \A d \in Tasks : \A x \in SessionIds :
           Owns(d, x)' => (d = c /\ x = s) \/ (d # c /\ Owns(d, x))
    BY <1>5, <1>7 DEF Owns
  <1>18. \A d \in Tasks : ~Owns(d, s)
    BY <1>2, <1>3, NotServed
  <1>19. ServedSessionIsActive'
    BY <1>3, <1>9, <1>17, <1>18 DEF ServedSessionIsActive
  <1>20. OneTaskPerSession'
    BY <1>17, <1>18 DEF OneTaskPerSession
  <1> QED
    BY <1>12, <1>13, <1>14, <1>15, <1>16, <1>19, <1>20

(* A restart forgets the map and the tasks; spent nonces stay spent. *)
LEMMA RestartInv ==
    ASSUME RegistryInvariant, TypeOK', Restart
    PROVE  RegistryInvariant'
  <1> USE DEF RegistryInvariant
  <1>1. /\ DOMAIN sessions' = {} /\ issued' = issued /\ granted' = granted
        /\ \A c \in Tasks : task'[c].pc = "idle"
    BY DEF Restart, Idle
  <1>2. NoncesDiffer' /\ SingleUse' /\ RecordsAreSigned' /\ SpentNonceIsGone'
    BY <1>1 DEF NoncesDiffer, SingleUse, RecordsAreSigned, SpentNonceIsGone
  <1>3. InsertedSessionIsNew' /\ ServedSessionIsActive' /\ OneTaskPerSession'
    BY <1>1 DEF InsertedSessionIsNew, Inserting, At, ServedSessionIsActive,
                OneTaskPerSession, Owns, Serving
  <1> QED
    BY <1>2, <1>3

(* Every step of the registry and its tasks preserves the invariant. *)
LEMMA InvNext == RegistryInvariant /\ [Next]_vars => RegistryInvariant'
  <1> SUFFICES ASSUME RegistryInvariant, [Next]_vars PROVE RegistryInvariant'
    OBVIOUS
  <1>0. TypeOK /\ TypeOK'
    BY TypeNext DEF RegistryInvariant
  <1>1. CASE UNCHANGED vars
    <2>1. \A d \in Tasks : \A s \in SessionIds : Owns(d, s)' => Owns(d, s)
      BY <1>1 DEF vars, Owns
    <2>2. \A d \in Tasks : \A t : Inserting(d, t)' => Inserting(d, t)
      BY <1>1 DEF vars, Inserting, At
    <2> QED
      BY <1>0, <1>1, <2>1, <2>2, QuietStep DEF vars
  <1>2. CASE ClockMoves
    <2>1. \A d \in Tasks : \A s \in SessionIds : Owns(d, s)' => Owns(d, s)
      BY <1>2 DEF ClockMoves, Owns
    <2>2. \A d \in Tasks : \A t : Inserting(d, t)' => Inserting(d, t)
      BY <1>2 DEF ClockMoves, Inserting, At
    <2> QED
      BY <1>0, <1>2, <2>1, <2>2, QuietStep DEF ClockMoves
  <1>3. CASE Restart
    BY <1>0, <1>3, RestartInv
  <1>4. ASSUME NEW c \in Tasks, TaskStep(c) PROVE RegistryInvariant'
    <2> DEFINE s == Token(c).session_id
    <2> HIDE DEF s
    <2>1. ASSUME NEW t, task' = [task EXCEPT ![c] = t],
                 t.pc \in Serving => task[c].pc \in Serving /\ t.token = task[c].token,
                 t.pc # "create.insert",
                 issued' = issued, granted' = granted, sessions' = sessions
          PROVE  RegistryInvariant'
      BY <1>0, <2>1, QuietTask, QuietStep
    <2>1a. ASSUME NEW pc, NEW o, StartPrune(c, pc, o), UNCHANGED <<managerVars, granted>>,
                  \/ pc \in {"create.prune", "resume.prune"}
                  \/ pc = "hold.prune" /\ At(c, "streaming") /\ o = task[c].token
           PROVE  RegistryInvariant'
      <3> DEFINE t == [pc |-> pc, token |-> o, read |-> now]
      <3>1. t.pc = pc /\ t.token = o /\ task' = [task EXCEPT ![c] = t]
        BY <2>1a DEF StartPrune
      <3>2. t.pc \in Serving => task[c].pc \in Serving /\ t.token = task[c].token
        BY <2>1a, <3>1 DEF Serving, At
      <3> HIDE DEF t
      <3> QED
        BY <2>1, <2>1a, <3>1, <3>2 DEF managerVars
    <2>2. ASSUME NEW from, NEW to,
                 <<from, to>> \in {<<"create.prune", "create.issue">>,
                                   <<"resume.prune", "resume.session">>,
                                   <<"hold.prune", "hold.session">>},
                 PruneExpired(c, from, to)
          PROVE  RegistryInvariant'
      <3>1. task' = [task EXCEPT ![c] = [task[c] EXCEPT !.pc = to]]
        BY <2>2 DEF PruneExpired, Goto
      <3>2. /\ [task[c] EXCEPT !.pc = to].pc = to
            /\ [task[c] EXCEPT !.pc = to].token = task[c].token
        BY <1>0 DEF TypeOK, Task
      <3>3. to \in Serving => task[c].pc \in Serving
        BY <2>2 DEF PruneExpired, At, Serving
      <3>4. \A d \in Tasks : \A x \in SessionIds : Owns(d, x)' => Owns(d, x)
        BY <1>0, <2>2, <3>1, <3>2, <3>3, QuietTask
      <3>5. \A d \in Tasks : \A t : Inserting(d, t)' => Inserting(d, t)
        BY <1>0, <2>2, <3>1, <3>2, <3>3, QuietTask
      <3>6. sessions' = Pruned(task[c].read) /\ issued' = issued /\ granted' = granted
        BY <2>2 DEF PruneExpired
      <3>7. ASSUME NEW x \in DOMAIN sessions
            PROVE  \/ sessions'[x] = sessions[x]
                   \/ sessions'[x].current_resume_nonce = {} /\ sessions[x].state = "Held"
        <4>1. \/ sessions'[x] = sessions[x]
              \/ HoldOver(sessions[x], task[c].read) /\ sessions'[x] = EndedRecord(sessions[x])
          BY <3>6 DEF Pruned
        <4>2. EndedRecord(sessions[x]).current_resume_nonce = {}
          BY <1>0, SectionEffects
        <4> QED
          BY <4>1, <4>2 DEF HoldOver
      <3>8. \A d \in Tasks : \A x \in SessionIds :
              Owns(d, x)' => Owns(d, x) /\ sessions'[x].state = sessions[x].state
        BY <3>4, <3>7 DEF RegistryInvariant, ServedSessionIsActive
      <3> QED
        BY <1>0, <3>5, <3>6, <3>7, <3>8, SectionEffects, QuietStep
    <2>3. ASSUME End(c) PROVE
            /\ \A d \in Tasks : \A x \in SessionIds : Owns(d, x)' => Owns(d, x) /\ d # c
            /\ \A d \in Tasks : \A t : Inserting(d, t)' => Inserting(d, t)
      <3>1. task' = [task EXCEPT ![c] = Idle] /\ Idle.pc \notin Serving \cup {"create.insert"}
        BY <2>3 DEF End, Idle, Serving
      <3> QED
        BY <1>0, <3>1, QuietTask
    <2>4. ASSUME End(c), UNCHANGED <<issued, granted, sessions>> PROVE RegistryInvariant'
      BY <1>0, <2>3, <2>4, QuietStep
    (* A task that ends its own session, or one that nobody serves. *)
    <2>5. ASSUME End(c), UNCHANGED <<issued, granted>>, NEW z \in SessionIds,
                 DOMAIN sessions' = DOMAIN sessions,
                 \A x \in DOMAIN sessions \ {z} : sessions'[x] = sessions[x],
                 z \in DOMAIN sessions =>
                    sessions'[z].current_resume_nonce \subseteq sessions[z].current_resume_nonce,
                 Owns(c, z) \/ \A d \in Tasks : ~Owns(d, z)
          PROVE  RegistryInvariant'
      <3>1. \A d \in Tasks : ~(Owns(d, z)')
        BY <2>3, <2>5 DEF RegistryInvariant, OneTaskPerSession
      <3>2. \A d \in Tasks : \A x \in SessionIds :
              Owns(d, x)' => Owns(d, x) /\ sessions'[x].state = sessions[x].state
        BY <2>3, <2>5, <3>1 DEF RegistryInvariant, ServedSessionIsActive
      <3>3. \A x \in DOMAIN sessions :
              sessions'[x].current_resume_nonce \subseteq sessions[x].current_resume_nonce
        BY <2>5
      <3> QED
        BY <1>0, <2>3, <2>5, <3>2, <3>3, QuietStep
    <2>6. task[c].pc \notin {"idle", "create.prune", "create.issue"} =>
            /\ task[c].token = {Token(c)} /\ s \in SessionIds
      BY <1>0, TokenOfTask DEF ResumeToken, s
    <2>7. task[c].pc \in {"hold.session", "terminate"} => Owns(c, s)
      BY <2>6 DEF Owns, Serving, s
    <2>8. CASE Authenticate(c)
      BY <2>8, <2>1a DEF Authenticate
    <2>9. CASE CreatePrune(c)
      BY <2>9, <2>2 DEF CreatePrune
    <2>10. CASE CreateIssue(c)
      BY <1>0, <2>10, CreateIssueInv
    <2>11. CASE CreateInsert(c)
      BY <1>0, <2>11, CreateInsertInv
    <2>12. CASE CreateFails(c)
      BY <2>12, <2>4 DEF CreateFails, managerVars
    <2>13. CASE ResumeRequest(c)
      BY <2>13, <2>1a DEF ResumeRequest
    <2>14. CASE ResumePrune(c)
      BY <2>14, <2>2 DEF ResumePrune
    <2>15. CASE ResumeRefused(c)
      BY <2>15, <2>4 DEF ResumeRefused, managerVars
    <2>16. CASE ResumeExpired(c)
      <3>1. s \in SessionIds /\ s \in DOMAIN sessions /\ sessions[s].state = "Held"
        BY <2>16, <2>6 DEF ResumeExpired, At, Resumable, s
      <3>2. \A d \in Tasks : ~Owns(d, s)
        BY <3>1, NotServed
      <3>3. sessions' = ExpireOnResume(s) /\ End(c) /\ UNCHANGED <<issued, granted>>
        BY <2>16 DEF ResumeExpired, s
      <3>4. /\ DOMAIN sessions' = DOMAIN sessions
            /\ \A x \in DOMAIN sessions \ {s} : sessions'[x] = sessions[x]
        BY <1>0, <3>3, SectionEffects
      <3>5. s \in DOMAIN sessions =>
              sessions'[s].current_resume_nonce \subseteq sessions[s].current_resume_nonce
        BY <1>0, <3>3, SectionEffects
      <3> QED
        BY <3>1, <3>2, <3>3, <3>4, <3>5, <2>5
    <2>17. CASE ResumeFails(c)
      BY <2>17, <2>4 DEF ResumeFails, managerVars
    <2>18. CASE ResumeSession(c)
      BY <1>0, <2>18, ResumeSessionInv
    <2>19. CASE SendResult(c)
      <3>1. task' = [task EXCEPT ![c] = [task[c] EXCEPT !.pc = "streaming"]]
        BY <2>19 DEF SendResult, Goto
      <3>2. /\ [task[c] EXCEPT !.pc = "streaming"].pc = "streaming"
            /\ [task[c] EXCEPT !.pc = "streaming"].token = task[c].token
        BY <1>0 DEF TypeOK, Task
      <3> QED
        BY <2>19, <3>1, <3>2, <2>1 DEF SendResult, At, managerVars, Serving
    <2>20. CASE FailWithoutCleanup(c)
      BY <2>20, <2>4 DEF FailWithoutCleanup, managerVars
    <2>21. CASE Disconnect(c)
      BY <2>21, <2>1a DEF Disconnect
    <2>22. CASE HoldPrune(c)
      BY <2>22, <2>2 DEF HoldPrune
    <2>23. CASE HoldSession(c)
      <3>1. Owns(c, s) /\ s \in SessionIds
        BY <2>23, <2>6, <2>7 DEF HoldSession, At
      <3>3. sessions' = Held(s) /\ End(c) /\ UNCHANGED <<issued, granted>>
        BY <2>23 DEF HoldSession, s
      <3>4. /\ DOMAIN sessions' = DOMAIN sessions
            /\ \A x \in DOMAIN sessions \ {s} : sessions'[x] = sessions[x]
        BY <1>0, <3>3, SectionEffects
      <3>5. s \in DOMAIN sessions =>
              sessions'[s].current_resume_nonce \subseteq sessions[s].current_resume_nonce
        BY <1>0, <3>3, SectionEffects
      <3> QED
        BY <3>1, <3>3, <3>4, <3>5, <2>5
    <2>24. CASE Goodbye(c)
      <3>1. task' = [task EXCEPT ![c] = [task[c] EXCEPT !.pc = "terminate"]]
        BY <2>24 DEF Goodbye, Goto
      <3>2. /\ [task[c] EXCEPT !.pc = "terminate"].pc = "terminate"
            /\ [task[c] EXCEPT !.pc = "terminate"].token = task[c].token
        BY <1>0 DEF TypeOK, Task
      <3> QED
        BY <2>24, <3>1, <3>2, <2>1 DEF Goodbye, At, managerVars, Serving
    <2>25. CASE TerminateSession(c)
      <3>1. Owns(c, s) /\ s \in SessionIds
        BY <2>25, <2>6, <2>7 DEF TerminateSession, At
      <3>3. sessions' = Terminated(s) /\ End(c) /\ UNCHANGED <<issued, granted>>
        BY <2>25 DEF TerminateSession, s
      <3>4. /\ DOMAIN sessions' = DOMAIN sessions
            /\ \A x \in DOMAIN sessions \ {s} : sessions'[x] = sessions[x]
        BY <1>0, <3>3, SectionEffects
      <3>5. s \in DOMAIN sessions =>
              sessions'[s].current_resume_nonce \subseteq sessions[s].current_resume_nonce
        BY <1>0, <3>3, SectionEffects
      <3> QED
        BY <3>1, <3>3, <3>4, <3>5, <2>5
    <2> QED
      BY <1>4, <2>8, <2>9, <2>10, <2>11, <2>12, <2>13, <2>14, <2>15, <2>16, <2>17,
         <2>18, <2>19, <2>20, <2>21, <2>22, <2>23, <2>24, <2>25 DEF TaskStep
  <1> QED
    BY <1>1, <1>2, <1>3, <1>4 DEF Next

(* RegistryInvariant is an invariant of the host. *)
THEOREM RegistryCorrect == Spec => []RegistryInvariant
  BY InvInit, InvNext, PTL DEF Spec

(* A resume token wins at most one resume (resume_session rotates the nonce in
   the critical section that checks it), for any number of racing connections,
   replays, restarts and whatever the wall clock does. *)
THEOREM TokensAreSingleUse == Spec => []SingleUse
  <1>1. RegistryInvariant => SingleUse
    BY DEF RegistryInvariant
  <1> QED
    BY <1>1, RegistryCorrect, PTL

(* A connected session is Active and is one connection task's alone. *)
THEOREM SessionsAreOwned == Spec => [](ServedSessionIsActive /\ OneTaskPerSession)
  <1>1. RegistryInvariant => ServedSessionIsActive /\ OneTaskPerSession
    BY DEF RegistryInvariant
  <1> QED
    BY <1>1, RegistryCorrect, PTL

-----------------------------------------------------------------------------
(* Action properties *)

(* What a step may do to a record that has no way back: one that is Terminated,
   or Held with its window over. *)
Over(s) == sessions[s].state = "Terminated" \/ HoldOver(sessions[s], now)

StaysOver(s) ==
    \/ sessions'[s] = sessions[s]
    \/ sessions'[s].state = "Terminated"

(* No step of the clock, of a restart or of a task revives such a record. *)
LEMMA OverIsOver ==
    ASSUME RegistryInvariant, [Next]_vars,
           NEW s \in DOMAIN sessions, s \in DOMAIN sessions', Over(s)
    PROVE  StaysOver(s)
  <1>0. TypeOK /\ s \in SessionIds
    BY DEF RegistryInvariant, TypeOK
  <1>1. sessions[s].state # "Active"
    BY DEF Over, HoldOver
  <1>2. \A d \in Tasks : ~Owns(d, s)
    BY <1>0, <1>1, NotServed
  <1>3. CASE sessions' = sessions
    BY <1>3 DEF StaysOver
  <1>4. CASE Restart
    BY <1>4 DEF Restart
  <1>5. ASSUME NEW c \in Tasks, TaskStep(c), sessions' # sessions
        PROVE  StaysOver(s)
    <2>1. ASSUME NEW from, NEW to, PruneExpired(c, from, to) PROVE StaysOver(s)
      <3>1. sessions'[s] \in {sessions[s], EndedRecord(sessions[s])}
        BY <2>1, <1>0, SectionEffects DEF PruneExpired
      <3> QED
        BY <1>0, <3>1, SectionEffects DEF StaysOver
    <2>2. CASE CreateInsert(c)
      <3>1. task[c].token = {Token(c)} /\ Token(c) \in issued
        BY <1>0, <2>2, TokenOfTask DEF CreateInsert, At
      <3>2. Token(c).session_id # s
        BY <2>2, <3>1 DEF RegistryInvariant, InsertedSessionIsNew, Inserting, CreateInsert
      <3> QED
        BY <2>2, <3>2 DEF CreateInsert, Created, StaysOver
    <2>3. CASE ResumeExpired(c)
      <3>1. CASE s = Token(c).session_id
        <4>1. sessions'[s] = [sessions[s] EXCEPT !.state = "Terminated"]
          BY <1>0, <2>3, <3>1, SectionEffects DEF ResumeExpired
        <4>2. sessions[s] \in SessionRecord
          BY <1>0 DEF TypeOK
        <4> QED
          BY <4>1, <4>2 DEF StaysOver, SessionRecord
      <3>2. CASE s # Token(c).session_id
        BY <1>0, <2>3, <3>2, SectionEffects DEF ResumeExpired, StaysOver
      <3> QED
        BY <3>1, <3>2
    <2>4. CASE ResumeSession(c)
      <3>1. s # Token(c).session_id
        BY <2>4 DEF ResumeSession, CanResume, Resumable, Expired, Over, HoldOver
      <3> QED
        BY <2>4, <3>1 DEF ResumeSession, Resumed, StaysOver
    <2>5. CASE HoldSession(c) \/ TerminateSession(c)
      <3>1. s # Token(c).session_id
        <4>1. task[c].token = {Token(c)}
          BY <1>0, <2>5, TokenOfTask DEF HoldSession, TerminateSession, At
        <4>2. Owns(c, Token(c).session_id)
          BY <2>5, <4>1 DEF Owns, HoldSession, TerminateSession, At, Serving
        <4> QED
          BY <1>2, <4>2
      <3> QED
        BY <1>0, <2>5, <3>1, SectionEffects DEF HoldSession, TerminateSession, StaysOver
    <2>6. \/ \E from, to : PruneExpired(c, from, to)
          \/ CreateInsert(c) \/ ResumeExpired(c) \/ ResumeSession(c)
          \/ HoldSession(c) \/ TerminateSession(c)
      BY <1>5 DEF TaskStep, Authenticate, CreatePrune, CreateIssue, CreateFails,
           ResumeRequest, ResumePrune, ResumeRefused, ResumeFails, SendResult,
           FailWithoutCleanup, Disconnect, HoldPrune, Goodbye, managerVars
    <2> QED
      BY <2>1, <2>2, <2>3, <2>4, <2>5, <2>6
  <1> QED
    BY <1>3, <1>4, <1>5 DEF Next, ClockMoves, vars

(* No late hold_session, no resume with a token that is still valid and no
   restart revives a terminated session. *)
THEOREM TerminationIsFinal == Spec => TerminatedIsFinal
  <1>1. RegistryInvariant /\ [Next]_vars =>
          [\A s \in DOMAIN sessions \cap DOMAIN sessions' :
              sessions[s].state = "Terminated" => sessions'[s].state = "Terminated"]_vars
    BY OverIsOver DEF Over, StaysOver
  <1> QED
    BY <1>1, RegistryCorrect, PTL DEF Spec, TerminatedIsFinal

(* A session whose hold window is over is not resumed and not held anew, even
   when the pruning that precedes resume_session read the clock too early. *)
THEOREM ExpiryIsFinal == Spec => ExpiredHoldIsLost
  <1>1. RegistryInvariant /\ [Next]_vars =>
          [\A s \in DOMAIN sessions \cap DOMAIN sessions' :
              HoldOver(sessions[s], now) => \/ sessions'[s] = sessions[s]
                                           \/ sessions'[s].state = "Terminated"]_vars
    BY OverIsOver DEF Over, StaysOver
  <1> QED
    BY <1>1, RegistryCorrect, PTL DEF Spec, ExpiredHoldIsLost

-----------------------------------------------------------------------------
(* HostSessions implements SessionLifecycle. *)

(* A step that leaves the session as SessionLifecycle sees it ... *)
SameSession(s) == PhaseOf(s)' = PhaseOf(s) /\ GoodOf(s)' = GoodOf(s)

(* ... and leaves it to the same tasks, ... *)
SameHolder(s) == \A d \in Tasks : Owns(d, s)' <=> Owns(d, s)

(* ... and spends no token. *)
SameSpent == \A n \in Nonces : granted'[n] > 0 <=> granted[n] > 0

(* The holders of a session, as a set. *)
LEMMA HolderSets ==
    ASSUME NEW s \in SessionIds
    PROVE  /\ SameHolder(s) => {d \in Tasks : Owns(d, s)}' = {d \in Tasks : Owns(d, s)}
           /\ (\A d \in Tasks : ~(Owns(d, s)')) => {d \in Tasks : Owns(d, s)}' = {}
           /\ \A c \in Tasks : (\A d \in Tasks : Owns(d, s)' <=> d = c)
                                  => {d \in Tasks : Owns(d, s)}' = {c}
  BY DEF SameHolder

(* Nothing changes that SessionLifecycle speaks of. *)
LEMMA StutterMap ==
    ASSUME \A s \in SessionIds : SameSession(s) /\ SameHolder(s), SameSpent
    PROVE  UNCHANGED Lifecycle!vars
  <1>1. [s \in SessionIds |-> PhaseOf(s)]' = [s \in SessionIds |-> PhaseOf(s)]
    BY DEF SameSession
  <1>2. [s \in SessionIds |-> GoodOf(s)]' = [s \in SessionIds |-> GoodOf(s)]
    BY DEF SameSession
  <1>3. \A s \in SessionIds : {c \in Tasks : Owns(c, s)}' = {c \in Tasks : Owns(c, s)}
    BY HolderSets
  <1>4. [s \in SessionIds |-> {c \in Tasks : Owns(c, s)}]'
           = [s \in SessionIds |-> {c \in Tasks : Owns(c, s)}]
    BY <1>3
  <1>5. {n \in Nonces : granted[n] > 0}' = {n \in Nonces : granted[n] > 0}
    BY DEF SameSpent
  <1> QED
    BY <1>1, <1>2, <1>4, <1>5 DEF Lifecycle!vars

(* One session gets a connection and a token of its own. *)
LEMMA StreamMap ==
    ASSUME NEW s \in SessionIds, NEW c \in Tasks, NEW t \in Nonces,
           ~(granted[t] > 0), \A z \in SessionIds : t \notin GoodOf(z),
           PhaseOf(s)' = "Active", GoodOf(s)' = {t},
           \A d \in Tasks : Owns(d, s)' <=> d = c,
           \A z \in SessionIds \ {s} : SameSession(z) /\ SameHolder(z)
    PROVE  Lifecycle!Stream(s, c, t)
  <1>1. Lifecycle!New(t)
    BY DEF Lifecycle!New
  <1>2. [z \in SessionIds |-> PhaseOf(z)]' = [[z \in SessionIds |-> PhaseOf(z)] EXCEPT ![s] = "Active"]
    BY DEF SameSession
  <1>3. [z \in SessionIds |-> GoodOf(z)]' = [[z \in SessionIds |-> GoodOf(z)] EXCEPT ![s] = {t}]
    BY DEF SameSession
  <1>4. {d \in Tasks : Owns(d, s)}' = {c}
    BY HolderSets
  <1>5. \A z \in SessionIds \ {s} : {d \in Tasks : Owns(d, z)}' = {d \in Tasks : Owns(d, z)}
    BY HolderSets
  <1>6. [z \in SessionIds |-> {d \in Tasks : Owns(d, z)}]'
           = [[z \in SessionIds |-> {d \in Tasks : Owns(d, z)}] EXCEPT ![s] = {c}]
    BY <1>4, <1>5
  <1> QED
    BY <1>1, <1>2, <1>3, <1>6 DEF Lifecycle!Stream

(* One session loses its connection. *)
LEMMA LeaveMap ==
    ASSUME NEW s \in SessionIds, NEW c \in Tasks, Owns(c, s),
           PhaseOf(s) = "Active", \A d \in Tasks : ~(Owns(d, s)'),
           \A z \in SessionIds \ {s} : SameSession(z) /\ SameHolder(z), SameSpent
    PROVE  /\ PhaseOf(s)' = "Active" /\ GoodOf(s)' = GoodOf(s) => Lifecycle!Abandon(s)
           /\ PhaseOf(s)' = "Held" /\ GoodOf(s)' = GoodOf(s) => Lifecycle!Hold(s)
           /\ PhaseOf(s)' = "Terminated" /\ GoodOf(s)' = {} => Lifecycle!Terminate(s)
  <1> DEFINE phase == [z \in SessionIds |-> PhaseOf(z)]
             good == [z \in SessionIds |-> GoodOf(z)]
             holder == [z \in SessionIds |-> {d \in Tasks : Owns(d, z)}]
             spent == {n \in Nonces : granted[n] > 0}
  <1>1. phase[s] = "Active" /\ holder[s] # {}
    OBVIOUS
  <1>2. {d \in Tasks : Owns(d, s)}' = {}
    BY HolderSets
  <1>3. \A z \in SessionIds \ {s} : {d \in Tasks : Owns(d, z)}' = {d \in Tasks : Owns(d, z)}
    BY HolderSets
  <1>4. holder' = [holder EXCEPT ![s] = {}]
    BY <1>2, <1>3
  <1>5. spent' = spent
    BY DEF SameSpent
  <1>6. \A p : PhaseOf(s)' = p => phase' = [phase EXCEPT ![s] = p]
    BY DEF SameSession
  <1>7. \A g : GoodOf(s)' = g => good' = [good EXCEPT ![s] = g]
    BY DEF SameSession
  <1>8. ASSUME PhaseOf(s)' = "Active", GoodOf(s)' = GoodOf(s) PROVE Lifecycle!Abandon(s)
    <2>1. phase' = phase
      BY <1>6, <1>8
    <2>2. good' = good
      BY <1>7, <1>8
    <2> QED
      BY <1>1, <1>4, <1>5, <2>1, <2>2 DEF Lifecycle!Abandon
  <1>9. ASSUME PhaseOf(s)' = "Held", GoodOf(s)' = GoodOf(s) PROVE Lifecycle!Hold(s)
    <2>1. phase' = [phase EXCEPT ![s] = "Held"]
      BY <1>6, <1>9
    <2>2. good' = good
      BY <1>7, <1>9
    <2> QED
      BY <1>1, <1>4, <1>5, <2>1, <2>2 DEF Lifecycle!Hold
  <1>10. ASSUME PhaseOf(s)' = "Terminated", GoodOf(s)' = {} PROVE Lifecycle!Terminate(s)
    <2>1. phase' = [phase EXCEPT ![s] = "Terminated"]
      BY <1>6, <1>10
    <2>2. good' = [good EXCEPT ![s] = {}]
      BY <1>7, <1>10
    <2> QED
      BY <1>1, <1>4, <1>5, <2>1, <2>2 DEF Lifecycle!Terminate
  <1> QED
    BY <1>8, <1>9, <1>10

(* Hold windows close. *)
LEMMA ExpireMap ==
    ASSUME NEW S \in SUBSET SessionIds,
           \A s \in S : PhaseOf(s) = "Held" /\ PhaseOf(s)' = "Terminated" /\ GoodOf(s)' = {},
           \A z \in SessionIds \ S : SameSession(z),
           \A z \in SessionIds : SameHolder(z), SameSpent
    PROVE  Lifecycle!Expire(S)
  <1> DEFINE phase == [z \in SessionIds |-> PhaseOf(z)]
             good == [z \in SessionIds |-> GoodOf(z)]
             holder == [z \in SessionIds |-> {d \in Tasks : Owns(d, z)}]
             spent == {n \in Nonces : granted[n] > 0}
  <1>1. \A s \in S : phase[s] = "Held"
    OBVIOUS
  <1>2. phase' = [z \in SessionIds |-> IF z \in S THEN "Terminated" ELSE phase[z]]
    BY DEF SameSession
  <1>3. good' = [z \in SessionIds |-> IF z \in S THEN {} ELSE good[z]]
    BY DEF SameSession
  <1>4. \A z \in SessionIds : {d \in Tasks : Owns(d, z)}' = {d \in Tasks : Owns(d, z)}
    BY HolderSets
  <1>5. holder' = holder
    BY <1>4
  <1>6. spent' = spent
    BY DEF SameSpent
  <1> QED
    BY <1>1, <1>2, <1>3, <1>5, <1>6 DEF Lifecycle!Expire

(* A session whose record and whose beginning stay as they are. *)
LEMMA SessionView ==
    ASSUME NEW s,
           s \in DOMAIN sessions' <=> s \in DOMAIN sessions,
           s \in DOMAIN sessions => sessions'[s] = sessions[s],
           Begun(s)' <=> Begun(s)
    PROVE  SameSession(s)
  BY DEF SameSession, PhaseOf, GoodOf

(* What one task does is no other task's concern. *)
LEMMA OtherTasks ==
    ASSUME TypeOK, NEW c \in Tasks, NEW t, task' = [task EXCEPT ![c] = t]
    PROVE  /\ task'[c] = t
           /\ \A d \in Tasks \ {c} :
                /\ task'[d] = task[d]
                /\ Token(d)' = Token(d)
                /\ \A s : Owns(d, s)' <=> Owns(d, s)
  <1>1. task'[c] = t /\ \A d \in Tasks \ {c} : task'[d] = task[d]
    BY DEF TypeOK
  <1> QED
    BY <1>1 DEF Token, Owns

(* Whether a session has begun depends on its token and on who inserts it. *)
Inserts(c, s) == At(c, "create.insert") /\ Token(c).session_id = s

LEMMA BegunView ==
    ASSUME TypeOK, NEW c \in Tasks, NEW t, task' = [task EXCEPT ![c] = t], NEW s,
           (\E tok \in issued : tok.session_id = s)' <=> (\E tok \in issued : tok.session_id = s),
           Inserts(c, s)' <=> Inserts(c, s)
    PROVE  Begun(s)' <=> Begun(s)
  <1>1. \A d \in Tasks \ {c} : Inserts(d, s)' <=> Inserts(d, s)
    BY OtherTasks DEF Inserts, At
  <1>2. \A d \in Tasks : Inserts(d, s)' <=> Inserts(d, s)
    BY <1>1
  <1>3. Begun(s) <=> (\E tok \in issued : tok.session_id = s) /\ \A d \in Tasks : ~Inserts(d, s)
    BY DEF Begun, Inserts
  <1>4. Begun(s)' <=> (\E tok \in issued' : tok.session_id = s)
                       /\ \A d \in Tasks : ~(Inserts(d, s)')
    BY DEF Begun, Inserts
  <1> QED
    BY <1>2, <1>3, <1>4

(* A task keeps its session or has none, and inserts none. *)
LEMMA QuietView ==
    ASSUME TypeOK, NEW c \in Tasks, NEW t, task' = [task EXCEPT ![c] = t],
           \/ t.pc \in Serving /\ task[c].pc \in Serving /\ t.token = task[c].token
           \/ t.pc \notin Serving /\ task[c].pc \notin Serving,
           t.pc # "create.insert", task[c].pc # "create.insert",
           issued' = issued
    PROVE  \A s : SameHolder(s) /\ (Begun(s)' <=> Begun(s))
  <1>1. \A s : Owns(c, s)' <=> Owns(c, s)
    BY OtherTasks DEF Owns
  <1>2. \A s : SameHolder(s)
    BY <1>1, OtherTasks DEF SameHolder
  <1>3. ~At(c, "create.insert") /\ ~(At(c, "create.insert")')
    BY OtherTasks DEF At
  <1>4. \A s : Begun(s)' <=> Begun(s)
    BY <1>3, BegunView DEF Inserts
  <1> QED
    BY <1>2, <1>4

(* The initial states correspond. *)
LEMMA LifecycleInit == Init => Lifecycle!Init
  <1> SUFFICES ASSUME Init PROVE Lifecycle!Init
    OBVIOUS
  <1>1. \A c \in Tasks : \A s : ~Owns(c, s)
    BY DEF Init, Idle, Owns, Serving
  <1>2. \A s : PhaseOf(s) = "None" /\ GoodOf(s) = {}
    BY DEF Init, PhaseOf, GoodOf, Begun
  <1>3. \A s \in SessionIds : {c \in Tasks : Owns(c, s)} = {}
    BY <1>1
  <1>4. {n \in Nonces : granted[n] > 0} = {}
    BY DEF Init
  <1> QED
    BY <1>2, <1>3, <1>4 DEF Lifecycle!Init

(* create_session inserts a session that SessionLifecycle does not know yet. *)
LEMMA CreateMap ==
    ASSUME RegistryInvariant, NEW c \in Tasks, CreateInsert(c),
           NEW s, s = Token(c).session_id, NEW n, n = Token(c).nonce
    PROVE  Lifecycle!Create(s, c, n)
  <1>0. TypeOK
    BY DEF RegistryInvariant
  <1>1. /\ At(c, "create.insert") /\ sessions' = Created(Token(c)) /\ Goto(c, "result")
        /\ issued' = issued /\ granted' = granted
    BY DEF CreateInsert
  <1>2. task[c].token = {Token(c)} /\ Token(c) \in issued /\ s \in SessionIds /\ n \in Nonces
    BY <1>0, <1>1, TokenOfTask DEF At, ResumeToken
  <1>3. Inserting(c, Token(c))
    BY <1>1, <1>2 DEF Inserting
  <1>4. s \notin DOMAIN sessions /\ ~(granted[n] > 0)
    BY <1>2, <1>3 DEF RegistryInvariant, InsertedSessionIsNew
  <1>5. PhaseOf(s) = "None"
    BY <1>1, <1>4 DEF PhaseOf, Begun
  <1>6. \A z \in SessionIds : n \notin GoodOf(z)
    <2>1. ASSUME NEW z \in DOMAIN sessions PROVE n \notin sessions[z].current_resume_nonce
      BY <1>2, <1>4 DEF RegistryInvariant, RecordsAreSigned, NoncesDiffer
    <2> QED
      BY <2>1 DEF GoodOf
  <1> DEFINE t == [task[c] EXCEPT !.pc = "result"]
  <1>7. task' = [task EXCEPT ![c] = t] /\ t.pc = "result" /\ t.token = {Token(c)}
    BY <1>0, <1>1, <1>2 DEF Goto, TypeOK, Task
  <1> HIDE DEF t
  <1>8. \A z : Owns(c, z)' <=> z = s
    <2>1. task'[c].pc = "result" /\ task'[c].token = {Token(c)}
      BY <1>0, <1>7, OtherTasks
    <2> QED
      BY <2>1 DEF Owns, Serving
  <1>9. \A z : ~Owns(c, z)
    BY <1>1 DEF At, Owns, Serving
  <1>10. \A d \in Tasks : Owns(d, s)' <=> d = c
    <2>1. \A d \in Tasks : ~Owns(d, s)
      BY <1>2, <1>4, NotServed
    <2>2. \A d \in Tasks \ {c} : ~(Owns(d, s)')
      BY <1>0, <1>7, <2>1, OtherTasks
    <2> QED
      BY <1>8, <2>2
  <1>11. PhaseOf(s)' = "Active" /\ GoodOf(s)' = {n}
    BY <1>1 DEF PhaseOf, GoodOf, Created, NewRecord
  <1>12. ASSUME NEW z \in SessionIds \ {s} PROVE SameSession(z) /\ SameHolder(z)
    <2>1. SameHolder(z)
      BY <1>0, <1>7, <1>8, <1>9, OtherTasks DEF SameHolder
    <2>2. ~Inserts(c, z) /\ ~(Inserts(c, z)')
      BY <1>0, <1>7, OtherTasks DEF Inserts, At
    <2>3. Begun(z)' <=> Begun(z)
      BY <1>0, <1>1, <1>7, <2>2, BegunView
    <2>4. (z \in DOMAIN sessions' <=> z \in DOMAIN sessions)
          /\ (z \in DOMAIN sessions => sessions'[z] = sessions[z])
      BY <1>1 DEF Created
    <2> QED
      BY <2>1, <2>3, <2>4, SessionView
  <1>13. Lifecycle!Stream(s, c, n)
    BY <1>2, <1>4, <1>6, <1>10, <1>11, <1>12, StreamMap
  <1> QED
    BY <1>1, <1>2, <1>5, <1>13 DEF Lifecycle!Create

(* resume_session gives a held session to the task that spends its token. *)
LEMMA ResumeMap ==
    ASSUME RegistryInvariant, NEW c \in Tasks, ResumeSession(c),
           NEW s, s = Token(c).session_id, NEW old, old = Token(c).nonce
    PROVE  \E n \in Nonces : Lifecycle!Resume(s, c, old, n)
  <1>0. TypeOK
    BY DEF RegistryInvariant
  <1>1. CanResume(c) /\ granted' = [granted EXCEPT ![old] = granted[old] + 1]
    BY DEF ResumeSession
  <1>2. PICK n \in FreshNonces :
          /\ sessions' = Resumed(s, n)
          /\ issued' = issued \cup {Issue(s, n)}
          /\ task' = [task EXCEPT ![c] = [task[c] EXCEPT !.pc = "result",
                                                        !.token = {Issue(s, n)}]]
    BY DEF ResumeSession
  <1>3. n \in Nonces /\ \A u \in issued : u.nonce # n
    BY DEF FreshNonces
  <1>4. s \in SessionIds /\ old \in Nonces
    BY <1>0, <1>1, TokenOfTask DEF CanResume, At, ResumeToken
  <1>5. /\ s \in DOMAIN sessions /\ sessions[s].state = "Held"
        /\ old \in sessions[s].current_resume_nonce
    BY <1>1 DEF CanResume, Resumable, NonceMatches
  <1>6. PhaseOf(s) = "Held" /\ old \in GoodOf(s)
    BY <1>5 DEF PhaseOf, GoodOf
  <1>7. ~(granted[n] > 0)
    BY <1>3 DEF RegistryInvariant, SpentNonceIsGone
  <1>8. \A z \in SessionIds : n \notin GoodOf(z)
    BY <1>3 DEF RegistryInvariant, RecordsAreSigned, GoodOf
  <1> DEFINE t == [task[c] EXCEPT !.pc = "result", !.token = {Issue(s, n)}]
  <1>9. task' = [task EXCEPT ![c] = t] /\ t.pc = "result" /\ t.token = {Issue(s, n)}
    BY <1>0, <1>2 DEF TypeOK, Task
  <1>10. Issue(s, n).session_id = s
    BY DEF Issue
  <1> HIDE DEF t
  <1>11. \A z : Owns(c, z)' <=> z = s
    <2>1. task'[c].pc = "result" /\ task'[c].token = {Issue(s, n)}
      BY <1>0, <1>9, OtherTasks
    <2> QED
      BY <1>10, <2>1 DEF Owns, Serving
  <1>12. \A z : ~Owns(c, z)
    BY <1>1 DEF CanResume, At, Owns, Serving
  <1>13. \A d \in Tasks : Owns(d, s)' <=> d = c
    <2>1. \A d \in Tasks : ~Owns(d, s)
      BY <1>4, <1>5, NotServed
    <2>2. \A d \in Tasks \ {c} : ~(Owns(d, s)')
      BY <1>0, <1>9, <2>1, OtherTasks
    <2> QED
      BY <1>11, <2>2
  <1>14. /\ DOMAIN sessions' = DOMAIN sessions
         /\ sessions'[s] = ResumedRecord(sessions[s], n)
         /\ \A z \in DOMAIN sessions \ {s} : sessions'[z] = sessions[z]
    BY <1>2, <1>5 DEF Resumed
  <1>15. /\ ResumedRecord(sessions[s], n).state = "Active"
         /\ ResumedRecord(sessions[s], n).current_resume_nonce = {n}
    BY <1>0, <1>5 DEF ResumedRecord, TypeOK, SessionRecord
  <1>16. PhaseOf(s)' = "Active" /\ GoodOf(s)' = {n}
    BY <1>5, <1>14, <1>15 DEF PhaseOf, GoodOf
  <1>17. ASSUME NEW z \in SessionIds \ {s} PROVE SameSession(z) /\ SameHolder(z)
    <2>1. SameHolder(z)
      BY <1>0, <1>9, <1>11, <1>12, OtherTasks DEF SameHolder
    <2>2. (\E tok \in issued' : tok.session_id = z) <=> (\E tok \in issued : tok.session_id = z)
      BY <1>2, <1>10
    <2>3. ~Inserts(c, z) /\ ~(Inserts(c, z)')
      BY <1>0, <1>1, <1>9, OtherTasks DEF CanResume, Inserts, At
    <2>4. Begun(z)' <=> Begun(z)
      BY <1>0, <1>9, <2>2, <2>3, BegunView
    <2> QED
      BY <1>14, <2>1, <2>4, SessionView
  <1>18. Lifecycle!Stream(s, c, n)
    BY <1>3, <1>4, <1>7, <1>8, <1>13, <1>16, <1>17, StreamMap
  <1>19. {m \in Nonces : granted[m] > 0}' = {m \in Nonces : granted[m] > 0} \cup {old}
    <2>1. \A m \in Nonces : granted[m] \in Nat
                            /\ granted'[m] = IF m = old THEN granted[m] + 1 ELSE granted[m]
      BY <1>0, <1>1, <1>4 DEF TypeOK
    <2>2. \A m \in Nonces : granted'[m] > 0 <=> granted[m] > 0 \/ m = old
      BY <2>1
    <2> QED
      BY <1>4, <2>2
  <1>20. Lifecycle!Resume(s, c, old, n)
    BY <1>4, <1>6, <1>18, <1>19 DEF Lifecycle!Resume
  <1> QED
    BY <1>3, <1>20

(* A restart ends every session, and those that were about to be inserted. *)
LEMMA RestartMap ==
    ASSUME RegistryInvariant, Restart
    PROVE  \E S \in SUBSET SessionIds : Lifecycle!Restart(S)
  <1> DEFINE Signed(s) == \E tok \in issued : tok.session_id = s
             S == {s \in SessionIds : Signed(s)}
             phase == [z \in SessionIds |-> PhaseOf(z)]
             good == [z \in SessionIds |-> GoodOf(z)]
             holder == [z \in SessionIds |-> {d \in Tasks : Owns(d, z)}]
             spent == {n \in Nonces : granted[n] > 0}
  <1>1. /\ sessions' = [s \in {} |-> {}] /\ task' = [c \in Tasks |-> Idle]
        /\ issued' = issued /\ granted' = granted
    BY DEF Restart
  <1>2. \A c \in Tasks : \A s : ~(Owns(c, s)') /\ ~(At(c, "create.insert")')
    BY <1>1 DEF Idle, Owns, Serving, At
  <1>3. \A s : PhaseOf(s)' = (IF Signed(s) THEN "Terminated" ELSE "None") /\ GoodOf(s)' = {}
    BY <1>1, <1>2 DEF PhaseOf, GoodOf, Begun
  <1>4. \A s : PhaseOf(s) # "None" => Signed(s)
    BY DEF PhaseOf, Begun, RegistryInvariant, RecordsAreSigned
  <1>5. phase' = [s \in SessionIds |->
                    IF phase[s] = "None" /\ s \notin S THEN "None" ELSE "Terminated"]
    BY <1>3, <1>4
  <1>6. good' = [s \in SessionIds |-> {}]
    BY <1>3
  <1>7. \A s \in SessionIds : {d \in Tasks : Owns(d, s)}' = {}
    BY <1>2
  <1>8. holder' = [s \in SessionIds |-> {}]
    BY <1>7
  <1>9. spent' = spent
    BY <1>1
  <1>10. Lifecycle!Restart(S)
    BY <1>5, <1>6, <1>8, <1>9 DEF Lifecycle!Restart
  <1> QED
    BY <1>10

(* prune_expired and resume_session end sessions whose hold window is over. *)
LEMMA EndHeldMap ==
    ASSUME RegistryInvariant, NEW S \in SUBSET DOMAIN sessions,
           DOMAIN sessions' = DOMAIN sessions,
           \A s \in S : sessions[s].state = "Held" /\ sessions'[s].state = "Terminated",
           \A s \in DOMAIN sessions \ S : sessions'[s] = sessions[s],
           \A s : SameHolder(s) /\ (Begun(s)' <=> Begun(s)),
           granted' = granted
    PROVE  Lifecycle!Expire(S)
  <1>1. S \in SUBSET SessionIds
    BY DEF RegistryInvariant, TypeOK
  <1>2. \A s \in S : PhaseOf(s) = "Held" /\ PhaseOf(s)' = "Terminated" /\ GoodOf(s)' = {}
    BY DEF PhaseOf, GoodOf
  <1>3. \A z \in SessionIds \ S : SameSession(z)
    BY SessionView
  <1>4. SameSpent
    BY DEF SameSpent
  <1> QED
    BY <1>1, <1>2, <1>3, <1>4, ExpireMap

(* A task gives its session up: whatever it makes of it, nobody serves it. *)
LEMMA GiveUpMap ==
    ASSUME RegistryInvariant, NEW c \in Tasks, task[c].pc \in Serving, End(c),
           UNCHANGED <<issued, granted>>,
           NEW s, s = Token(c).session_id,
           sessions' \in {sessions, Held(s), Terminated(s)}
    PROVE  Lifecycle!Abandon(s) \/ Lifecycle!Hold(s) \/ Lifecycle!Terminate(s)
  <1>0. TypeOK
    BY DEF RegistryInvariant
  <1>1. task[c].token = {Token(c)} /\ s \in SessionIds
    BY <1>0, TokenOfTask DEF Serving, ResumeToken
  <1>2. Owns(c, s)
    BY <1>1 DEF Owns
  <1>3. s \in DOMAIN sessions /\ sessions[s].state = "Active" /\ sessions[s] \in SessionRecord
    BY <1>0, <1>1, <1>2 DEF RegistryInvariant, ServedSessionIsActive, TypeOK
  <1>4. task' = [task EXCEPT ![c] = Idle] /\ Idle.pc = "idle" /\ Idle.token = {}
    BY DEF End, Idle
  <1>5. \A z : ~(Owns(c, z)') /\ ~Inserts(c, z) /\ ~(Inserts(c, z)')
    BY <1>0, <1>4, OtherTasks DEF Owns, Inserts, At, Serving
  <1>6. \A d \in Tasks : ~(Owns(d, s)')
    <2>1. \A d \in Tasks \ {c} : ~Owns(d, s)
      BY <1>1, <1>2 DEF RegistryInvariant, OneTaskPerSession
    <2>2. \A d \in Tasks \ {c} : ~(Owns(d, s)')
      BY <1>0, <1>4, <2>1, OtherTasks
    <2> QED
      BY <1>5, <2>2
  <1>7. \A z : Begun(z)' <=> Begun(z)
    BY <1>0, <1>4, <1>5, BegunView
  <1>8. \A z : z # s => ~Owns(c, z)
    BY <1>1 DEF Owns
  <1>9. /\ DOMAIN sessions' = DOMAIN sessions
        /\ \A z \in DOMAIN sessions \ {s} : sessions'[z] = sessions[z]
        /\ sessions'[s] \in {sessions[s], HeldRecord(sessions[s]), EndedRecord(sessions[s])}
    BY <1>3 DEF Held, Terminated
  <1>10. ASSUME NEW z \in SessionIds \ {s} PROVE SameSession(z) /\ SameHolder(z)
    <2>1. SameHolder(z)
      BY <1>0, <1>4, <1>5, <1>8, OtherTasks DEF SameHolder
    <2>2. SameSession(z)
      BY <1>7, <1>9, SessionView
    <2> QED
      BY <2>1, <2>2
  <1>11. PhaseOf(s) = "Active" /\ GoodOf(s) = sessions[s].current_resume_nonce
    BY <1>3 DEF PhaseOf, GoodOf
  <1>12. SameSpent
    BY DEF SameSpent
  <1>13. CASE sessions'[s] = sessions[s]
    <2>1. PhaseOf(s)' = "Active" /\ GoodOf(s)' = GoodOf(s)
      BY <1>3, <1>9, <1>11, <1>13 DEF PhaseOf, GoodOf
    <2> QED
      BY <1>1, <1>2, <1>6, <1>10, <1>11, <1>12, <2>1, LeaveMap
  <1>14. CASE sessions'[s] = HeldRecord(sessions[s])
    <2>1. /\ HeldRecord(sessions[s]).state = "Held"
          /\ HeldRecord(sessions[s]).current_resume_nonce = sessions[s].current_resume_nonce
      BY <1>3 DEF HeldRecord, SessionRecord
    <2>2. PhaseOf(s)' = "Held" /\ GoodOf(s)' = GoodOf(s)
      BY <1>3, <1>9, <1>11, <1>14, <2>1 DEF PhaseOf, GoodOf
    <2> QED
      BY <1>1, <1>2, <1>6, <1>10, <1>11, <1>12, <2>2, LeaveMap
  <1>15. CASE sessions'[s] = EndedRecord(sessions[s])
    <2>1. EndedRecord(sessions[s]).state = "Terminated"
      BY <1>0, <1>3, SectionEffects
    <2>2. PhaseOf(s)' = "Terminated" /\ GoodOf(s)' = {}
      BY <1>3, <1>9, <1>15, <2>1 DEF PhaseOf, GoodOf
    <2> QED
      BY <1>1, <1>2, <1>6, <1>10, <1>11, <1>12, <2>2, LeaveMap
  <1> QED
    BY <1>9, <1>13, <1>14, <1>15

(* create_session signs a token: the session it is for has not begun before,
   and has not begun until it is inserted. *)
LEMMA IssueMap ==
    ASSUME RegistryInvariant, NEW c \in Tasks, CreateIssue(c)
    PROVE  UNCHANGED Lifecycle!vars
  <1>0. TypeOK
    BY DEF RegistryInvariant
  <1>1. PICK s \in FreshSessionIds, n \in FreshNonces :
          /\ issued' = issued \cup {Issue(s, n)}
          /\ task' = [task EXCEPT ![c] = [task[c] EXCEPT !.pc = "create.insert",
                                                        !.token = {Issue(s, n)}]]
    BY DEF CreateIssue
  <1>2. At(c, "create.issue") /\ sessions' = sessions /\ granted' = granted
    BY DEF CreateIssue
  <1>3. Issue(s, n).session_id = s /\ \A u \in issued : u.session_id # s
    BY DEF Issue, FreshSessionIds
  <1> DEFINE t == [task[c] EXCEPT !.pc = "create.insert", !.token = {Issue(s, n)}]
  <1>4. task' = [task EXCEPT ![c] = t] /\ t.pc = "create.insert" /\ t.token = {Issue(s, n)}
    BY <1>0, <1>1 DEF TypeOK, Task
  <1> HIDE DEF t
  <1>5. task'[c].pc = "create.insert" /\ task'[c].token = {Issue(s, n)}
    BY <1>0, <1>4, OtherTasks
  <1>6. Token(c)' = Issue(s, n)
    BY <1>5 DEF Token
  <1>7. \A z : ~Owns(c, z) /\ ~(Owns(c, z)') /\ ~Inserts(c, z)
    BY <1>2, <1>5 DEF Owns, Serving, At, Inserts
  <1>8. \A z : SameHolder(z)
    BY <1>0, <1>4, <1>7, OtherTasks DEF SameHolder
  <1>9. ASSUME NEW z, z # s PROVE Begun(z)' <=> Begun(z)
    <2>1. ~(Inserts(c, z)')
      BY <1>3, <1>6, <1>9 DEF Inserts
    <2>2. (\E tok \in issued' : tok.session_id = z) <=> (\E tok \in issued : tok.session_id = z)
      BY <1>1, <1>3, <1>9
    <2> QED
      BY <1>0, <1>4, <1>7, <2>1, <2>2, BegunView
  <1>10. ~Begun(s) /\ ~(Begun(s)')
    <2>1. ~Begun(s)
      BY <1>3 DEF Begun
    <2>2. At(c, "create.insert")' /\ Token(c)'.session_id = s
      BY <1>3, <1>5, <1>6 DEF At
    <2> QED
      BY <2>1, <2>2 DEF Begun
  <1>11. \A z : SameSession(z)
    BY <1>2, <1>9, <1>10, SessionView
  <1>12. SameSpent
    BY <1>2 DEF SameSpent
  <1> QED
    BY <1>8, <1>11, <1>12, StutterMap

(* Every step of the clock, of a restart and of a task is one step of
   SessionLifecycle, or none. *)
LEMMA LifecycleNext ==
    RegistryInvariant /\ [Next]_vars => [Lifecycle!Next]_Lifecycle!vars
  <1> SUFFICES ASSUME RegistryInvariant, [Next]_vars
               PROVE  Lifecycle!Next \/ UNCHANGED Lifecycle!vars
    OBVIOUS
  <1>0. TypeOK
    BY DEF RegistryInvariant
  <1>1. ASSUME UNCHANGED <<sessions, issued, task, granted>>
        PROVE  UNCHANGED Lifecycle!vars
    <2>1. \A s : SameHolder(s) /\ (Begun(s)' <=> Begun(s))
      BY <1>1 DEF SameHolder, Owns, Begun, At, Token
    <2>2. \A s : SameSession(s)
      BY <1>1, <2>1, SessionView
    <2> QED
      BY <1>1, <2>1, <2>2, StutterMap DEF SameSpent
  <1>2. CASE Restart
    BY <1>2, RestartMap DEF Lifecycle!Next
  <1>3. ASSUME NEW c \in Tasks, TaskStep(c)
        PROVE  Lifecycle!Next \/ UNCHANGED Lifecycle!vars
    (* A step that changes neither the map nor what the task owns. *)
    <2>1. ASSUME NEW t, task' = [task EXCEPT ![c] = t],
                 \/ t.pc \in Serving /\ task[c].pc \in Serving /\ t.token = task[c].token
                 \/ t.pc \notin Serving /\ task[c].pc \notin Serving,
                 t.pc # "create.insert", task[c].pc # "create.insert",
                 UNCHANGED <<sessions, issued, granted>>
          PROVE  UNCHANGED Lifecycle!vars
      <3>1. \A s : SameHolder(s) /\ (Begun(s)' <=> Begun(s))
        BY <1>0, <2>1, QuietView
      <3>2. \A s : SameSession(s)
        BY <2>1, <3>1, SessionView
      <3> QED
        BY <2>1, <3>1, <3>2, StutterMap DEF SameSpent
    <2>2. ASSUME NEW pc, Goto(c, pc), pc \in Serving, task[c].pc \in Serving,
                 UNCHANGED <<sessions, issued, granted>>
          PROVE  UNCHANGED Lifecycle!vars
      <3> DEFINE t == [task[c] EXCEPT !.pc = pc]
      <3>1. task' = [task EXCEPT ![c] = t] /\ t.pc = pc /\ t.token = task[c].token
        BY <1>0, <2>2 DEF Goto, TypeOK, Task
      <3>2. pc # "create.insert" /\ task[c].pc # "create.insert"
        BY <2>2 DEF Serving
      <3> HIDE DEF t
      <3> QED
        BY <2>1, <2>2, <3>1, <3>2
    <2>3. ASSUME NEW pc, NEW o, StartPrune(c, pc, o), UNCHANGED <<managerVars, granted>>,
                 \/ At(c, "idle") /\ pc \in {"create.prune", "resume.prune"}
                 \/ pc = "hold.prune" /\ At(c, "streaming") /\ o = task[c].token
          PROVE  UNCHANGED Lifecycle!vars
      <3> DEFINE t == [pc |-> pc, token |-> o, read |-> now]
      <3>1. t.pc = pc /\ t.token = o /\ task' = [task EXCEPT ![c] = t]
        BY <2>3 DEF StartPrune
      <3> HIDE DEF t
      <3>2. /\ t.pc # "create.insert" /\ task[c].pc # "create.insert"
            /\ \/ t.pc \in Serving /\ task[c].pc \in Serving /\ t.token = task[c].token
               \/ t.pc \notin Serving /\ task[c].pc \notin Serving
        BY <2>3, <3>1 DEF Serving, At
      <3> QED
        BY <2>1, <2>3, <3>1, <3>2 DEF managerVars
    <2>4. ASSUME End(c), task[c].pc \in {"create.issue", "resume.session"},
                 UNCHANGED <<sessions, issued, granted>>
          PROVE  UNCHANGED Lifecycle!vars
      <3>1. task' = [task EXCEPT ![c] = Idle] /\ Idle.pc = "idle"
        BY <2>4 DEF End, Idle
      <3> QED
        BY <2>1, <2>4, <3>1 DEF Serving
    <2>5. ASSUME NEW from, NEW to,
                 <<from, to>> \in {<<"create.prune", "create.issue">>,
                                   <<"resume.prune", "resume.session">>,
                                   <<"hold.prune", "hold.session">>},
                 PruneExpired(c, from, to)
          PROVE  Lifecycle!Next
      <3> DEFINE t == [task[c] EXCEPT !.pc = to]
                 S == {s \in DOMAIN sessions : HoldOver(sessions[s], task[c].read)}
      <3>1. /\ task' = [task EXCEPT ![c] = t] /\ t.pc = to /\ t.token = task[c].token
            /\ task[c].pc = from
        BY <1>0, <2>5 DEF PruneExpired, Goto, At, TypeOK, Task
      <3> HIDE DEF t
      <3>2. /\ t.pc # "create.insert" /\ task[c].pc # "create.insert"
            /\ \/ t.pc \in Serving /\ task[c].pc \in Serving /\ t.token = task[c].token
               \/ t.pc \notin Serving /\ task[c].pc \notin Serving
        BY <2>5, <3>1 DEF Serving
      <3>3. sessions' = Pruned(task[c].read) /\ issued' = issued /\ granted' = granted
        BY <2>5 DEF PruneExpired
      <3>4. \A s : SameHolder(s) /\ (Begun(s)' <=> Begun(s))
        BY <1>0, <3>1, <3>2, <3>3, QuietView
      <3>5. \A s \in S : sessions[s].state = "Held" /\ sessions'[s].state = "Terminated"
        BY <1>0, <3>3, SectionEffects DEF HoldOver
      <3>6. /\ DOMAIN sessions' = DOMAIN sessions
            /\ \A s \in DOMAIN sessions \ S : sessions'[s] = sessions[s]
        BY <1>0, <3>3, SectionEffects
      <3>7. Lifecycle!Expire(S) /\ S \in SUBSET SessionIds
        BY <1>0, <3>3, <3>4, <3>5, <3>6, EndHeldMap DEF TypeOK
      <3> QED
        BY <3>7 DEF Lifecycle!Next
    <2>6. ASSUME task[c].pc \in Serving, End(c), UNCHANGED <<issued, granted>>,
                 LET s == Token(c).session_id IN sessions' \in {sessions, Held(s), Terminated(s)}
          PROVE  Lifecycle!Next
      <3>1. PICK s \in SessionIds : s = Token(c).session_id
        BY <1>0, <2>6, TokenOfTask DEF Serving, ResumeToken
      <3>2. Lifecycle!Abandon(s) \/ Lifecycle!Hold(s) \/ Lifecycle!Terminate(s)
        BY <2>6, <3>1, GiveUpMap
      <3> QED
        BY <3>2 DEF Lifecycle!Next
    <2>7. CASE Authenticate(c)
      BY <2>3, <2>7 DEF Authenticate
    <2>8. CASE CreatePrune(c) \/ ResumePrune(c) \/ HoldPrune(c)
      BY <2>5, <2>8 DEF CreatePrune, ResumePrune, HoldPrune
    <2>9. CASE CreateIssue(c)
      BY <2>9, IssueMap
    <2>10. CASE CreateInsert(c)
      <3>1. Token(c).session_id \in SessionIds /\ Token(c).nonce \in Nonces
        BY <1>0, <2>10, TokenOfTask DEF CreateInsert, At, ResumeToken
      <3>2. PICK s \in SessionIds, n \in Nonces : s = Token(c).session_id /\ n = Token(c).nonce
        BY <3>1
      <3>3. Lifecycle!Create(s, c, n)
        BY <2>10, <3>2, CreateMap
      <3> QED
        BY <3>3 DEF Lifecycle!Next
    <2>11. CASE CreateFails(c)
      BY <2>4, <2>11 DEF CreateFails, At, managerVars
    <2>12. CASE ResumeRequest(c)
      BY <2>3, <2>12 DEF ResumeRequest
    <2>13. CASE ResumeRefused(c) \/ ResumeFails(c)
      BY <2>4, <2>13 DEF ResumeRefused, ResumeFails, CanResume, At, managerVars
    <2>14. CASE ResumeExpired(c)
      <3>1. PICK s : s = Token(c).session_id
        OBVIOUS
      <3>2. s \in DOMAIN sessions /\ sessions[s].state = "Held" /\ task[c].pc = "resume.session"
        BY <2>14, <3>1 DEF ResumeExpired, Resumable, At
      <3>3. sessions' = ExpireOnResume(s) /\ End(c) /\ issued' = issued /\ granted' = granted
        BY <2>14, <3>1 DEF ResumeExpired
      <3>4. task' = [task EXCEPT ![c] = Idle] /\ Idle.pc = "idle"
        BY <3>3 DEF End, Idle
      <3>5. \A z : SameHolder(z) /\ (Begun(z)' <=> Begun(z))
        BY <1>0, <3>2, <3>3, <3>4, QuietView DEF Serving
      <3>6. sessions[s] \in SessionRecord
        BY <1>0, <3>2 DEF TypeOK
      <3>7. /\ DOMAIN sessions' = DOMAIN sessions
            /\ \A z \in DOMAIN sessions \ {s} : sessions'[z] = sessions[z]
            /\ sessions'[s].state = "Terminated"
        <4>1. /\ DOMAIN sessions' = DOMAIN sessions
              /\ \A z \in DOMAIN sessions \ {s} : sessions'[z] = sessions[z]
              /\ sessions'[s] = [sessions[s] EXCEPT !.state = "Terminated"]
          BY <1>0, <3>2, <3>3, SectionEffects
        <4> QED
          BY <3>6, <4>1 DEF SessionRecord
      <3>8. Lifecycle!Expire({s}) /\ {s} \in SUBSET SessionIds
        BY <1>0, <3>2, <3>3, <3>5, <3>7, EndHeldMap DEF TypeOK
      <3> QED
        BY <3>8 DEF Lifecycle!Next
    <2>15. CASE ResumeSession(c)
      <3>1. Token(c).session_id \in SessionIds /\ Token(c).nonce \in Nonces
        BY <1>0, <2>15, TokenOfTask DEF ResumeSession, CanResume, At, ResumeToken
      <3>2. PICK s \in SessionIds, old \in Nonces :
              s = Token(c).session_id /\ old = Token(c).nonce
        BY <3>1
      <3>3. \E n \in Nonces : Lifecycle!Resume(s, c, old, n)
        BY <2>15, <3>2, ResumeMap
      <3> QED
        BY <3>3 DEF Lifecycle!Next
    <2>16. CASE SendResult(c)
      BY <2>2, <2>16 DEF SendResult, At, Serving, managerVars
    <2>17. CASE FailWithoutCleanup(c)
      BY <2>6, <2>17 DEF FailWithoutCleanup, Serving, managerVars
    <2>18. CASE Disconnect(c)
      BY <2>3, <2>18 DEF Disconnect
    <2>19. CASE Goodbye(c)
      BY <2>2, <2>19 DEF Goodbye, At, Serving, managerVars
    <2>20. CASE HoldSession(c) \/ TerminateSession(c)
      BY <2>6, <2>20 DEF HoldSession, TerminateSession, At, Serving
    <2> QED
      BY <1>3, <2>7, <2>8, <2>9, <2>10, <2>11, <2>12, <2>13, <2>14, <2>15, <2>16, <2>17,
         <2>18, <2>19, <2>20 DEF TaskStep
  <1> QED
    BY <1>1, <1>2, <1>3 DEF Next, ClockMoves, vars

(* The registry and the connection tasks that race for it implement
   SessionLifecycle: behind every prune, half-finished call and restart there is
   one step of a session's life, or none. *)
THEOREM HostImplementsLifecycle == Spec => ImplementsLifecycle
  <1>1. RegistryInvariant /\ [Next]_vars => [Lifecycle!Next]_Lifecycle!vars
    BY LifecycleNext
  <1> QED
    BY <1>1, RegistryCorrect, LifecycleInit, PTL DEF Spec, ImplementsLifecycle, Lifecycle!Spec
=============================================================================
