--------------------------- MODULE SessionManager ---------------------------
(***************************************************************************)
(* The host's session registry (host/session/src/lib.rs) and the resume    *)
(* tokens it hands out (host/auth/src/resume_token.rs).                    *)
(*                                                                         *)
(* The registry is a map from session ids to records behind a read-write   *)
(* lock.  This module has its state and, as operators, what each critical  *)
(* section of each method does to the map; HostSessions runs them from     *)
(* concurrent connection tasks, one atomic step per critical section.      *)
(*                                                                         *)
(* An Option<T> of the source is a set with at most one element.           *)
(***************************************************************************)
EXTENDS Integers, FiniteSets

CONSTANTS
    SessionIds,       \* values of generate_session_id()
    Nonces,           \* values of the random nonce of a resume token
    Ttl,              \* resume_token_ttl_secs: token lifetime and hold window
    SecretConfigured  \* TRUE: HOLOBRIDGE_AUTH_RESUME_TOKEN_SECRET is set

(* SessionManager::new and ResumeTokenService::from_secret refuse a zero ttl. *)
ASSUME TtlAssumption == Ttl \in Nat \ {0}
ASSUME SecretAssumption == SecretConfigured \in BOOLEAN

VARIABLES
    now,       \* now_unix_secs()
    restarts,  \* times the host process has been restarted
    sessions,  \* SessionManager.sessions, lost when the process restarts
    issued     \* every token ever signed; random values never repeat

Option(S) == {o \in SUBSET S : \A x, y \in o : x = y}

SessionState == {"Active", "Held", "Terminated"}

SessionRecord ==
    [state : SessionState,
     hold_expires_at : Option(Nat),
     current_resume_nonce : Option(Nonces),
     reconnect_count : Nat]

ResumeToken ==
    [session_id : SessionIds, expires_at : Nat, nonce : Nonces, secret : Nat]

-----------------------------------------------------------------------------
(* ResumeTokenService *)

(* A random secret is drawn when the process starts unless one is configured. *)
Secret == IF SecretConfigured THEN 0 ELSE restarts

Issue(s, n) ==
    [session_id |-> s, expires_at |-> now + Ttl, nonce |-> n, secret |-> Secret]

(* The HMAC admits exactly the claims signed with the current secret. *)
Validate(tok) ==
    /\ tok \in issued
    /\ tok.secret = Secret
    /\ tok.expires_at > now

FreshNonces == Nonces \ {tok.nonce : tok \in issued}
FreshSessionIds == SessionIds \ {tok.session_id : tok \in issued}

-----------------------------------------------------------------------------
(* SessionManager, one operator per critical section.  Each yields the map  *)
(* as the section leaves it.                                                *)

HoldOver(r, t) == r.state = "Held" /\ \E e \in r.hold_expires_at : e <= t

(* The record of a session that is over: no window, no nonce. *)
EndedRecord(r) ==
    [r EXCEPT !.state = "Terminated",
              !.hold_expires_at = {},
              !.current_resume_nonce = {}]

(* prune_expired, with the clock it read before it took the lock. *)
Pruned(t) ==
    [s \in DOMAIN sessions |->
        IF HoldOver(sessions[s], t) THEN EndedRecord(sessions[s]) ELSE sessions[s]]

(* create_session: insert the record of a new session. *)
NewRecord(n) ==
    [state |-> "Active",
     hold_expires_at |-> {},
     current_resume_nonce |-> {n},
     reconnect_count |-> 0]

Created(tok) ==
    [s \in DOMAIN sessions \cup {tok.session_id} |->
        IF s = tok.session_id THEN NewRecord(tok.nonce) ELSE sessions[s]]

(* hold_session: NotFound; a terminated session stays terminated. *)
HeldRecord(r) ==
    [r EXCEPT !.state = "Held", !.hold_expires_at = {now + Ttl}]

Held(s) ==
    IF s \notin DOMAIN sessions \/ sessions[s].state = "Terminated"
    THEN sessions
    ELSE [sessions EXCEPT ![s] = HeldRecord(@)]

(* terminate_session: NotFound, or terminated whatever its state was. *)
Terminated(s) ==
    IF s \notin DOMAIN sessions
    THEN sessions
    ELSE [sessions EXCEPT ![s] = EndedRecord(@)]

(* resume_session, in the order of its checks.  NotFound and NotResumable... *)
ResumableInAnyState(s) == s \in DOMAIN sessions

Resumable(s) ==
    /\ s \in DOMAIN sessions
    /\ sessions[s].state = "Held"
    /\ sessions[s].hold_expires_at # {}

(* ... SessionExpired, which terminates the record and nothing more ...     *)
NeverExpired(s) == FALSE

Expired(s) == \E e \in sessions[s].hold_expires_at : e <= now

ExpireOnResume(s) == [sessions EXCEPT ![s] = [@ EXCEPT !.state = "Terminated"]]

(* ... ResumeTokenMismatch ...                                              *)
NonceMatches(tok) == tok.nonce \in sessions[tok.session_id].current_resume_nonce

(* ... and success: the nonce of the new token replaces the one presented.  *)
SameNonceRecord(r, n) ==
    [r EXCEPT !.state = "Active",
              !.hold_expires_at = {},
              !.reconnect_count = @ + 1]

ResumedRecord(r, n) ==
    [r EXCEPT !.state = "Active",
              !.hold_expires_at = {},
              !.current_resume_nonce = {n},
              !.reconnect_count = @ + 1]

Resumed(s, n) == [sessions EXCEPT ![s] = ResumedRecord(@, n)]

=============================================================================
