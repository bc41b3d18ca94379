----------------------------- MODULE HostAccess -----------------------------
(***************************************************************************)
(* How a peer gets in: the listener (serve_internal in                     *)
(* host/transport/src/server.rs), the identity token of each connection,   *)
(* which is checked with keys that are fetched and cached                  *)
(* (host/auth/src/jwks.rs and validator.rs), and the store of authorized   *)
(* users, whose task c works for connection c.                             *)
(*                                                                         *)
(* The listener is one task: it accepts and joins in turn, and waits for a *)
(* QUIC handshake in between.  Tasks fetch keys at the same time, and store*)
(* what they were answered, however long ago the answer was made.  Test    *)
(* mode, with a key from a file, is left out.                              *)
(***************************************************************************)
EXTENDS UserStore

CONSTANTS
    Keys,           \* key ids the identity provider signs with
    MaxRotations    \* bound on changes of the published key set

ASSUME RotationsAssumption == MaxRotations \in Nat

VARIABLES
    published,      \* the key set the provider serves now
    rotations,
    cache,          \* keys that were fetched, and whether within their ttl
    listener,       \* select, handshake, closed
    request         \* what the connections are at; each is made once

accessVars == <<published, rotations, cache, listener, request>>
allVars == <<vars, accessVars>>

(* kid: the key the token names.  answer: the key set that was fetched.
   excused: that key was not published all along, or the answer this task
   stored was replaced, or ran out of ttl, before it was used (history
   variable). *)
Done(at) == [at |-> at, kid |-> CHOOSE k \in Keys : TRUE, answer |-> {}, excused |-> FALSE]
NoRequest == Done("none")
NoCache == [keys |-> {}, fresh |-> FALSE]

Is(c, at) == running /\ request[c].at = at
Move(c, at) == request' = [request EXCEPT ![c].at = at]
Leave(c, at) == request' = [request EXCEPT ![c] = Done(at)]
Seeking == {c \in Tasks : request[c].at \in {"lookup", "fetch", "answer", "recheck"}}
InFlight == {c \in Tasks : request[c].at \notin {"none", "joined"}}
Unaccepted == {c \in Tasks : request[c].at = "none"}

AccessInit ==
    /\ Init
    /\ published \in (SUBSET Keys) \ {{}}
    /\ rotations = 0
    /\ cache = NoCache
    /\ listener = "closed"
    /\ request = [c \in Tasks |-> NoRequest]

-----------------------------------------------------------------------------
Excuse(C) == request' = [c \in Tasks |-> [request[c] EXCEPT !.excused = @ \/ c \in C]]

(* The provider publishes another key set. *)
Rotate ==
    /\ rotations < MaxRotations
    /\ rotations' = rotations + 1
    /\ published' \in (SUBSET Keys) \ {{}, published}
    /\ Excuse({c \in Seeking : request[c].kid \notin published'})
    /\ UNCHANGED <<vars, cache, listener>>

(* The cached keys reach the end of their ttl. *)
Expire ==
    /\ cache.fresh
    /\ cache' = [cache EXCEPT !.fresh = FALSE]
    /\ Excuse({c \in Seeking : request[c].at = "recheck"})
    /\ UNCHANGED <<vars, published, rotations, listener>>

-----------------------------------------------------------------------------
Serve ==
    /\ Load
    /\ listener' = "select"
    /\ cache' = NoCache
    /\ request' = [c \in Tasks |-> NoRequest]
    /\ UNCHANGED <<published, rotations>>

(* The process ends: it crashes, or serve returns.  It returns an error after an
   accept that timed out or a handshake that failed, and drops every task. *)
HostStops ==
    /\ Crash
    /\ listener' = "closed"
    /\ cache' = NoCache
    /\ request' = [c \in Tasks |-> NoRequest]
    /\ UNCHANGED <<published, rotations>>

(* select: the next connection, up to max_connections ... *)
Accept ==
    /\ running
    /\ listener = "select"
    /\ Unaccepted # {}
    /\ listener' = "handshake"
    /\ UNCHANGED <<vars, published, rotations, cache, request>>

(* ... whose handshake is awaited, and whose task then reads a token ... *)
Established(c) ==
    /\ listener = "handshake"
    /\ Is(c, "none")
    /\ listener' = "select"
    /\ \E kid \in Keys :
         request' = [request EXCEPT ![c] = [at |-> "lookup", kid |-> kid, answer |-> {},
                                            excused |-> kid \notin published]]
    /\ UNCHANGED <<vars, published, rotations, cache>>

(* ... or the end of a task, whatever its result ... *)
JoinNext(c) ==
    /\ listener = "select"
    /\ Is(c, "done") \/ Is(c, "unknown")
    /\ Leave(c, "joined")
    /\ UNCHANGED <<vars, published, rotations, cache, listener>>

(* ... until there is nobody left to accept or to join. *)
Close ==
    /\ running
    /\ listener = "select"
    /\ Unaccepted = {} /\ InFlight = {}
    /\ listener' = "closed"
    /\ UNCHANGED <<vars, published, rotations, cache, request>>

-----------------------------------------------------------------------------
(* get_decoding_key: a lookup in the cache, one refresh after a miss, and a
   second lookup, which gives up. *)
Hit(c) == cache.fresh /\ request[c].kid \in cache.keys

LookupCached(c) ==
    /\ Is(c, "lookup") \/ Is(c, "recheck")
    /\ IF Hit(c) THEN Leave(c, "decode")
       ELSE Move(c, IF request[c].at = "lookup" THEN "fetch" ELSE "unknown")
    /\ UNCHANGED <<vars, published, rotations, cache, listener>>

(* refresh: the provider answers, or the request fails, or it hangs, for there
   is no timeout; and later the answer is stored. *)
Fetch(c) ==
    /\ Is(c, "fetch")
    /\ \/ request' = [request EXCEPT ![c].at = "answer", ![c].answer = published]
       \/ Leave(c, "done")
    /\ UNCHANGED <<vars, published, rotations, cache, listener>>

StoreIfEmpty(c) ==
    /\ Is(c, "answer")
    /\ cache' = IF cache.fresh THEN cache ELSE [keys |-> request[c].answer, fresh |-> TRUE]
    /\ Move(c, "recheck")
    /\ UNCHANGED <<vars, published, rotations, listener>>

Store(c) ==
    /\ Is(c, "answer")
    /\ cache' = [keys |-> request[c].answer, fresh |-> TRUE]
    /\ request' = [d \in Tasks |-> IF d = c THEN [request[c] EXCEPT !.at = "recheck"]
                                   ELSE [request[d] EXCEPT !.excused = @ \/ request[d].at = "recheck"]]
    /\ UNCHANGED <<vars, published, rotations, listener>>

(* decode checks signature, audience, issuer and expiry; what passes goes on to
   check_or_bootstrap for the user it names. *)
Decode(c) ==
    /\ Is(c, "decode")
    /\ \/ \E sub \in Users : Ask(c, sub) /\ Leave(c, "ask")
       \/ Leave(c, "done") /\ UNCHANGED vars
    /\ UNCHANGED <<published, rotations, cache, listener>>

CheckOrBootstrap(c) ==
    /\ Is(c, "ask")
    /\ \/ Proceed(c) /\ UNCHANGED request
       \/ task[c].pc = "idle" /\ Leave(c, "done") /\ UNCHANGED vars
    /\ UNCHANGED <<published, rotations, cache, listener>>

TaskStep(c) == LookupCached(c) \/ Store(c) \/ Decode(c) \/ CheckOrBootstrap(c)

AccessNext ==
    \/ Rotate \/ Expire
    \/ Serve \/ HostStops \/ Accept \/ Close
    \/ \E c \in Tasks : Established(c) \/ JoinNext(c) \/ Fetch(c) \/ TaskStep(c)

(* The runtime polls a task that can go on.  Nothing is assumed of the listener: an
   answer from the provider, the network or the peer may never come, and while it
   waits for a handshake nobody else is accepted. *)
AccessFairness == \A c \in Tasks : WF_allVars(TaskStep(c))

AccessSpec == AccessInit /\ [][AccessNext]_allVars /\ AccessFairness

-----------------------------------------------------------------------------
(* "If the kid is not found, forces one refresh before giving up"
   (host/auth/src/jwks.rs): a token is refused for an unknown key only if its
   key was not published all the while, or the keys this task had fetched were
   overwritten by another task's answer or expired before it looked again. *)
UnknownKeyIsExcused ==
    \A c \in Tasks : request[c].at = "unknown" => request[c].excused
=============================================================================
