-------------------------- MODULE SessionLifecycle --------------------------
(***************************************************************************)
(* What the host promises about streaming sessions, without clocks, locks, *)
(* prunings or half-finished calls: a session is streamed by one           *)
(* connection at a time; once interrupted it comes back only by spending   *)
(* the one token that is good for it, for which its new connection gets a  *)
(* new one; when it is over it is over.                                    *)
(***************************************************************************)
CONSTANTS Sessions, Connections, Tokens

VARIABLES
    phase,   \* of each session
    holder,  \* of each session: the connections it is streamed to
    good,    \* of each session: the tokens that resume it
    spent    \* tokens that have resumed a session

vars == <<phase, holder, good, spent>>

Init ==
    /\ phase = [s \in Sessions |-> "None"]
    /\ holder = [s \in Sessions |-> {}]
    /\ good = [s \in Sessions |-> {}]
    /\ spent = {}

New(t) == t \notin spent /\ \A s \in Sessions : t \notin good[s]

Stream(s, c, t) ==
    /\ New(t)
    /\ phase' = [phase EXCEPT ![s] = "Active"]
    /\ holder' = [holder EXCEPT ![s] = {c}]
    /\ good' = [good EXCEPT ![s] = {t}]

Create(s, c, t) ==
    /\ phase[s] = "None"
    /\ Stream(s, c, t)
    /\ UNCHANGED spent

Resume(s, c, old, t) ==
    /\ phase[s] = "Held"
    /\ old \in good[s]
    /\ spent' = spent \cup {old}
    /\ Stream(s, c, t)

Hold(s) ==
    /\ phase[s] = "Active"
    /\ holder[s] # {}
    /\ phase' = [phase EXCEPT ![s] = "Held"]
    /\ holder' = [holder EXCEPT ![s] = {}]
    /\ UNCHANGED <<good, spent>>

Terminate(s) ==
    /\ phase[s] = "Active"
    /\ holder[s] # {}
    /\ phase' = [phase EXCEPT ![s] = "Terminated"]
    /\ holder' = [holder EXCEPT ![s] = {}]
    /\ good' = [good EXCEPT ![s] = {}]
    /\ UNCHANGED spent

(* Hold windows close, of several sessions at once. *)
Expire(S) ==
    /\ \A s \in S : phase[s] = "Held"
    /\ phase' = [s \in Sessions |-> IF s \in S THEN "Terminated" ELSE phase[s]]
    /\ good' = [s \in Sessions |-> IF s \in S THEN {} ELSE good[s]]
    /\ UNCHANGED <<holder, spent>>

(* A connection is lost in a way that leaves its session Active: nobody
   streams it and nobody ever will. *)
Abandon(s) ==
    /\ phase[s] = "Active"
    /\ holder[s] # {}
    /\ holder' = [holder EXCEPT ![s] = {}]
    /\ UNCHANGED <<phase, good, spent>>

(* The host restarts: every session is over, and so is every session S that
   was about to be created. *)
Restart(S) ==
    /\ phase' = [s \in Sessions |->
                    IF phase[s] = "None" /\ s \notin S THEN "None" ELSE "Terminated"]
    /\ holder' = [s \in Sessions |-> {}]
    /\ good' = [s \in Sessions |-> {}]
    /\ UNCHANGED spent

Next ==
    \/ \E s \in Sessions, c \in Connections, t \in Tokens : Create(s, c, t)
    \/ \E s \in Sessions, c \in Connections, old, t \in Tokens : Resume(s, c, old, t)
    \/ \E s \in Sessions : Hold(s) \/ Terminate(s) \/ Abandon(s)
    \/ \E S \in SUBSET Sessions : Expire(S) \/ Restart(S)

Spec == Init /\ [][Next]_vars
=============================================================================
