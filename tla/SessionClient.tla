--------------------------- MODULE SessionClient ---------------------------
(***************************************************************************)
(* The headset's session (SessionClient.swift), an actor with one          *)
(* transport at a time.  Every await lets other calls in: connects,        *)
(* disconnects and the automatic resume of a lost connection interleave    *)
(* there.  Nothing but the number of the transport (transportGeneration)   *)
(* tells a task that it is no longer the one that counts.                  *)
(*                                                                         *)
(* The task g, a number, monitors transport g.  The host at the other end  *)
(* is the one SessionLifecycle promises: the session that starts on        *)
(* transport g has the number g, and so has the token the host issues      *)
(* there.  Input, pointer shapes and video, which leave the session alone, *)
(* are left out.                                                           *)
(***************************************************************************)
EXTENDS Integers, Sequences, FiniteSets

CONSTANTS
    Connects,       \* calls of connect
    Disconnects,    \* calls of disconnect
    Drops,          \* calls of simulateNetworkDrop
    MaxLosses,      \* bound on connections that are lost
    MaxOld,         \* bound on tokens whose ttl passes
    MaxGeneration   \* bound on transportGeneration

ASSUME ClientAssumption == MaxLosses \in Nat /\ MaxOld \in Nat /\ MaxGeneration \in Nat

(* A call has one kind, and is not a monitor: those are numbers. *)
ASSUME CallsDiffer ==
    /\ Connects \cap Disconnects = {} /\ Connects \cap Drops = {} /\ Disconnects \cap Drops = {}
    /\ (Connects \cup Disconnects \cup Drops) \cap Nat = {}

VARIABLES
    auth,           \* the app has an identityTokenSupplier, and the host wants one
    state,          \* SessionClientState
    binding,        \* SessionBinding, in a set: session and token
    known,          \* lastEndpoint is set
    user,           \* wasUserInitiatedDisconnect
    transport,      \* its number, 0 for nil
    generation,     \* transportGeneration
    monitor,        \* monitorTask, 0 for nil
    cancelled,      \* tasks that were cancelled
    overtaken,      \* a task went on although another had begun meanwhile (history variable)
    task,           \* of each call, and of each monitor: where it is
    wire,           \* of each transport: its link, what is under way, what the host does
    losses,
    old,            \* tokens whose ttl has passed
    phase, holder, good, spent      \* of SessionLifecycle

Generations == 1..MaxGeneration
Host == INSTANCE SessionLifecycle
            WITH Sessions <- Generations, Connections <- Generations, Tokens <- Generations

hostVars == <<phase, holder, good, spent>>
sessionVars == <<binding, known, user>>
transportVars == <<transport, generation, monitor, cancelled>>
clientVars == <<state, sessionVars, transportVars, overtaken, task>>
networkVars == <<auth, losses, old, hostVars>>
vars == <<clientVars, wire, networkVars>>

Calls == Connects \cup Disconnects \cup Drops

(* A task: where it waits (at), the transport it is about (on), what is left of the
   close it waits for (close), the token it resumes with (token). *)
Task(at, on, close, token) == [at |-> at, on |-> on, close |-> close, token |-> token]
NoToken == 0
Idle == Task("idle", 0, "done", NoToken)
Ended == Task("ended", 0, "done", NoToken)
At(c, place) == task[c].at = place /\ task[c].close = "done"
IsMonitor(c) == c \notin Calls
On(c) == wire[task[c].on]

(* A transport whose connect has not run yet has no bridge to close. *)
NewWire == [link |-> "fresh", out |-> <<>>, in |-> <<>>, host |-> "waiting"]
Gone == {"unopened", "lost", "closed"}
Prefixes(s) == {SubSeq(s, 1, n) : n \in 0..Len(s)}

Init ==
    /\ auth \in BOOLEAN
    /\ state = "disconnected"
    /\ binding = {}
    /\ known = FALSE
    /\ user = FALSE
    /\ transport = 0
    /\ generation = 0
    /\ monitor = 0
    /\ cancelled = {}
    /\ overtaken = FALSE
    /\ task = [c \in Calls |-> Idle]
    /\ wire = <<>>
    /\ losses = 0
    /\ old = {}
    /\ Host!Init

-----------------------------------------------------------------------------
Put(c, t) == task' = [task EXCEPT ![c] = t]
With(f, k, v) == [x \in DOMAIN f \cup {k} |-> IF x = k THEN v ELSE f[x]]

(* What a task does behind an await may hit the transport of another. *)
Overtakes == overtaken' = (overtaken \/ transport # 0)

(* invalidateCurrentTransport of a task that then waits at `place` for the close ... *)
CancelMonitor == monitor' = 0 /\ cancelled' = cancelled \cup ({monitor} \ {0})

Invalidate(c, place, close) ==
    /\ transport # 0
    /\ transport' = 0
    /\ generation' = generation + 1
    /\ CancelMonitor
    /\ Put(c, Task(place, transport, close, task[c].token))
    /\ UNCHANGED <<wire, overtaken>>

(* ... and when there is no transport. *)
NothingToClose ==
    /\ transport = 0
    /\ CancelMonitor

(* openTransport up to its await: beginUsingTransport. *)
OpenTransport(c, token) ==
    /\ generation < MaxGeneration
    /\ generation' = generation + 1
    /\ transport' = generation'
    /\ wire' = With(wire, generation', NewWire)
    /\ Put(c, Task("open", generation', "done", token))

ClearSessionContext(preserveEndpoint) ==
    /\ binding' = {}
    /\ user' = FALSE
    /\ known' = (known /\ preserveEndpoint)

(* canAttemptResume.  The client counts the ttl from when it got the token, and may
   take one for good that no longer is. *)
Resumable(endpoint) == {b.token : b \in {b \in binding : endpoint /\ b.token # NoToken}}
Unresumable(endpoint) == Resumable(endpoint) \subseteq old

-----------------------------------------------------------------------------
(* connect, behind the close of the transport before: attemptResume or a fresh
   handshake. *)
Attempt(c, endpoint) ==
    \/ /\ auth
       /\ \E t \in Resumable(endpoint) : OpenTransport(c, t)
       /\ state' = "resuming"
    \/ /\ auth => Unresumable(endpoint)
       /\ OpenTransport(c, NoToken)
       /\ state' = "connecting"

(* The app cancels a connect before it starts another. *)
Connect(c) ==
    /\ c \in Connects /\ task[c] = Idle
    /\ \A d \in Connects : task[d] \in {Idle, Ended} \/ d \in cancelled
    /\ known' = TRUE
    /\ user' = FALSE
    /\ \/ Invalidate(c, "enter", "plain") /\ UNCHANGED state
       \/ NothingToClose /\ Attempt(c, TRUE) /\ UNCHANGED overtaken
    /\ UNCHANGED <<binding, networkVars>>

Enter(c) ==
    /\ At(c, "enter")
    /\ Attempt(c, known)
    /\ Overtakes
    /\ UNCHANGED <<sessionVars, monitor, cancelled, networkVars>>

(* connect or cancelConnection of the app cancels the task of the connect before.  What
   that is waiting to receive is not delivered any more, unless it has arrived. *)
CancelConnect(c) ==
    /\ c \in Connects /\ c \notin cancelled
    /\ task[c] \notin {Idle, Ended}
    /\ \E d \in Connects \cup Disconnects : task[d] = Idle
    /\ cancelled' = cancelled \cup {c}
    /\ IF task[c].at \in {"open", "result"}
       THEN \E in \in Prefixes(On(c).in) : wire' = [wire EXCEPT ![task[c].on].in = in]
       ELSE UNCHANGED wire
    /\ UNCHANGED <<state, sessionVars, transport, generation, monitor, overtaken, task, networkVars>>

(* Mutant of Apply: the token of the session before is kept. *)
ApplyKeepsToken(c, b) ==
    /\ binding' = IF binding = {} THEN {b} ELSE binding
    /\ user' = FALSE
    /\ state' = "connected"
    /\ monitor' = task[c].on
    /\ cancelled' = cancelled \cup ({monitor} \ {0})
    /\ task' = With([task EXCEPT ![c] = Ended], task[c].on, Task("watch", task[c].on, "done", NoToken))
    /\ overtaken' = (overtaken \/ task[c].on # generation)
    /\ UNCHANGED <<known, transport, generation>>

(* applyConnectedSession, which does not look at the generation. *)
Apply(c, b) ==
    /\ binding' = {b}
    /\ user' = FALSE
    /\ state' = "connected"
    /\ monitor' = task[c].on
    /\ cancelled' = cancelled \cup ({monitor} \ {0})
    /\ task' = With([task EXCEPT ![c] = Ended], task[c].on, Task("watch", task[c].on, "done", NoToken))
    /\ overtaken' = (overtaken \/ task[c].on # generation)
    /\ UNCHANGED <<known, transport, generation>>

(* The host has answered the hello. *)
Greeted(c) ==
    /\ At(c, "open")
    /\ On(c).in # <<>>
    /\ \/ /\ task[c].token # NoToken /\ On(c).link = "up"
          /\ wire' = [wire EXCEPT ![task[c].on].in = Tail(@),
                                  ![task[c].on].out = Append(@, [kind |-> "resume", token |-> task[c].token])]
          /\ Put(c, [task[c] EXCEPT !.at = "result"])
          /\ UNCHANGED <<state, sessionVars, transportVars, overtaken>>
       \/ /\ task[c].token = NoToken
          /\ wire' = [wire EXCEPT ![task[c].on].in = Tail(@)]
          /\ IF auth
             THEN /\ state' = "authenticating"
                  /\ Put(c, [task[c] EXCEPT !.at = "token"])
                  /\ overtaken' = (overtaken \/ task[c].on # generation)
                  /\ UNCHANGED <<sessionVars, transportVars>>
             ELSE Apply(c, [session |-> 0, token |-> NoToken])
    /\ UNCHANGED networkVars

(* The app has signed in: sendAuthenticate. *)
Authenticate(c) ==
    /\ At(c, "token")
    /\ On(c).link = "up"
    /\ wire' = [wire EXCEPT ![task[c].on].out = Append(@, [kind |-> "authenticate"])]
    /\ Put(c, [task[c] EXCEPT !.at = "result"])
    /\ UNCHANGED <<state, sessionVars, transportVars, overtaken, networkVars>>

-----------------------------------------------------------------------------
(* A handshake that fails closes the transport of the moment, whoever opened it. *)
FailQuietly(c) ==    \* mutant: the state is left as it was
    /\ Put(c, Ended)
    /\ UNCHANGED <<state, wire>>

Fail(c) ==
    /\ state' = "error"
    /\ Put(c, Ended)
    /\ UNCHANGED wire

Catch(c, meanwhile) ==
    \/ Invalidate(c, "failed", "plain") /\ state' = meanwhile
    \/ NothingToClose /\ Fail(c) /\ UNCHANGED <<transport, generation, overtaken>>

Failed(c) ==
    /\ At(c, "failed")
    /\ Fail(c)
    /\ Overtakes
    /\ UNCHANGED <<sessionVars, transportVars, networkVars>>

ThrowsUnlessClosed(c) ==    \* mutant: close leaves a receive waiting
    /\ task[c].at \in {"open", "result"}
    /\ IF On(c).in = <<>>
       THEN On(c).link \in Gone \ {"closed"} \/ (On(c).link = "up" /\ c \in cancelled)
       ELSE task[c].at = "open" /\ task[c].token # NoToken /\ On(c).link \in Gone

(* connect or send throws, or receive has nothing more to give. *)
Throws(c) ==
    /\ task[c].at \in {"open", "result"}
    /\ IF On(c).in = <<>>
       THEN On(c).link \in Gone \/ (On(c).link = "up" /\ c \in cancelled)
       ELSE task[c].at = "open" /\ task[c].token # NoToken /\ On(c).link \in Gone

(* A transport that does not open is given up first, if it still counts. *)
HandshakeFails(c) ==
    /\ Throws(c)
    /\ IF task[c].at = "open" /\ On(c).link = "unopened" /\ task[c].on = generation
       THEN Invalidate(c, "unopened", "plain") /\ UNCHANGED state
       ELSE Catch(c, state)
    /\ UNCHANGED <<sessionVars, networkVars>>

Unopened(c) ==
    /\ At(c, "unopened")
    /\ Catch(c, state)
    /\ UNCHANGED <<sessionVars, networkVars>>

(* The app does not sign in, or the credential cannot be sent. *)
SignInFails(c) ==
    /\ At(c, "token")
    /\ Catch(c, state)
    /\ UNCHANGED <<sessionVars, networkVars>>

-----------------------------------------------------------------------------
(* The host says no.  A refused resume costs the client its token: connect goes on
   with a fresh handshake, a monitor gives up. *)
Refused(c) ==
    IF task[c].token = NoToken
    THEN Catch(c, "error") /\ UNCHANGED sessionVars
    ELSE /\ ClearSessionContext(TRUE)
         /\ Overtakes
         /\ UNCHANGED <<monitor, cancelled>>
         /\ IF IsMonitor(c)
            THEN Fail(c) /\ UNCHANGED <<transport, generation>>
            ELSE state' = "connecting" /\ OpenTransport(c, NoToken)

Result(c) ==
    /\ At(c, "result")
    /\ On(c).in # <<>>
    /\ LET m == Head(On(c).in)
       IN  \/ /\ m.kind = "ok"
              /\ Apply(c, [session |-> m.session, token |-> m.token])
              /\ wire' = [wire EXCEPT ![task[c].on].in = Tail(@)]
           \/ /\ m.kind = "no"
              /\ task[c].on = generation
              /\ Invalidate(c, "refused", "plain")
              /\ UNCHANGED <<state, sessionVars>>
           \/ /\ m.kind = "no"
              /\ task[c].on # generation
              /\ Refused(c)
    /\ UNCHANGED networkVars

AfterRefusal(c) ==
    /\ At(c, "refused")
    /\ Refused(c)
    /\ UNCHANGED networkVars

-----------------------------------------------------------------------------
(* disconnect, and a goodbye of the host. *)
Left(c) ==
    /\ ClearSessionContext(FALSE)
    /\ state' = "disconnected"
    /\ Put(c, Ended)
    /\ UNCHANGED wire

Disconnect(c) ==
    /\ c \in Disconnects /\ task[c] = Idle
    /\ \/ Invalidate(c, "leave", "goodbye") /\ user' = TRUE /\ UNCHANGED <<state, binding, known>>
       \/ NothingToClose /\ Left(c) /\ UNCHANGED <<transport, generation, overtaken>>
    /\ UNCHANGED networkVars

Leave(c) ==
    /\ At(c, "leave")
    /\ Left(c)
    /\ Overtakes
    /\ UNCHANGED <<transportVars, networkVars>>

SimulateNetworkDrop(c) ==
    /\ c \in Drops /\ task[c] = Idle
    /\ state = "connected" /\ transport # 0
    /\ user' = FALSE
    /\ Put(c, Task("drop", transport, "plain", NoToken))
    /\ UNCHANGED <<state, binding, known, transportVars, overtaken, wire, networkVars>>

Dropped(c) ==
    /\ At(c, "drop")
    /\ Put(c, Ended)
    /\ UNCHANGED <<state, sessionVars, transportVars, overtaken, wire, networkVars>>

-----------------------------------------------------------------------------
(* The monitor of transport g: handleSessionMessage, of a goodbye ... *)
SessionMessage(g) ==
    /\ IsMonitor(g) /\ At(g, "watch")
    /\ wire[g].in # <<>>
    /\ \/ /\ g = generation
          /\ user' = TRUE
          /\ Invalidate(g, "leave", "plain")
          /\ UNCHANGED <<state, binding, known>>
       \/ /\ g # generation
          /\ wire' = [wire EXCEPT ![g].in = Tail(@)]
          /\ UNCHANGED <<state, sessionVars, transportVars, overtaken, task>>
    /\ UNCHANGED networkVars

(* ... and handleTransportTermination: a transport that still counts is resumed. *)
TransportTermination(g) ==
    /\ IsMonitor(g) /\ At(g, "watch")
    /\ (wire[g].link \in Gone /\ wire[g].in = <<>>) \/ g \in cancelled
    /\ \/ /\ g # generation \/ g \in cancelled
          /\ Put(g, Ended)
          /\ UNCHANGED <<state, transport, generation, monitor, wire>>
       \/ /\ g = generation
          /\ monitor' = 0
          /\ \/ /\ user \/ Unresumable(known)
                /\ transport' = 0
                /\ Put(g, Ended)
                /\ state' = IF user THEN state ELSE "error"
                /\ UNCHANGED <<generation, wire>>
             \/ /\ ~user
                /\ state' = "resuming"
                /\ \E t \in Resumable(known) : OpenTransport(g, t)
    /\ UNCHANGED <<sessionVars, cancelled, overtaken, networkVars>>

-----------------------------------------------------------------------------
(* NetworkFrameworkQuicClient.close.  A goodbye is queued behind the start of the
   connection, and waits for ever if that fails.  What was received and not yet read
   is dropped, but for a message a receive already has. *)
Close(c) ==
    /\ task[c].close # "done"
    /\ LET w == On(c)
           Now(v, close) == wire' = [wire EXCEPT ![task[c].on] = v] /\ Put(c, [task[c] EXCEPT !.close = close])
       IN  \/ /\ task[c].close \in {"goodbye", "queued"} /\ w.link = "up"
              /\ Now([w EXCEPT !.out = Append(@, [kind |-> "goodbye"])], "plain")
           \/ /\ task[c].close = "goodbye" /\ w.link = "opening"
              /\ Now(w, "queued")
           \/ /\ \/ task[c].close = "plain"
                 \/ task[c].close = "goodbye" /\ w.link \in Gone \cup {"fresh"}
                 \/ task[c].close = "queued" /\ w.link \in {"lost", "closed"}
              /\ \/ w.link \in Gone \cup {"fresh"} /\ Now(w, "done")
                 \/ w.link = "opening" /\ Now([w EXCEPT !.link = "unopened"], "done")
                 \/ /\ w.link = "up"
                    /\ \E out \in Prefixes(w.out), in \in Prefixes(w.in) :
                          Len(in) <= 1 /\ Now([w EXCEPT !.link = "closed", !.out = out, !.in = in], "done")
    /\ UNCHANGED <<state, sessionVars, transportVars, overtaken, networkVars>>

(* The connect of transport g starts its bridge. *)
Start(g) ==
    /\ wire[g].link = "fresh"
    /\ wire' = [wire EXCEPT ![g].link = "opening"]
    /\ UNCHANGED <<clientVars, networkVars>>

(* deinit: nobody refers to transport g any more.  The closure of a monitor does until
   the task ends. *)
Referred(g) ==
    \/ transport = g
    \/ \E c \in DOMAIN task : task[c] # Ended /\ g \in {c, task[c].on}

Deinit(g) ==
    /\ wire[g].link = "up"
    /\ ~Referred(g)
    /\ wire' = [wire EXCEPT ![g].link = "closed", ![g].in = <<>>]
    /\ UNCHANGED <<clientVars, networkVars>>

-----------------------------------------------------------------------------
(* The network. *)
Opens(g) ==
    /\ wire[g].link = "opening"
    /\ \E link \in {"up", "unopened"} : wire' = [wire EXCEPT ![g].link = link]
    /\ UNCHANGED <<clientVars, networkVars>>

Lose(g) ==
    /\ wire[g].link = "up"
    /\ \/ losses < MaxLosses /\ losses' = losses + 1
       \/ wire[g].host = "over" /\ UNCHANGED losses
    /\ \E out \in Prefixes(wire[g].out), in \in Prefixes(wire[g].in) :
          wire' = [wire EXCEPT ![g].link = "lost", ![g].out = out, ![g].in = in]
    /\ UNCHANGED <<clientVars, auth, old, hostVars>>

(* The host, as SessionLifecycle has it.  It is heard unless the task that receives
   was cancelled. *)
Heard(g) ==
    /\ wire[g].link = "up"
    /\ \A c \in cancelled : ~(task[c].on = g /\ task[c].at \in {"open", "token", "result", "watch"})

AcksHello(g) ==
    /\ wire[g].host = "waiting" /\ wire[g].link = "up"
    /\ wire' = [wire EXCEPT ![g].host = IF auth THEN "listening" ELSE "serving",
                            ![g].in = IF Heard(g) THEN <<[kind |-> "ack"]>> ELSE @]
    /\ UNCHANGED <<clientVars, networkVars>>

Hears(g, kind) ==
    /\ wire[g].host # "over"
    /\ wire[g].out # <<>>
    /\ Head(wire[g].out).kind = kind

Says(g, m, host) ==
    wire' = [wire EXCEPT ![g].out = Tail(@),
                         ![g].in = IF Heard(g) THEN @ \o m ELSE @,
                         ![g].host = host]

(* A result that cannot be sent ends the task through `?`. *)
Serving(g) == IF wire[g].link = "up" THEN "serving" ELSE "cut"

No == <<[kind |-> "no"]>>
Ok(s, g) == <<[kind |-> "ok", session |-> s, token |-> g]>>
Streams(g) == {s \in Generations : g \in holder[s]}

Admits(g) ==
    /\ Hears(g, "authenticate")
    /\ \/ Host!Create(g, g, g) /\ Says(g, Ok(g, g), Serving(g))
       \/ Says(g, No, "over") /\ UNCHANGED hostVars
    /\ UNCHANGED <<clientVars, auth, losses, old>>

Resumes(g) ==
    /\ Hears(g, "resume")
    /\ LET t == Head(wire[g].out).token
           S == {s \in Generations : phase[s] = "Held" /\ t \in good[s] \ old}
       IN  \/ \E s \in S : Host!Resume(s, g, t, g) /\ Says(g, Ok(s, g), Serving(g))
           \/ S = {} /\ Says(g, No, "over") /\ UNCHANGED hostVars
    /\ UNCHANGED <<clientVars, auth, losses, old>>

Ends(S) == IF S = {} THEN UNCHANGED hostVars ELSE \E s \in S : Host!Terminate(s)

HearsGoodbye(g) ==
    /\ Hears(g, "goodbye")
    /\ Says(g, <<>>, "over")
    /\ Ends(Streams(g))
    /\ UNCHANGED <<clientVars, auth, losses, old>>

SaysGoodbye(g) ==
    /\ wire[g].host = "serving" /\ wire[g].link = "up"
    /\ wire' = [wire EXCEPT ![g].in = IF Heard(g) THEN Append(@, [kind |-> "goodbye"]) ELSE @,
                            ![g].host = "leaving"]
    /\ UNCHANGED <<clientVars, networkVars>>

(* It notices that the link is gone: behind a goodbye the session ends, otherwise it is
   held, or stays Active where the task ends through `?`. *)
Notices(g) ==
    /\ wire[g].host # "over" /\ wire[g].link \in {"lost", "closed"} /\ wire[g].out = <<>>
    /\ wire' = [wire EXCEPT ![g].host = "over"]
    /\ \/ wire[g].host = "leaving" /\ Ends(Streams(g))
       \/ wire[g].host # "leaving" /\ \E s \in Streams(g) : Host!Hold(s)
       \/ wire[g].host = "cut" /\ \E s \in Streams(g) : Host!Abandon(s)
       \/ wire[g].host # "leaving" /\ Streams(g) = {} /\ UNCHANGED hostVars
    /\ UNCHANGED <<clientVars, auth, losses, old>>

TokenExpires(t) ==
    /\ t \in UNION {good[s] : s \in Generations} \ old
    /\ Cardinality(old) < MaxOld
    /\ old' = old \cup {t}
    /\ UNCHANGED <<clientVars, wire, auth, losses, hostVars>>

(* A hold begins behind the issue of the token and lasts as long. *)
HoldExpires(s) ==
    /\ phase[s] = "Held" /\ good[s] \subseteq old
    /\ Host!Expire({s})
    /\ UNCHANGED <<clientVars, wire, auth, losses, old>>

-----------------------------------------------------------------------------
(* What the client does without waiting for the app, the network or the host. *)
ClientStep ==
    \/ \E c \in DOMAIN task :
          \/ Enter(c) \/ Greeted(c) \/ Failed(c) \/ HandshakeFails(c) \/ Unopened(c) \/ Result(c)
          \/ AfterRefusal(c) \/ Leave(c) \/ Dropped(c) \/ SessionMessage(c) \/ TransportTermination(c)
          \/ Close(c)
    \/ \E g \in DOMAIN wire : Start(g) \/ Deinit(g)

AppStep ==
    \E c \in Calls :
        \/ Connect(c) \/ CancelConnect(c) \/ Disconnect(c) \/ SimulateNetworkDrop(c)
        \/ Authenticate(c) \/ SignInFails(c)

Outside ==
    \/ \E g \in DOMAIN wire :
          \/ Opens(g) \/ Lose(g) \/ AcksHello(g) \/ Admits(g) \/ Resumes(g) \/ HearsGoodbye(g) \/ SaysGoodbye(g) \/ Notices(g)
    \/ \E s \in Generations : TokenExpires(s) \/ HoldExpires(s)

Next == ClientStep \/ AppStep \/ Outside

Spec == Init /\ [][Next]_vars /\ WF_vars(ClientStep)

-----------------------------------------------------------------------------
(* A task rests when it has ended or waits for the app, the network or the host. *)
Handshaking(c) == c \notin Disconnects \cup Drops /\ task[c].at \in {"open", "token", "result"}

Rests(c) ==
    \/ task[c] \in {Idle, Ended}
    \/ At(c, "token")
    \/ At(c, "open") /\ On(c).link = "opening"
    \/ /\ At(c, "open") \/ At(c, "result") \/ At(c, "watch")
       /\ On(c).link = "up" /\ On(c).in = <<>> /\ c \notin cancelled
    \/ task[c].close = "queued" /\ On(c).link \in {"opening", "unopened"}

Rest ==
    /\ \A c \in DOMAIN task : Rests(c)
    /\ \A g \in DOMAIN wire : wire[g].link = "up" => Referred(g)

(* Every call and every monitor comes to rest: no attempt, catch or resume sets off
   another without end, and each close ends but for the goodbye of a connection that
   never opened. *)
Settles == <>[]Rest

(* At rest the state says what is the case.  A client that says it is connecting,
   authenticating or resuming has a task that is at it, whichever connects, disconnects,
   drops, losses and resumes got into each other's way.  Unless one overtook another,
   connected means that the current transport is up and monitored, and no other link is
   up but for one a task is still shaking hands on. *)
ConsistentAtRest ==
    Rest =>
        /\ state \in {"connecting", "authenticating", "resuming"} => \E c \in DOMAIN task : Handshaking(c)
        /\ overtaken \/ (state = "connected" <=> transport # 0 /\ transport = monitor)
        /\ overtaken \/ \A g \in DOMAIN wire :
              wire[g].link = "up" <=> \/ g = monitor
                                     \/ \E c \in DOMAIN task : Handshaking(c) /\ task[c].on = g /\ On(c).link = "up"

(* The client and the host agree on a connection that is up: the session the client
   shows is streamed to it, and the token it keeps is the one that resumes it. *)
ConnectedMatchesHost ==
    auth /\ state = "connected" /\ ~overtaken /\ transport # 0 =>
        \/ wire[transport].link # "up"
        \/ wire[transport].host # "serving"
        \/ \E b \in binding : /\ phase[b.session] = "Active"
                           /\ holder[b.session] = {transport}
                           /\ b.token \in good[b.session]
=============================================================================
