------------------------ MODULE SessionClientProofs ------------------------
(***************************************************************************)
(* Theorems about SessionClient, for any number of connects, disconnects,  *)
(* drops, losses and expired tokens, interleaved in any way: a client that *)
(* rests says what is the case, and one that says it is connected is right *)
(* about the session the host streams to it.                               *)
(***************************************************************************)
EXTENDS SessionClient, TLAPS

-----------------------------------------------------------------------------
(* Types *)

Places == {"idle", "enter", "open", "token", "result", "watch", "leave", "failed",
           "unopened", "refused", "drop", "ended"}
Shaking == {"open", "token", "result"}
Closing == {"enter", "leave", "failed", "unopened", "refused"}
Tasks == [at : Places, on : Nat, close : {"done", "plain", "goodbye", "queued"}, token : Nat]

Links == {"fresh", "opening", "up"} \cup Gone
Told == [kind : {"ack", "no", "goodbye"}] \cup [kind : {"ok"}, session : Generations, token : Generations]
Asked == [kind : {"authenticate", "goodbye"}] \cup [kind : {"resume"}, token : Nat]
Hosts == {"waiting", "listening", "serving", "leaving", "cut", "over"}
Wires == [link : Links, out : Seq(Asked), in : Seq(Told), host : Hosts]

ClientTypeOK ==
    /\ auth \in BOOLEAN
    /\ state \in {"disconnected", "connecting", "authenticating", "resuming", "connected", "error"}
    /\ binding \in SUBSET [session : Nat, token : Nat]
    /\ known \in BOOLEAN /\ user \in BOOLEAN /\ overtaken \in BOOLEAN
    /\ generation \in Nat
    /\ transport \in {0, generation} /\ (transport # 0 => transport \in DOMAIN wire)
    /\ monitor \in {0} \cup DOMAIN wire
    /\ cancelled \subseteq DOMAIN task
    /\ task \in [DOMAIN task -> Tasks]
    /\ Calls \subseteq DOMAIN task /\ DOMAIN task \subseteq Calls \cup DOMAIN wire
    /\ wire \in [DOMAIN wire -> Wires]
    /\ DOMAIN wire \subseteq Generations /\ \A g \in DOMAIN wire : g <= generation

HostTypeOK ==
    /\ phase \in [Generations -> {"None", "Active", "Held", "Terminated"}]
    /\ holder \in [Generations -> SUBSET Generations]
    /\ good \in [Generations -> SUBSET Generations]

-----------------------------------------------------------------------------
(* What a task is at fits what it is about. *)
PlaceFits(c) ==
    /\ task[c].at = "idle" => task[c] = Idle
    /\ task[c].at = "ended" => task[c] = Ended
    /\ task[c].at \in Shaking \cup Closing \cup {"watch", "drop"} => task[c].on \in DOMAIN wire
    /\ task[c].at = "enter" => c \in Connects
    /\ task[c].at \in Shaking \cup {"failed", "unopened", "refused"} => c \notin Disconnects \cup Drops
    /\ task[c].close # "done" => task[c].at \in Closing \cup {"drop"}
    /\ task[c].close \in {"goodbye", "queued"} => task[c].at = "leave" /\ c \in Disconnects

(* Who shakes hands on a transport does so alone, in front of its monitor. *)
ShakesAlone(c) ==
    task[c].at \in Shaking =>
        /\ task[c].on \notin DOMAIN task
        /\ \A d \in DOMAIN task : task[d].at \in Shaking /\ task[d].on = task[c].on => d = c
        /\ task[c].on = generation => transport = generation

Began == {"up", "lost", "closed"}

MonitorFits(c) ==
    IF IsMonitor(c)
    THEN /\ task[c].at \notin {"idle", "token"}
         /\ task[c].at \in Shaking => task[c].token # NoToken
         /\ ~overtaken /\ task[c].at \in Shaking => wire[c].link \in Gone
    ELSE task[c].at # "watch"

Watches(c) ==
    task[c].at = "watch" =>
        /\ task[c].on = c
        /\ wire[c].link \in Began
        /\ ~overtaken => c = monitor \/ (c \in cancelled /\ c # generation)

TaskInvariant == \A c \in DOMAIN task : PlaceFits(c) /\ ShakesAlone(c) /\ MonitorFits(c) /\ Watches(c)

(* Nothing arrives on a link that has not come up. *)
WireInvariant == \A g \in DOMAIN wire : wire[g].link \notin Began => wire[g].in = <<>>

MonitorInvariant ==
    /\ monitor # 0 => ~user /\ monitor \in DOMAIN task
    /\ ~overtaken /\ monitor # 0 =>
          /\ monitor = transport
          /\ task[monitor].at = "watch"
          /\ monitor \notin cancelled

-----------------------------------------------------------------------------
(* What the state says. *)
Trying == {"connecting", "authenticating", "resuming"}
WillSay(c) == task[c].at \in Shaking \cup {"failed", "unopened", "refused"}
GivesUp(c) == task[c].at \in Closing /\ On(c).link \in Began

StateInvariant ==
    /\ state \in Trying => \E c \in DOMAIN task : WillSay(c)
    /\ ~overtaken /\ state = "connected" =>
          IF transport # 0 THEN transport = monitor ELSE \E c \in DOMAIN task : GivesUp(c)
    /\ ~overtaken /\ transport # 0 /\ transport = monitor => state = "connected"
    /\ ~overtaken /\ transport # 0 /\ transport # monitor =>
          \E c \in DOMAIN task : task[c].at \in Shaking /\ task[c].on = transport

ClientInvariant ==
    ClientTypeOK /\ TaskInvariant /\ WireInvariant /\ MonitorInvariant /\ StateInvariant

-----------------------------------------------------------------------------
(* The host.  A result it has sent, and the binding the client took from it, stay true
   as long as the host serves the transport. *)
Streamed(g, b) ==
    /\ wire[g].host \notin {"waiting", "listening"}
    /\ b.session \in Generations
    /\ wire[g].host = "serving" =>
          /\ phase[b.session] = "Active"
          /\ holder[b.session] = {g}
          /\ b.token \in good[b.session]

ToldRight(g) == \A i \in 1..Len(wire[g].in) : wire[g].in[i].kind = "ok" => Streamed(g, wire[g].in[i])

(* It is asked for a session once, before it has decided. *)
Undecided == {"waiting", "listening", "over"}
Handshake == {"authenticate", "resume"}
AskedOnce(g) ==
    \A i \in 1..Len(wire[g].out) : wire[g].out[i].kind \in Handshake =>
        /\ wire[g].host \in Undecided
        /\ \A j \in 1..Len(wire[g].out) : wire[g].out[j].kind \in Handshake => j = i

NotAsked(g) ==
    /\ wire[g].host \in Undecided
    /\ \A i \in 1..Len(wire[g].out) : wire[g].out[i].kind \notin Handshake

SpokenInvariant == \A g \in DOMAIN wire : ToldRight(g) /\ AskedOnce(g)
AskedInvariant == \A c \in DOMAIN task : task[c].at \in {"open", "token"} => NotAsked(task[c].on)
BoundInvariant == ~overtaken /\ monitor # 0 => \E b \in binding : Streamed(monitor, b)

AgreementInvariant ==
    /\ HostTypeOK
    /\ auth => SpokenInvariant /\ AskedInvariant /\ BoundInvariant

-----------------------------------------------------------------------------
(* Records *)

WireOf(link, out, in, host) == [link |-> link, out |-> out, in |-> in, host |-> host]
WithLink(w, link) == [w EXCEPT !.link = link]
WithOut(w, out) == [w EXCEPT !.out = out]
WithIn(w, in) == [w EXCEPT !.in = in]
WithHost(w, host) == [w EXCEPT !.host = host]

(* A transport with a component of its record changed. *)
LEMMA WireRecord ==
    ASSUME NEW w \in Wires, NEW link, NEW out, NEW in, NEW host
    PROVE  /\ w = WireOf(w.link, w.out, w.in, w.host)
           /\ WithLink(w, link) = WireOf(link, w.out, w.in, w.host)
           /\ WithOut(w, out) = WireOf(w.link, out, w.in, w.host)
           /\ WithIn(w, in) = WireOf(w.link, w.out, in, w.host)
           /\ WithHost(w, host) = WireOf(w.link, w.out, w.in, host)
  <1>1. w = WireOf(w.link, w.out, w.in, w.host)
    BY DEF Wires, WireOf
  <1>2. ASSUME NEW l, NEW o, NEW i, NEW h
        PROVE  /\ WithLink(WireOf(l, o, i, h), link) = WireOf(link, o, i, h)
               /\ WithOut(WireOf(l, o, i, h), out) = WireOf(l, out, i, h)
               /\ WithIn(WireOf(l, o, i, h), in) = WireOf(l, o, in, h)
               /\ WithHost(WireOf(l, o, i, h), host) = WireOf(l, o, i, host)
    BY DEF WireOf, WithLink, WithOut, WithIn, WithHost
  <1>3. \A l, o, i, h :
           /\ WithLink(WireOf(l, o, i, h), link) = WireOf(link, o, i, h)
           /\ WithOut(WireOf(l, o, i, h), out) = WireOf(l, out, i, h)
           /\ WithIn(WireOf(l, o, i, h), in) = WireOf(l, o, in, h)
           /\ WithHost(WireOf(l, o, i, h), host) = WireOf(l, o, i, host)
    BY <1>2
  <1> QED
    BY <1>1, <1>3

(* Components of such a record. *)
LEMMA WireParts ==
    ASSUME NEW link, NEW out, NEW in, NEW host
    PROVE  /\ WireOf(link, out, in, host).link = link /\ WireOf(link, out, in, host).out = out
           /\ WireOf(link, out, in, host).in = in /\ WireOf(link, out, in, host).host = host
           /\ link \in Links /\ out \in Seq(Asked) /\ in \in Seq(Told)
              /\ host \in Hosts
              => WireOf(link, out, in, host) \in Wires
  BY DEF WireOf, Wires

TaskAt(t, at) == [t EXCEPT !.at = at]
TaskClosing(t, close) == [t EXCEPT !.close = close]

(* A task with a component of its record changed. *)
LEMMA TaskRecord ==
    ASSUME NEW t \in Tasks, NEW at, NEW close
    PROVE  /\ t = Task(t.at, t.on, t.close, t.token)
           /\ TaskAt(t, at) = Task(at, t.on, t.close, t.token)
           /\ TaskClosing(t, close) = Task(t.at, t.on, close, t.token)
  <1>1. t = Task(t.at, t.on, t.close, t.token)
    BY DEF Tasks, Task
  <1>2. ASSUME NEW a, NEW o, NEW k, NEW n
        PROVE  /\ TaskAt(Task(a, o, k, n), at) = Task(at, o, k, n)
               /\ TaskClosing(Task(a, o, k, n), close) = Task(a, o, close, n)
    BY DEF Task, TaskAt, TaskClosing
  <1>3. \A a, o, k, n : /\ TaskAt(Task(a, o, k, n), at) = Task(at, o, k, n)
                        /\ TaskClosing(Task(a, o, k, n), close) = Task(a, o, close, n)
    BY <1>2
  <1> QED
    BY <1>1, <1>3

(* Components of such a record. *)
LEMMA TaskParts ==
    ASSUME NEW at, NEW on, NEW close, NEW token
    PROVE  /\ Task(at, on, close, token).at = at /\ Task(at, on, close, token).on = on
           /\ Task(at, on, close, token).close = close /\ Task(at, on, close, token).token = token
           /\ at \in Places /\ on \in Nat /\ close \in {"done", "plain", "goodbye", "queued"} /\ token \in Nat
              => Task(at, on, close, token) \in Tasks
  BY DEF Task, Tasks

-----------------------------------------------------------------------------
(* Transports *)

(* What is left of a stream that is cut off begins like it. *)
LEMMA PrefixFacts ==
    ASSUME NEW S, NEW s \in Seq(S), NEW p \in Prefixes(s)
    PROVE  /\ p \in Seq(S) /\ Len(p) <= Len(s)
           /\ \A i \in 1..Len(p) : i \in 1..Len(s) /\ p[i] = s[i]
  <1>1. PICK n \in 0..Len(s) : p = SubSeq(s, 1, n)
    BY DEF Prefixes
  <1>2. n \in Nat /\ Len(s) \in Nat /\ n <= Len(s)
    BY <1>1
  <1>3. p = [i \in 1..n |-> s[i]]
    BY <1>1, <1>2
  <1>4. \A i \in 1..n : s[i] \in S
    BY <1>2
  <1>5. p \in Seq(S) /\ Len(p) = n
    BY <1>2, <1>3, <1>4
  <1> QED
    BY <1>2, <1>3, <1>5

(* The messages have their kinds. *)
LEMMA MessageFacts ==
    /\ [kind |-> "ack"] \in Told /\ [kind |-> "no"] \in Told /\ [kind |-> "goodbye"] \in Told
    /\ \A s, t \in Generations : [kind |-> "ok", session |-> s, token |-> t] \in Told
    /\ [kind |-> "authenticate"] \in Asked /\ [kind |-> "goodbye"] \in Asked
    /\ \A t \in Nat : [kind |-> "resume", token |-> t] \in Asked
    /\ \A m \in Told : m.kind = "ok" => m.session \in Generations /\ m.token \in Generations
    /\ \A m \in Asked : m.kind = "resume" => m.token \in Nat
  <1>1. \A m \in Told : m.kind = "ok" => m.session \in Generations /\ m.token \in Generations
    <2> SUFFICES ASSUME NEW m \in Told, m.kind = "ok"
                 PROVE  m.session \in Generations /\ m.token \in Generations
      OBVIOUS
    <2>1. CASE m \in [kind : {"ack", "no", "goodbye"}]
      <3>1. m.kind \in {"ack", "no", "goodbye"}
        BY <2>1
      <3> QED
        BY <3>1
    <2>2. CASE m \in [kind : {"ok"}, session : Generations, token : Generations]
      BY <2>2
    <2> QED
      BY <2>1, <2>2 DEF Told
  <1>2. \A m \in Asked : m.kind = "resume" => m.token \in Nat
    <2> SUFFICES ASSUME NEW m \in Asked, m.kind = "resume" PROVE m.token \in Nat
      OBVIOUS
    <2>1. CASE m \in [kind : {"authenticate", "goodbye"}]
      <3>1. m.kind \in {"authenticate", "goodbye"}
        BY <2>1
      <3> QED
        BY <3>1
    <2>2. CASE m \in [kind : {"resume"}, token : Nat]
      BY <2>2
    <2> QED
      BY <2>1, <2>2 DEF Asked
  <1>3. /\ [kind |-> "ack"] \in Told /\ [kind |-> "no"] \in Told /\ [kind |-> "goodbye"] \in Told
        /\ \A s, t \in Generations : [kind |-> "ok", session |-> s, token |-> t] \in Told
    BY DEF Told
  <1>4. /\ [kind |-> "authenticate"] \in Asked /\ [kind |-> "goodbye"] \in Asked
        /\ \A t \in Nat : [kind |-> "resume", token |-> t] \in Asked
    BY DEF Asked
  <1> QED
    BY <1>1, <1>2, <1>3, <1>4

(* A link that was up stays one that was up, and one that is gone stays gone. *)
LinkMoves(before, after) ==
    /\ before \in Began => after \in Began
    /\ before \in Gone => after \in Gone

WireStep ==
    /\ DOMAIN wire \subseteq DOMAIN wire'
    /\ wire' \in [DOMAIN wire' -> Wires]
    /\ \A g \in DOMAIN wire : LinkMoves(wire[g].link, wire'[g].link)
    /\ WireInvariant'

WireTypeOK == wire \in [DOMAIN wire -> Wires] /\ WireInvariant

(* One transport changes. *)
LEMMA OneWire ==
    ASSUME WireTypeOK, NEW g \in DOMAIN wire, NEW w \in Wires,
           wire' = [wire EXCEPT ![g] = w],
           LinkMoves(wire[g].link, w.link), w.link \notin Began => w.in = <<>>
    PROVE  WireStep /\ DOMAIN wire' = DOMAIN wire
  <1>1. DOMAIN wire' = DOMAIN wire /\ wire' \in [DOMAIN wire -> Wires]
    BY DEF WireTypeOK
  <1>2. wire'[g] = w /\ \A h \in DOMAIN wire : h # g => wire'[h] = wire[h]
    BY DEF WireTypeOK
  <1>3. WireInvariant'
    BY <1>1, <1>2 DEF WireInvariant, WireTypeOK
  <1>4. \A h \in DOMAIN wire : LinkMoves(wire[h].link, wire'[h].link)
    BY <1>2 DEF LinkMoves
  <1> QED
    BY <1>1, <1>3, <1>4 DEF WireStep

(* Nothing changes. *)
LEMMA SameWire ==
    ASSUME WireTypeOK, wire' = wire
    PROVE  WireStep /\ DOMAIN wire' = DOMAIN wire
  BY DEF WireTypeOK, WireStep, WireInvariant, LinkMoves

(* A transport is new. *)
LEMMA NewOne ==
    ASSUME WireTypeOK, NEW g, g \notin DOMAIN wire, wire' = With(wire, g, NewWire)
    PROVE  WireStep /\ DOMAIN wire' = DOMAIN wire \cup {g} /\ wire'[g] = NewWire
  <1>1. NewWire \in Wires
    <2>1. <<>> \in Seq(Asked) /\ <<>> \in Seq(Told)
      OBVIOUS
    <2> QED
      BY <2>1 DEF NewWire, Wires, Links, Hosts
  <1>2. DOMAIN wire' = DOMAIN wire \cup {g} /\ wire'[g] = NewWire
    BY DEF With
  <1>3. \A h \in DOMAIN wire : wire'[h] = wire[h]
    BY DEF With
  <1>4. wire' \in [DOMAIN wire' -> Wires]
    BY <1>1, <1>2, <1>3 DEF With, WireTypeOK
  <1>5. WireInvariant'
    BY <1>2, <1>3 DEF WireInvariant, WireTypeOK, NewWire
  <1> QED
    BY <1>2, <1>3, <1>4, <1>5 DEF WireStep, LinkMoves

-----------------------------------------------------------------------------
(* Steps that leave the session alone: those of the network and the host, of a close,
   and the cancellation of a call. *)

Quiet ==
    /\ UNCHANGED <<auth, state, binding, known, user, transport, generation, monitor, overtaken>>
    /\ cancelled \subseteq cancelled' /\ cancelled' \subseteq cancelled \cup Connects
    /\ WireStep /\ DOMAIN wire' = DOMAIN wire
    /\ DOMAIN task' = DOMAIN task /\ task' \in [DOMAIN task -> Tasks]
    /\ \A c \in DOMAIN task :
          /\ task'[c].at = task[c].at /\ task'[c].on = task[c].on /\ task'[c].token = task[c].token
          /\ task[c].close = "done" => task'[c] = task[c]
          /\ task'[c].close \in {"goodbye", "queued"} => task[c].close \in {"goodbye", "queued"}

(* A monitor's number is none of a call. *)
LEMMA MonitorFacts ==
    /\ \A g \in Nat : IsMonitor(g)
    /\ \A g \in Generations : g \in Nat /\ g # 0 /\ IsMonitor(g)
    /\ \A c \in Calls : ~IsMonitor(c) /\ c \notin Nat
    /\ Calls = Connects \cup (Disconnects \cup Drops)
    /\ \A c \in Connects : c \notin Disconnects \cup Drops
    /\ \A g \in Nat : g \notin Disconnects \cup Drops
  <1>1. Calls \cap Nat = {}
    BY CallsDiffer DEF Calls
  <1> QED
    BY <1>1, CallsDiffer, ClientAssumption DEF IsMonitor, Calls, Generations

(* Such a step keeps the invariant. *)
LEMMA QuietKeeps == ClientInvariant /\ Quiet => ClientInvariant'
  <1> SUFFICES ASSUME ClientInvariant, Quiet PROVE ClientInvariant'
    OBVIOUS
  <1>0. /\ ClientTypeOK /\ TaskInvariant /\ WireInvariant /\ MonitorInvariant /\ StateInvariant
        /\ WireStep /\ WireInvariant'
    BY DEF ClientInvariant, Quiet, WireStep
  <1>1. ClientTypeOK'
    <2>1. Connects \subseteq DOMAIN task
      BY <1>0 DEF ClientTypeOK, Calls
    <2> QED
      BY <1>0, <2>1 DEF ClientTypeOK, Quiet, WireStep
  <1>2. TaskInvariant'
    <2> SUFFICES ASSUME NEW c \in DOMAIN task
                 PROVE  PlaceFits(c)' /\ ShakesAlone(c)' /\ MonitorFits(c)' /\ Watches(c)'
      BY DEF TaskInvariant, Quiet
    <2>0. PlaceFits(c) /\ ShakesAlone(c) /\ MonitorFits(c) /\ Watches(c)
      BY <1>0 DEF TaskInvariant
    <2>1. PlaceFits(c)'
      BY <1>0, <2>0 DEF PlaceFits, Quiet, Idle, Ended, Task
    <2>2. ShakesAlone(c)'
      BY <2>0 DEF ShakesAlone, Quiet
    <2>3. MonitorFits(c)'
      <3>1. IsMonitor(c) => c \in DOMAIN wire
        BY <1>0 DEF IsMonitor, ClientTypeOK
      <3> QED
        BY <1>0, <2>0, <3>1 DEF MonitorFits, Quiet, WireStep, LinkMoves
    <2>4. Watches(c)'
      <3>1. task[c].at = "watch" => c \in DOMAIN wire
        BY <2>0 DEF PlaceFits, Watches
      <3> QED
        BY <1>0, <2>0, <3>1 DEF Watches, Quiet, WireStep, LinkMoves
    <2> QED
      BY <2>1, <2>2, <2>3, <2>4
  <1>3. MonitorInvariant'
    <2>1. monitor # 0 => monitor \notin Connects
      BY <1>0, MonitorFacts DEF ClientTypeOK
    <2> QED
      BY <1>0, <2>1 DEF MonitorInvariant, Quiet
  <1>4. StateInvariant'
    <2>1. \A c \in DOMAIN task : (WillSay(c) => WillSay(c)') /\ (GivesUp(c) => GivesUp(c)')
      <3> SUFFICES ASSUME NEW c \in DOMAIN task
                   PROVE  (WillSay(c) => WillSay(c)') /\ (GivesUp(c) => GivesUp(c)')
        OBVIOUS
      <3>1. PlaceFits(c)
        BY <1>0 DEF TaskInvariant
      <3> QED
        BY <1>0, <3>1 DEF WillSay, GivesUp, PlaceFits, On, Quiet, WireStep, LinkMoves
    <2> QED
      BY <1>0, <2>1 DEF StateInvariant, Quiet
  <1> QED
    BY <1>0, <1>1, <1>2, <1>3, <1>4 DEF ClientInvariant

(* The part of the invariant that is about transports. *)
LEMMA WireTypes == ClientInvariant => WireTypeOK
  BY DEF ClientInvariant, ClientTypeOK, WireTypeOK

(* A step of the network or the host. *)
LEMMA WireOnly ==
    ASSUME ClientInvariant, UNCHANGED <<clientVars, auth>>, WireStep, DOMAIN wire' = DOMAIN wire
    PROVE  Quiet
  BY DEF Quiet, clientVars, sessionVars, transportVars, ClientInvariant, ClientTypeOK

Network(g) ==
    \/ Start(g) \/ Deinit(g) \/ Opens(g) \/ Lose(g) \/ AcksHello(g) \/ Admits(g) \/ Resumes(g)
    \/ HearsGoodbye(g) \/ SaysGoodbye(g) \/ Notices(g)

(* What the host says and hears fits the stream. *)
LEMMA SaysIsWireStep ==
    ASSUME WireTypeOK, NEW g \in DOMAIN wire, NEW m \in Seq(Told), NEW kind,
           NEW host \in {"serving", "cut", "over"}, Hears(g, kind), Says(g, m, host)
    PROVE  /\ WireStep /\ DOMAIN wire' = DOMAIN wire
           /\ wire' = [wire EXCEPT ![g] = WireOf(wire[g].link, Tail(wire[g].out),
                          IF Heard(g) THEN wire[g].in \o m ELSE wire[g].in, host)]
  <1> DEFINE out == Tail(wire[g].out)
             in == IF Heard(g) THEN wire[g].in \o m ELSE wire[g].in
             w == WireOf(wire[g].link, out, in, host)
  <1>1. wire[g] \in Wires
    BY DEF WireTypeOK
  <1>2. out \in Seq(Asked) /\ in \in Seq(Told) /\ wire[g].link \in Links /\ host \in Hosts
    BY <1>1 DEF Wires, Hears, Hosts
  <1>3. in # <<>> => wire[g].in # <<>> \/ wire[g].link = "up"
    BY DEF Heard
  <1>4. wire' = [wire EXCEPT ![g] = WithHost(WithIn(WithOut(wire[g], out), in), host)]
    BY DEF Says, WithHost, WithIn, WithOut
  <1> HIDE DEF out, in
  <1>5. w \in Wires /\ w.link = wire[g].link /\ w.in = in
    BY <1>2, WireParts
  <1>6. WithHost(WithIn(WithOut(wire[g], out), in), host) = w
    <2>1. WithOut(wire[g], out) = WireOf(wire[g].link, out, wire[g].in, wire[g].host)
      BY <1>1, WireRecord
    <2>2. WithOut(wire[g], out) \in Wires
      BY <1>1, <1>2, <2>1, WireParts DEF Wires
    <2>3. WithIn(WithOut(wire[g], out), in) = WireOf(wire[g].link, out, in, wire[g].host)
      BY <2>1, <2>2, WireParts, WireRecord
    <2>4. WithIn(WithOut(wire[g], out), in) \in Wires
      BY <1>1, <1>2, <2>3, WireParts DEF Wires
    <2> QED
      BY <2>3, <2>4, WireParts, WireRecord
  <1>7. w.link \notin Began => w.in = <<>>
    BY <1>3, <1>5 DEF WireTypeOK, WireInvariant, Began
  <1>8. LinkMoves(wire[g].link, w.link)
    BY <1>5 DEF LinkMoves
  <1>9. wire' = [wire EXCEPT ![g] = w]
    BY <1>4, <1>6
  <1>10. WireStep /\ DOMAIN wire' = DOMAIN wire
    <2> HIDE DEF w
    <2> QED
      BY <1>5, <1>7, <1>8, <1>9, OneWire
  <1> QED
    BY <1>9, <1>10 DEF out, in

(* A transport gets a link, streams and a host. *)
LEMMA PutIsWireStep ==
    ASSUME WireTypeOK, NEW g \in DOMAIN wire, NEW link \in Links, NEW out \in Seq(Asked), NEW in \in Seq(Told),
           NEW host \in Hosts,
           wire' = [wire EXCEPT ![g] = WireOf(link, out, in, host)],
           LinkMoves(wire[g].link, link), link \notin Began => in = <<>>
    PROVE  WireStep /\ DOMAIN wire' = DOMAIN wire
  <1>1. PICK w \in Wires : w = WireOf(link, out, in, host) /\ w.link = link /\ w.in = in
    BY WireParts
  <1> QED
    BY <1>1, OneWire

(* What the host of a transport may turn to without a decision on who gets a session. *)
HostMoves(before, after) ==
    /\ before \notin {"waiting", "listening"} => after \notin {"waiting", "listening"}
    /\ before \in Undecided => after \in Undecided
    /\ after = "serving" => before = "serving"

Plain(g) ==
    Start(g) \/ Deinit(g) \/ Opens(g) \/ Lose(g) \/ AcksHello(g) \/ SaysGoodbye(g) \/ Notices(g)

(* The steps in which the host hears nothing. *)
LEMMA PlainIsWireStep ==
    ASSUME ClientInvariant, NEW g \in DOMAIN wire, Plain(g)
    PROVE  /\ WireStep /\ DOMAIN wire' = DOMAIN wire
           /\ \E link, out, in, host :
                 /\ wire' = [wire EXCEPT ![g] = WireOf(link, out, in, host)]
                 /\ out \in Prefixes(wire[g].out) \cup {wire[g].out}
                 /\ in \in Prefixes(wire[g].in) \cup
                           {wire[g].in, <<>>, <<[kind |-> "ack"]>>, Append(wire[g].in, [kind |-> "goodbye"])}
                 /\ auth => HostMoves(wire[g].host, host)
           /\ UNCHANGED <<clientVars, auth>>
  <1> DEFINE Fits(link, out, in, host) ==
                 /\ wire' = [wire EXCEPT ![g] = WireOf(link, out, in, host)]
                 /\ LinkMoves(wire[g].link, link)
                 /\ link \notin Began => in = <<>>
                 /\ out \in Prefixes(wire[g].out) \cup {wire[g].out}
                 /\ in \in Prefixes(wire[g].in) \cup
                           {wire[g].in, <<>>, <<[kind |-> "ack"]>>, Append(wire[g].in, [kind |-> "goodbye"])}
                 /\ auth => HostMoves(wire[g].host, host)
             Step == /\ \E link \in Links, out \in Seq(Asked), in \in Seq(Told), host \in Hosts :
                           Fits(link, out, in, host)
                     /\ UNCHANGED <<clientVars, auth>>
  <1>0. WireTypeOK /\ DOMAIN wire \subseteq Generations
    BY WireTypes DEF ClientInvariant, ClientTypeOK
  <1>1. /\ wire[g] \in Wires /\ (wire[g].link \notin Began => wire[g].in = <<>>)
        /\ wire[g].link \in Links /\ wire[g].out \in Seq(Asked) /\ wire[g].in \in Seq(Told)
        /\ wire[g].host \in Hosts
    BY <1>0 DEF WireTypeOK, WireInvariant, Wires
  <1>h. HostMoves(wire[g].host, wire[g].host)
    BY DEF HostMoves
  <1>2. ASSUME Start(g) PROVE Step
    <2>1. wire' = [wire EXCEPT ![g] = WithLink(wire[g], "opening")]
      BY <1>2 DEF Start, WithLink
    <2>2. wire' = [wire EXCEPT ![g] = WireOf("opening", wire[g].out, wire[g].in, wire[g].host)]
      BY <1>1, <2>1, WireRecord
    <2>3. wire[g].link = "fresh" /\ UNCHANGED <<clientVars, auth>>
      BY <1>2 DEF Start, networkVars
    <2>4. /\ LinkMoves(wire[g].link, "opening") /\ wire[g].in = <<>> /\ "opening" \in Links
      BY <1>1, <2>3 DEF LinkMoves, Began, Gone, Links
    <2>5. Fits("opening", wire[g].out, wire[g].in, wire[g].host)
      BY <1>1, <1>h, <2>2, <2>4
    <2> QED
      BY <1>1, <2>3, <2>4, <2>5
  <1>3. ASSUME Deinit(g) PROVE Step
    <2>1. wire' = [wire EXCEPT ![g] = WithIn(WithLink(wire[g], "closed"), <<>>)]
      BY <1>3 DEF Deinit, WithLink, WithIn
    <2>2. WithLink(wire[g], "closed") = WireOf("closed", wire[g].out, wire[g].in, wire[g].host)
      BY <1>1, WireRecord
    <2>3. "closed" \in Links /\ <<>> \in Seq(Told)
      BY DEF Links, Gone
    <2>4. WithIn(WithLink(wire[g], "closed"), <<>>) = WireOf("closed", wire[g].out, <<>>, wire[g].host)
      BY <1>1, <2>2, <2>3, WireParts, WireRecord
    <2>5. wire' = [wire EXCEPT ![g] = WireOf("closed", wire[g].out, <<>>, wire[g].host)]
      BY <2>1, <2>4
    <2>6. wire[g].link = "up" /\ UNCHANGED <<clientVars, auth>>
      BY <1>3 DEF Deinit, networkVars
    <2>7. LinkMoves(wire[g].link, "closed")
      BY <2>6 DEF LinkMoves, Began, Gone
    <2>8. Fits("closed", wire[g].out, <<>>, wire[g].host)
      BY <1>1, <1>h, <2>5, <2>7
    <2> QED
      BY <1>1, <2>3, <2>6, <2>8
  <1>4. ASSUME Opens(g) PROVE Step
    <2>1. PICK link \in {"up", "unopened"} : wire' = [wire EXCEPT ![g].link = link]
      BY <1>4 DEF Opens
    <2>2. wire' = [wire EXCEPT ![g] = WithLink(wire[g], link)]
      BY <2>1 DEF WithLink
    <2>3. wire' = [wire EXCEPT ![g] = WireOf(link, wire[g].out, wire[g].in, wire[g].host)]
      BY <1>1, <2>2, WireRecord
    <2>4. wire[g].link = "opening" /\ UNCHANGED <<clientVars, auth>>
      BY <1>4 DEF Opens, networkVars
    <2>5. LinkMoves(wire[g].link, link) /\ wire[g].in = <<>> /\ link \in Links
      BY <1>1, <2>4 DEF LinkMoves, Began, Gone, Links
    <2>6. Fits(link, wire[g].out, wire[g].in, wire[g].host)
      BY <1>1, <1>h, <2>3, <2>5
    <2> QED
      BY <1>1, <2>4, <2>5, <2>6
  <1>5. ASSUME Lose(g) PROVE Step
    <2>1. PICK out \in Prefixes(wire[g].out), in \in Prefixes(wire[g].in) :
               wire' = [wire EXCEPT ![g].link = "lost", ![g].out = out, ![g].in = in]
      BY <1>5 DEF Lose
    <2>2. out \in Seq(Asked) /\ in \in Seq(Told)
      BY <1>1, PrefixFacts
    <2>3. wire' = [wire EXCEPT ![g] = WithIn(WithOut(WithLink(wire[g], "lost"), out), in)]
      BY <2>1 DEF WithLink, WithOut, WithIn
    <2>4. WithLink(wire[g], "lost") = WireOf("lost", wire[g].out, wire[g].in, wire[g].host)
      BY <1>1, WireRecord
    <2>5. "lost" \in Links
      BY DEF Links, Gone
    <2>6. WithOut(WithLink(wire[g], "lost"), out) = WireOf("lost", out, wire[g].in, wire[g].host)
      BY <1>1, <2>4, <2>5, WireParts, WireRecord
    <2>7. WithIn(WithOut(WithLink(wire[g], "lost"), out), in) = WireOf("lost", out, in, wire[g].host)
      <3>1. WithOut(WithLink(wire[g], "lost"), out) \in Wires
        BY <1>1, <2>2, <2>5, <2>6, WireParts
      <3> QED
        BY <2>6, <3>1, WireParts, WireRecord
    <2>8. wire' = [wire EXCEPT ![g] = WireOf("lost", out, in, wire[g].host)]
      BY <2>3, <2>7
    <2>9. wire[g].link = "up" /\ UNCHANGED <<clientVars, auth>>
      BY <1>5 DEF Lose
    <2>10. LinkMoves(wire[g].link, "lost") /\ "lost" \in Began
      BY <2>9 DEF LinkMoves, Began, Gone
    <2>11. Fits("lost", out, in, wire[g].host)
      BY <1>1, <1>h, <2>1, <2>8, <2>10
    <2> QED
      BY <1>1, <2>2, <2>5, <2>9, <2>11
  <1>6. ASSUME AcksHello(g) PROVE Step
    <2> DEFINE in == IF Heard(g) THEN <<[kind |-> "ack"]>> ELSE wire[g].in
               host == IF auth THEN "listening" ELSE "serving"
    <2>1. wire[g].link = "up" /\ UNCHANGED <<clientVars, auth>>
      BY <1>6 DEF AcksHello, networkVars
    <2>2. /\ in \in Seq(Told) /\ host \in Hosts
          /\ in \in {wire[g].in, <<[kind |-> "ack"]>>}
          /\ auth => HostMoves(wire[g].host, host)
      BY <1>1, <1>6, MessageFacts DEF Hosts, HostMoves, AcksHello, Undecided
    <2>3. wire' = [wire EXCEPT ![g] = WithIn(WithHost(wire[g], host), in)]
      BY <1>6 DEF AcksHello, WithHost, WithIn
    <2> HIDE DEF in, host
    <2>4. WithHost(wire[g], host) = WireOf(wire[g].link, wire[g].out, wire[g].in, host)
      BY <1>1, WireRecord
    <2>5. WithIn(WithHost(wire[g], host), in) = WireOf(wire[g].link, wire[g].out, in, host)
      BY <1>1, <2>2, <2>4, WireParts, WireRecord
    <2>6. wire' = [wire EXCEPT ![g] = WireOf(wire[g].link, wire[g].out, in, host)]
      BY <2>3, <2>5
    <2>7. LinkMoves(wire[g].link, wire[g].link) /\ wire[g].link \in Began
      BY <2>1 DEF LinkMoves, Began
    <2>8. Fits(wire[g].link, wire[g].out, in, host)
      BY <1>1, <2>2, <2>6, <2>7
    <2> QED
      BY <1>1, <2>1, <2>2, <2>8
  <1>7. ASSUME SaysGoodbye(g) PROVE Step
    <2> DEFINE in == IF Heard(g) THEN Append(wire[g].in, [kind |-> "goodbye"]) ELSE wire[g].in
    <2>1. wire[g].link = "up" /\ UNCHANGED <<clientVars, auth>>
      BY <1>7 DEF SaysGoodbye, networkVars
    <2>2. /\ in \in Seq(Told) /\ "leaving" \in Hosts
          /\ in \in {wire[g].in, Append(wire[g].in, [kind |-> "goodbye"])}
          /\ HostMoves(wire[g].host, "leaving")
      BY <1>1, <1>7, MessageFacts DEF Hosts, HostMoves, SaysGoodbye, Undecided
    <2>3. wire' = [wire EXCEPT ![g] = WithHost(WithIn(wire[g], in), "leaving")]
      BY <1>7 DEF SaysGoodbye, WithHost, WithIn
    <2> HIDE DEF in
    <2>4. WithIn(wire[g], in) = WireOf(wire[g].link, wire[g].out, in, wire[g].host)
      BY <1>1, WireRecord
    <2>5. WithHost(WithIn(wire[g], in), "leaving") = WireOf(wire[g].link, wire[g].out, in, "leaving")
      BY <1>1, <2>2, <2>4, WireParts, WireRecord
    <2>6. wire' = [wire EXCEPT ![g] = WireOf(wire[g].link, wire[g].out, in, "leaving")]
      BY <2>3, <2>5
    <2>7. LinkMoves(wire[g].link, wire[g].link) /\ wire[g].link \in Began
      BY <2>1 DEF LinkMoves, Began
    <2>8. Fits(wire[g].link, wire[g].out, in, "leaving")
      BY <1>1, <2>2, <2>6, <2>7
    <2> QED
      BY <1>1, <2>1, <2>2, <2>8
  <1>8. ASSUME Notices(g) PROVE Step
    <2>1. wire' = [wire EXCEPT ![g] = WithHost(wire[g], "over")]
      BY <1>8 DEF Notices, WithHost
    <2>2. wire' = [wire EXCEPT ![g] = WireOf(wire[g].link, wire[g].out, wire[g].in, "over")]
      BY <1>1, <2>1, WireRecord
    <2>3. LinkMoves(wire[g].link, wire[g].link) /\ HostMoves(wire[g].host, "over") /\ "over" \in Hosts
      BY DEF LinkMoves, HostMoves, Hosts, Undecided
    <2>4. UNCHANGED <<clientVars, auth>>
      BY <1>8 DEF Notices
    <2>5. Fits(wire[g].link, wire[g].out, wire[g].in, "over")
      BY <1>1, <2>2, <2>3
    <2> QED
      BY <1>1, <2>3, <2>4, <2>5
  <1>9. Step
    BY <1>2, <1>3, <1>4, <1>5, <1>6, <1>7, <1>8 DEF Plain
  <1>10. PICK link \in Links, out \in Seq(Asked), in \in Seq(Told), host \in Hosts : Fits(link, out, in, host)
    BY <1>9
  <1>11. WireStep /\ DOMAIN wire' = DOMAIN wire
    BY <1>0, <1>10, PutIsWireStep
  <1> QED
    BY <1>9, <1>10, <1>11

(* Every step of the network or the host. *)
LEMMA NetworkIsWireStep ==
    ASSUME ClientInvariant, NEW g \in DOMAIN wire, Network(g)
    PROVE  /\ WireStep /\ DOMAIN wire' = DOMAIN wire
           /\ UNCHANGED <<clientVars, auth>>
  <1>0. WireTypeOK /\ DOMAIN wire \subseteq Generations
    BY WireTypes DEF ClientInvariant, ClientTypeOK
  <1>2. CASE Admits(g)
    <2>1. Ok(g, g) \in Seq(Told) /\ No \in Seq(Told)
      BY <1>0, MessageFacts DEF Ok, No
    <2>2. Serving(g) \in {"serving", "cut"}
      BY DEF Serving
    <2> QED
      BY <1>0, <1>2, <2>1, <2>2, SaysIsWireStep DEF Admits
  <1>3. CASE Resumes(g)
    <2>1. No \in Seq(Told) /\ \A s \in Generations : Ok(s, g) \in Seq(Told)
      BY <1>0, MessageFacts DEF Ok, No
    <2>2. Serving(g) \in {"serving", "cut"}
      BY DEF Serving
    <2>3. \E m \in Seq(Told), host \in {"serving", "cut", "over"} : Says(g, m, host)
      BY <1>3, <2>1, <2>2 DEF Resumes
    <2> QED
      BY <1>0, <1>3, <2>3, SaysIsWireStep DEF Resumes
  <1>4. CASE HearsGoodbye(g)
    <2>1. <<>> \in Seq(Told)
      OBVIOUS
    <2> QED
      BY <1>0, <1>4, <2>1, SaysIsWireStep DEF HearsGoodbye
  <1> QED
    BY <1>2, <1>3, <1>4, PlainIsWireStep DEF Network, Plain

(* NetworkFrameworkQuicClient.close touches the transport the task gave up. *)
LEMMA CloseFacts ==
    ASSUME ClientInvariant, NEW c \in DOMAIN task, Close(c)
    PROVE  /\ task[c].on \in DOMAIN wire
           /\ \E close \in {"plain", "queued", "done"} :
                 /\ task' = [task EXCEPT ![c] = Task(task[c].at, task[c].on, close, task[c].token)]
                 /\ close = "queued" => task[c].close = "goodbye"
           /\ \E link \in Links, out \in Seq(Asked), in \in Seq(Told) :
                 /\ wire' = [wire EXCEPT ![task[c].on] = WireOf(link, out, in, On(c).host)]
                 /\ LinkMoves(On(c).link, link)
                 /\ link \notin Began => in = <<>>
                 /\ in \in Prefixes(On(c).in) \cup {On(c).in}
                 /\ \/ out \in Prefixes(On(c).out) \cup {On(c).out}
                    \/ out = Append(On(c).out, [kind |-> "goodbye"])
           /\ UNCHANGED <<state, sessionVars, transportVars, overtaken, networkVars>>
  <1> DEFINE g == task[c].on
             w == wire[g]
             Now(v, close) == wire' = [wire EXCEPT ![g] = v] /\ Put(c, [task[c] EXCEPT !.close = close])
             SomeTask == \E close \in {"plain", "queued", "done"} :
                 /\ task' = [task EXCEPT ![c] = Task(task[c].at, task[c].on, close, task[c].token)]
                 /\ close = "queued" => task[c].close = "goodbye"
             Fits(link, out, in) ==
                 /\ wire' = [wire EXCEPT ![g] = WireOf(link, out, in, w.host)]
                 /\ LinkMoves(w.link, link)
                 /\ link \notin Began => in = <<>>
                 /\ in \in Prefixes(w.in) \cup {w.in}
                 /\ \/ out \in Prefixes(w.out) \cup {w.out}
                    \/ out = Append(w.out, [kind |-> "goodbye"])
             SomeWire == \E link \in Links, out \in Seq(Asked), in \in Seq(Told) : Fits(link, out, in)
  <1>0. task[c] \in Tasks /\ WireTypeOK /\ PlaceFits(c)
    BY WireTypes DEF ClientInvariant, ClientTypeOK, TaskInvariant
  <1>1. g \in DOMAIN wire
    BY <1>0 DEF PlaceFits, Close
  <1>2. /\ w \in Wires /\ (w.link \notin Began => w.in = <<>>)
        /\ w.link \in Links /\ w.out \in Seq(Asked) /\ w.in \in Seq(Told)
    BY <1>0, <1>1 DEF WireTypeOK, WireInvariant, Wires
  <1>3. ASSUME NEW v, NEW close \in {"plain", "queued", "done"}, Now(v, close),
               close = "queued" => task[c].close = "goodbye"
        PROVE  SomeTask
    <2>1. task' = [task EXCEPT ![c] = TaskClosing(task[c], close)]
      BY <1>3 DEF Put, TaskClosing
    <2>2. task' = [task EXCEPT ![c] = Task(task[c].at, task[c].on, close, task[c].token)]
      BY <1>0, <2>1, TaskRecord
    <2> QED
      BY <1>3, <2>2
  <1>4. w = WireOf(w.link, w.out, w.in, w.host)
    BY <1>2, WireRecord
  <1>5. ASSUME NEW close, Now(w, close) PROVE SomeWire
    <2>1. wire' = [wire EXCEPT ![g] = WireOf(w.link, w.out, w.in, w.host)]
      BY <1>4, <1>5
    <2>2. Fits(w.link, w.out, w.in)
      BY <1>2, <2>1 DEF LinkMoves
    <2> QED
      BY <1>2, <2>2
  <1>6. CASE w.link = "up" /\ Now([w EXCEPT !.out = Append(@, [kind |-> "goodbye"])], "plain")
    <2> DEFINE out == Append(w.out, [kind |-> "goodbye"])
    <2>1. out \in Seq(Asked)
      BY <1>2, MessageFacts
    <2>2. wire' = [wire EXCEPT ![g] = WithOut(w, out)]
      BY <1>6 DEF WithOut
    <2>3. wire' = [wire EXCEPT ![g] = WireOf(w.link, out, w.in, w.host)]
      BY <1>2, <2>2, WireRecord
    <2>4. Fits(w.link, out, w.in)
      BY <1>2, <2>3 DEF LinkMoves
    <2>5. SomeWire
      BY <1>2, <2>1, <2>4
    <2> QED
      BY <1>1, <1>3, <1>6, <2>5 DEF Close, On
  <1>7. CASE task[c].close = "goodbye" /\ Now(w, "queued")
    BY <1>1, <1>3, <1>5, <1>7 DEF Close, On
  <1>8. CASE Now(w, "done")
    BY <1>1, <1>3, <1>5, <1>8 DEF Close, On
  <1>9. CASE w.link = "opening" /\ Now([w EXCEPT !.link = "unopened"], "done")
    <2>1. wire' = [wire EXCEPT ![g] = WithLink(w, "unopened")]
      BY <1>9 DEF WithLink
    <2>2. wire' = [wire EXCEPT ![g] = WireOf("unopened", w.out, w.in, w.host)]
      BY <1>2, <2>1, WireRecord
    <2>3. "unopened" \in Links /\ Fits("unopened", w.out, w.in)
      BY <1>2, <1>9, <2>2 DEF LinkMoves, Began, Gone, Links
    <2>4. SomeWire
      BY <1>2, <2>3
    <2> QED
      BY <1>1, <1>3, <1>9, <2>4 DEF Close, On
  <1>10. CASE /\ w.link = "up"
              /\ \E out \in Prefixes(w.out), in \in Prefixes(w.in) :
                    Now([w EXCEPT !.link = "closed", !.out = out, !.in = in], "done")
    <2>1. PICK out \in Prefixes(w.out), in \in Prefixes(w.in) :
               Now([w EXCEPT !.link = "closed", !.out = out, !.in = in], "done")
      BY <1>10
    <2>2. out \in Seq(Asked) /\ in \in Seq(Told) /\ "closed" \in Links /\ "closed" \in Began
      BY <1>2, PrefixFacts DEF Links, Gone, Began
    <2>3. wire' = [wire EXCEPT ![g] = WithIn(WithOut(WithLink(w, "closed"), out), in)]
      BY <2>1 DEF WithLink, WithOut, WithIn
    <2>4. WithLink(w, "closed") = WireOf("closed", w.out, w.in, w.host) /\ WithLink(w, "closed") \in Wires
      <3>1. WithLink(w, "closed") = WireOf("closed", w.out, w.in, w.host)
        BY <1>2, WireRecord
      <3>2. w.host \in Hosts
        BY <1>2 DEF Wires
      <3> QED
        BY <1>2, <2>2, <3>1, <3>2, WireParts
    <2>5. WithOut(WithLink(w, "closed"), out) = WireOf("closed", out, w.in, w.host)
      BY <1>2, <2>4, WireParts, WireRecord
    <2>6. WithOut(WithLink(w, "closed"), out) \in Wires
      BY <1>2, <2>2, <2>5, WireParts DEF Wires
    <2>7. WithIn(WithOut(WithLink(w, "closed"), out), in) = WireOf("closed", out, in, w.host)
      BY <2>5, <2>6, WireParts, WireRecord
    <2>8. wire' = [wire EXCEPT ![g] = WireOf("closed", out, in, w.host)]
      BY <2>3, <2>7
    <2>9. Fits("closed", out, in)
      BY <1>10, <2>2, <2>8 DEF LinkMoves, Began, Gone
    <2>10. SomeWire
      BY <2>2, <2>9
    <2> QED
      BY <1>1, <1>3, <2>1, <2>10 DEF Close, On
  <1>11. \/ w.link = "up" /\ Now([w EXCEPT !.out = Append(@, [kind |-> "goodbye"])], "plain")
         \/ task[c].close = "goodbye" /\ Now(w, "queued")
         \/ Now(w, "done")
         \/ w.link = "opening" /\ Now([w EXCEPT !.link = "unopened"], "done")
         \/ /\ w.link = "up"
            /\ \E out \in Prefixes(w.out), in \in Prefixes(w.in) :
                  Now([w EXCEPT !.link = "closed", !.out = out, !.in = in], "done")
    BY DEF Close, On
  <1> QED
    BY <1>6, <1>7, <1>8, <1>9, <1>10, <1>11

(* A close leaves the session alone. *)
LEMMA CloseIsQuiet ==
    ASSUME ClientInvariant, NEW c \in DOMAIN task, Close(c)
    PROVE  Quiet
  <1>0. task[c] \in Tasks /\ WireTypeOK /\ PlaceFits(c) /\ task \in [DOMAIN task -> Tasks]
    BY WireTypes DEF ClientInvariant, ClientTypeOK, TaskInvariant
  <1>1. task[c].on \in DOMAIN wire /\ UNCHANGED <<state, sessionVars, transportVars, overtaken, networkVars>>
    BY CloseFacts
  <1>2. PICK close \in {"plain", "queued", "done"} :
                 /\ task' = [task EXCEPT ![c] = Task(task[c].at, task[c].on, close, task[c].token)]
                 /\ close = "queued" => task[c].close = "goodbye"
    BY CloseFacts
  <1>3. WireStep /\ DOMAIN wire' = DOMAIN wire
    <2>1. On(c).host \in Hosts
      BY <1>0, <1>1 DEF On, WireTypeOK, Wires
    <2> QED
      BY <1>0, <1>1, <2>1, CloseFacts, PutIsWireStep DEF On
  <1>4. PICK t \in Tasks : /\ t = Task(task[c].at, task[c].on, close, task[c].token)
                           /\ t.at = task[c].at /\ t.on = task[c].on /\ t.close = close
                           /\ t.token = task[c].token
    BY <1>0, TaskParts DEF Tasks
  <1>5. task' = [task EXCEPT ![c] = t]
    BY <1>2, <1>4
  <1>6. task[c].close # "done" /\ (close = "queued" => task[c].close = "goodbye")
    BY <1>2 DEF Close
  <1>7. \A d \in DOMAIN task :
          /\ task'[d].at = task[d].at /\ task'[d].on = task[d].on /\ task'[d].token = task[d].token
          /\ task[d].close = "done" => task'[d] = task[d]
          /\ task'[d].close \in {"goodbye", "queued"} => task[d].close \in {"goodbye", "queued"}
    BY <1>0, <1>4, <1>5, <1>6
  <1>8. DOMAIN task' = DOMAIN task /\ task' \in [DOMAIN task -> Tasks]
    BY <1>0, <1>4, <1>5
  <1> QED
    BY <1>1, <1>3, <1>7, <1>8 DEF Quiet, sessionVars, transportVars, networkVars

(* What a cancelled call was to receive is cut off. *)
LEMMA CancelConnectIsQuiet ==
    ASSUME ClientInvariant, NEW c \in Calls, CancelConnect(c)
    PROVE  /\ Quiet
           /\ \/ wire' = wire
              \/ /\ task[c].on \in DOMAIN wire
                 /\ \E in \in Prefixes(On(c).in) :
                       wire' = [wire EXCEPT ![task[c].on] = WireOf(On(c).link, On(c).out, in, On(c).host)]
  <1>0. /\ WireTypeOK /\ c \in DOMAIN task /\ PlaceFits(c) /\ task \in [DOMAIN task -> Tasks]
    BY WireTypes DEF ClientInvariant, ClientTypeOK, TaskInvariant
  <1>1. /\ UNCHANGED <<state, sessionVars, transport, generation, monitor, overtaken, task, networkVars>>
        /\ cancelled' = cancelled \cup {c} /\ c \in Connects
    BY DEF CancelConnect
  <1>2. ASSUME WireStep, DOMAIN wire' = DOMAIN wire PROVE Quiet
    BY <1>0, <1>1, <1>2 DEF Quiet, sessionVars, networkVars
  <1>3. CASE wire' = wire
    BY <1>0, <1>2, <1>3, SameWire
  <1>4. CASE wire' # wire
    <2> DEFINE g == task[c].on
               w == wire[g]
    <2>1. task[c].at \in {"open", "result"}
      BY <1>4 DEF CancelConnect
    <2>2. PICK in \in Prefixes(w.in) : wire' = [wire EXCEPT ![g].in = in]
      BY <2>1 DEF CancelConnect, On
    <2>3. g \in DOMAIN wire
      BY <1>0, <2>1 DEF PlaceFits, Shaking
    <2>4. /\ w \in Wires /\ (w.link \notin Began => w.in = <<>>)
          /\ w.link \in Links /\ w.out \in Seq(Asked) /\ w.in \in Seq(Told)
          /\ w.host \in Hosts
      BY <1>0, <2>3 DEF WireTypeOK, WireInvariant, Wires
    <2>5. wire' = [wire EXCEPT ![g] = WithIn(w, in)]
      BY <2>2 DEF WithIn
    <2>6. wire' = [wire EXCEPT ![g] = WireOf(w.link, w.out, in, w.host)]
      BY <2>4, <2>5, WireRecord
    <2>7. in \in Seq(Told) /\ Len(in) <= Len(w.in) /\ (w.in = <<>> => in = <<>>)
      <3>1. in \in Seq(Told) /\ Len(in) <= Len(w.in)
        BY <2>4, PrefixFacts
      <3>2. w.in = <<>> => Len(in) = 0
        BY <2>4, <3>1
      <3> QED
        BY <3>1, <3>2
    <2>8. LinkMoves(w.link, w.link) /\ (w.link \notin Began => in = <<>>)
      BY <2>4, <2>7 DEF LinkMoves
    <2>9. WireStep /\ DOMAIN wire' = DOMAIN wire
      BY <1>0, <2>3, <2>4, <2>6, <2>7, <2>8, PutIsWireStep
    <2> QED
      BY <1>2, <2>3, <2>6, <2>9 DEF On
  <1> QED
    BY <1>3, <1>4

-----------------------------------------------------------------------------
(* What a task does *)

(* A task goes on to another place, which fits it, and the others keep theirs. *)
LEMMA PutTasks ==
    ASSUME ClientInvariant, WireStep, NEW c \in DOMAIN task, NEW t \in Tasks,
           task' = [task EXCEPT ![c] = t],
           overtaken => overtaken',
           PlaceFits(c)', ShakesAlone(c)', MonitorFits(c)', Watches(c)',
           \A d \in DOMAIN task : d # c =>
              /\ task[d].at \in Shaking /\ task[d].on = generation' => transport' = generation'
              /\ task[d].at = "watch" /\ ~overtaken' => d = monitor' \/ (d \in cancelled' /\ d # generation')
    PROVE  TaskInvariant'
  <1>0. /\ task \in [DOMAIN task -> Tasks] /\ DOMAIN task \subseteq Calls \cup DOMAIN wire
        /\ TaskInvariant
    BY DEF ClientInvariant, ClientTypeOK
  <1>1. /\ DOMAIN task' = DOMAIN task /\ task'[c] = t
        /\ \A d \in DOMAIN task : d # c => task'[d] = task[d]
    BY <1>0
  <1> SUFFICES ASSUME NEW d \in DOMAIN task, d # c
               PROVE  PlaceFits(d)' /\ ShakesAlone(d)' /\ MonitorFits(d)' /\ Watches(d)'
    BY <1>1 DEF TaskInvariant
  <1>2. PlaceFits(d) /\ ShakesAlone(d) /\ MonitorFits(d) /\ Watches(d) /\ task'[d] = task[d]
    BY <1>0, <1>1 DEF TaskInvariant
  <1>3. PlaceFits(d)'
    BY <1>2 DEF PlaceFits, WireStep, Idle, Ended, Task
  <1>4. ShakesAlone(d)'
    <2>1. ASSUME task[d].at \in Shaking, t.at \in Shaking PROVE t.on # task[d].on
      BY <1>1, <1>2, <2>1 DEF ShakesAlone
    <2> QED
      BY <1>1, <1>2, <2>1 DEF ShakesAlone
  <1>5. MonitorFits(d)'
    <2>1. IsMonitor(d) => d \in DOMAIN wire
      BY <1>0 DEF IsMonitor
    <2> QED
      BY <1>2, <2>1 DEF MonitorFits, WireStep, LinkMoves
  <1>6. Watches(d)'
    <2>1. task[d].at = "watch" => d \in DOMAIN wire
      BY <1>2 DEF PlaceFits, Watches
    <2> QED
      BY <1>2, <2>1 DEF Watches, WireStep, LinkMoves
  <1> QED
    BY <1>3, <1>4, <1>5, <1>6

(* A task gives the transport of the moment up, and will say what becomes of it. *)
LEMMA InvalidateKeeps ==
    ASSUME ClientInvariant, NEW c \in DOMAIN task, NEW place \in Closing, NEW close \in {"plain", "goodbye"},
           Invalidate(c, place, close), auth' = auth, binding' = binding,
           known' \in BOOLEAN, user' \in BOOLEAN,
           state' \in {state, "error"},
           place = "enter" => c \in Connects,
           place \in {"failed", "unopened", "refused"} => c \notin Disconnects \cup Drops,
           close = "goodbye" => place = "leave" /\ c \in Disconnects,
           WillSay(c) => place \in {"failed", "unopened", "refused"}
    PROVE  ClientInvariant'
  <1> DEFINE t == Task(place, transport, close, task[c].token)
  <1>0. /\ ClientTypeOK /\ TaskInvariant /\ MonitorInvariant /\ StateInvariant /\ WireTypeOK
        /\ task \in [DOMAIN task -> Tasks] /\ task[c] \in Tasks
    BY WireTypes DEF ClientInvariant, ClientTypeOK
  <1>1. /\ transport # 0 /\ transport' = 0 /\ generation' = generation + 1 /\ monitor' = 0
        /\ cancelled' = cancelled \cup ({monitor} \ {0})
        /\ task' = [task EXCEPT ![c] = t] /\ wire' = wire /\ overtaken' = overtaken
    BY DEF Invalidate, CancelMonitor, Put
  <1>2. transport \in DOMAIN wire /\ transport = generation /\ generation \in Nat
    BY <1>0, <1>1 DEF ClientTypeOK
  <1>3. /\ t \in Tasks
        /\ t.at = place /\ t.on = transport /\ t.close = close
    BY <1>0, <1>2, TaskParts DEF Places, Closing, Tasks
  <1> HIDE DEF t
  <1>4. /\ DOMAIN task' = DOMAIN task /\ task'[c] = t /\ task' \in [DOMAIN task -> Tasks]
        /\ \A d \in DOMAIN task : d # c => task'[d] = task[d]
    BY <1>0, <1>1, <1>3
  <1>5. WireStep /\ WireInvariant'
    BY <1>0, <1>1, SameWire DEF WireStep
  <1>6. ClientTypeOK'
    <2>1. monitor # 0 => monitor \in DOMAIN task
      BY <1>0 DEF MonitorInvariant
    <2>2. state' \in {"disconnected", "connecting", "authenticating", "resuming", "connected", "error"}
      BY <1>0 DEF ClientTypeOK
    <2>3. \A g \in DOMAIN wire : g <= generation + 1
      BY <1>0, ClientAssumption DEF ClientTypeOK, Generations
    <2> QED
      BY <1>0, <1>1, <1>2, <1>4, <2>1, <2>2, <2>3 DEF ClientTypeOK
  <1>7. \A d \in DOMAIN task :
           /\ task[d].at \in Shaking \cup {"watch"} => task[d].on \in DOMAIN wire /\ task[d].on # generation + 1
           /\ task[d].at = "watch" => d = task[d].on
    <2>1. \A g \in DOMAIN wire : g # generation + 1
      BY <1>0, <1>2, ClientAssumption DEF ClientTypeOK, Generations
    <2>2. \A d \in DOMAIN task : PlaceFits(d) /\ Watches(d)
      BY <1>0 DEF TaskInvariant
    <2> QED
      BY <2>1, <2>2 DEF PlaceFits, Watches
  <1>8. TaskInvariant'
    <2>1. PlaceFits(c)' /\ ShakesAlone(c)' /\ MonitorFits(c)' /\ Watches(c)'
      BY <1>1, <1>2, <1>3, <1>4 DEF PlaceFits, ShakesAlone, MonitorFits, Watches, Closing, Shaking
    <2>2. ASSUME NEW d \in DOMAIN task, d # c, task[d].at = "watch", ~overtaken'
          PROVE  d \in cancelled' /\ d # generation'
      <3>1. ~overtaken => d = monitor \/ d \in cancelled
        BY <1>0, <2>2 DEF TaskInvariant, Watches
      <3>2. monitor \in {0} \cup DOMAIN wire /\ 0 \notin DOMAIN wire
        BY <1>0, ClientAssumption DEF ClientTypeOK, Generations
      <3> QED
        BY <1>1, <1>7, <2>2, <3>1, <3>2
    <2>3. \A d \in DOMAIN task : d # c =>
              /\ task[d].at \in Shaking /\ task[d].on = generation' => transport' = generation'
              /\ task[d].at = "watch" /\ ~overtaken' => d = monitor' \/ (d \in cancelled' /\ d # generation')
      BY <1>1, <1>7, <2>2
    <2> QED
      BY <1>1, <1>3, <1>5, <2>1, <2>3, PutTasks
  <1>9. MonitorInvariant'
    BY <1>1 DEF MonitorInvariant
  <1>10. StateInvariant'
    <2>1. state' \in Trying => \E d \in DOMAIN task' : WillSay(d)'
      <3>1. state' \in Trying => \E d \in DOMAIN task : WillSay(d)
        BY <1>0 DEF StateInvariant, Trying
      <3>2. \A d \in DOMAIN task : WillSay(d) => WillSay(d)'
        BY <1>3, <1>4 DEF WillSay
      <3> QED
        BY <1>4, <3>1, <3>2
    <2>2. ASSUME ~overtaken', state' = "connected" PROVE GivesUp(c)'
      <3>1. transport = monitor
        BY <1>0, <1>1, <2>2 DEF StateInvariant
      <3>2. wire[monitor].link \in Began
        BY <1>0, <1>1, <2>2, <3>1 DEF MonitorInvariant, TaskInvariant, Watches
      <3> QED
        BY <1>1, <1>3, <1>4, <3>1, <3>2 DEF GivesUp, On
    <2> QED
      BY <1>1, <1>4, <2>1, <2>2 DEF StateInvariant
  <1> QED
    BY <1>5, <1>6, <1>8, <1>9, <1>10 DEF ClientInvariant

(* A task opens a transport, which is then the one that counts. *)
LEMMA OpenTransportKeeps ==
    ASSUME ClientInvariant, NEW c \in DOMAIN task, c \notin Disconnects \cup Drops, NEW token \in Nat,
           OpenTransport(c, token), auth' = auth,
           binding' \in SUBSET [session : Nat, token : Nat],
           known' \in BOOLEAN, user' \in BOOLEAN, overtaken' \in BOOLEAN, overtaken => overtaken',
           state' \in {"connecting", "resuming"},
           cancelled \subseteq cancelled', cancelled' \subseteq DOMAIN task,
           monitor' \in {0, monitor}, monitor' # 0 => ~user',
           ~overtaken' => monitor' = 0,
           ~overtaken' => \A d \in DOMAIN task : d # c /\ task[d].at = "watch" => d \in cancelled',
           IsMonitor(c) => token # NoToken /\ (~overtaken' => wire[c].link \in Gone)
    PROVE  ClientInvariant'
  <1> DEFINE g == generation + 1
             t == Task("open", g, "done", token)
  <1>0. /\ ClientTypeOK /\ TaskInvariant /\ MonitorInvariant /\ StateInvariant /\ WireTypeOK
        /\ task \in [DOMAIN task -> Tasks] /\ generation \in Nat
    BY WireTypes DEF ClientInvariant, ClientTypeOK
  <1>1. /\ generation < MaxGeneration /\ generation' = g /\ transport' = g
        /\ wire' = With(wire, g, NewWire) /\ task' = [task EXCEPT ![c] = t]
    BY DEF OpenTransport, Put
  <1>2. g \in Generations /\ g \in Nat /\ g # 0 /\ g > generation
    BY <1>0, <1>1, ClientAssumption DEF Generations
  <1>3. t \in Tasks /\ t.at = "open" /\ t.on = g /\ t.close = "done" /\ t.token = token
    BY <1>2, TaskParts DEF Places
  <1> HIDE DEF t
  <1>4. /\ DOMAIN task' = DOMAIN task /\ task'[c] = t /\ task' \in [DOMAIN task -> Tasks]
        /\ \A d \in DOMAIN task : d # c => task'[d] = task[d]
    BY <1>0, <1>1, <1>3
  <1>5. \A h \in DOMAIN wire : h \in Nat /\ h # 0 /\ h <= generation /\ h < g
    BY <1>0, ClientAssumption DEF ClientTypeOK, Generations
  <1>6. WireStep /\ WireInvariant' /\ DOMAIN wire' = DOMAIN wire \cup {g} /\ wire'[g] = NewWire
    <2>1. g \notin DOMAIN wire
      BY <1>5
    <2> HIDE DEF g
    <2>2. WireStep /\ DOMAIN wire' = DOMAIN wire \cup {g} /\ wire'[g] = NewWire
      BY <1>0, <1>1, <2>1, NewOne
    <2> QED
      BY <2>2 DEF WireStep
  <1>7. g \notin DOMAIN task
    BY <1>0, <1>2, <1>5, MonitorFacts DEF ClientTypeOK
  <1>8. monitor \in Nat /\ monitor # g
    BY <1>0, <1>2, <1>5 DEF ClientTypeOK
  <1> HIDE DEF g
  <1>9. ClientTypeOK'
    <2>1. DOMAIN wire \cup {g} \subseteq Generations /\ \A h \in DOMAIN wire \cup {g} : h <= g
      BY <1>0, <1>2, <1>5 DEF ClientTypeOK
    <2>2. monitor' \in {0} \cup DOMAIN wire'
      BY <1>0, <1>6 DEF ClientTypeOK
    <2>3. state' \in {"disconnected", "connecting", "authenticating", "resuming", "connected", "error"}
      OBVIOUS
    <2>4. Calls \subseteq DOMAIN task' /\ DOMAIN task' \subseteq Calls \cup DOMAIN wire'
      BY <1>0, <1>4, <1>6 DEF ClientTypeOK
    <2>5. auth' \in BOOLEAN
      BY <1>0 DEF ClientTypeOK
    <2>6. wire' \in [DOMAIN wire' -> Wires]
      BY <1>6 DEF WireStep
    <2> QED
      BY <1>1, <1>2, <1>4, <1>6, <2>1, <2>2, <2>3, <2>4, <2>5, <2>6 DEF ClientTypeOK
  <1>10. \A d \in DOMAIN task : task[d].at \in Shaking => task[d].on # g
    <2>1. \A d \in DOMAIN task : PlaceFits(d)
      BY <1>0 DEF TaskInvariant
    <2> QED
      BY <1>5, <2>1 DEF PlaceFits
  <1>11. TaskInvariant'
    <2>1. PlaceFits(c)'
      BY <1>3, <1>4, <1>6 DEF PlaceFits, Closing, Shaking
    <2>2. ShakesAlone(c)'
      BY <1>1, <1>3, <1>4, <1>7, <1>10 DEF ShakesAlone
    <2>3. MonitorFits(c)'
      <3>1. IsMonitor(c) => c \in DOMAIN wire
        BY <1>0 DEF IsMonitor, ClientTypeOK
      <3> QED
        BY <1>3, <1>4, <1>6, <3>1 DEF MonitorFits, WireStep, LinkMoves
    <2>4. Watches(c)'
      BY <1>3, <1>4 DEF Watches
    <2>5. ASSUME NEW d \in DOMAIN task, d # c, task[d].at = "watch"
          PROVE  d # g
      BY <1>7, <2>5
    <2>6. \A d \in DOMAIN task : d # c =>
              /\ task[d].at \in Shaking /\ task[d].on = generation' => transport' = generation'
              /\ task[d].at = "watch" /\ ~overtaken' => d = monitor' \/ (d \in cancelled' /\ d # generation')
      BY <1>1, <2>5
    <2> QED
      BY <1>1, <1>3, <1>6, <2>1, <2>2, <2>3, <2>4, <2>6, PutTasks
  <1>12. MonitorInvariant'
    BY <1>0, <1>4 DEF MonitorInvariant
  <1>13. StateInvariant'
    <2>1. WillSay(c)' /\ task'[c].at \in Shaking /\ task'[c].on = transport'
      BY <1>1, <1>3, <1>4 DEF WillSay, Shaking
    <2>2. transport' # monitor' /\ transport' # 0
      BY <1>1, <1>2, <1>8
    <2> QED
      BY <1>4, <2>1, <2>2 DEF StateInvariant
  <1> QED
    BY <1>6, <1>9, <1>11, <1>12, <1>13 DEF ClientInvariant

(* A task ends, and says so unless it has nothing to say. *)
LEMMA EndKeeps ==
    ASSUME ClientInvariant, NEW c \in DOMAIN task, Put(c, Ended), UNCHANGED <<auth, wire, generation>>,
           binding' \in SUBSET [session : Nat, token : Nat],
           known' \in BOOLEAN, user' \in BOOLEAN, overtaken' \in BOOLEAN, overtaken => overtaken',
           transport' = transport, cancelled \subseteq cancelled', cancelled' \subseteq DOMAIN task,
           monitor' \in {0, monitor}, monitor' # 0 => ~user', task[c].at # "watch",
           \/ state' \in {"error", "disconnected"} /\ (transport # 0 => overtaken')
           \/ UNCHANGED <<state, monitor, cancelled, overtaken>> /\ task[c].at = "drop"
    PROVE  ClientInvariant'
  <1>0. /\ ClientTypeOK /\ TaskInvariant /\ MonitorInvariant /\ StateInvariant /\ WireTypeOK
        /\ task \in [DOMAIN task -> Tasks]
    BY WireTypes DEF ClientInvariant, ClientTypeOK
  <1>1. Ended \in Tasks /\ Ended.at = "ended" /\ Ended.on = 0 /\ Ended.close = "done"
    BY TaskParts DEF Ended, Places, NoToken
  <1>2. /\ DOMAIN task' = DOMAIN task /\ task'[c] = Ended /\ task' \in [DOMAIN task -> Tasks]
        /\ \A d \in DOMAIN task : d # c => task'[d] = task[d]
    BY <1>0, <1>1 DEF Put
  <1>3. WireStep /\ WireInvariant'
    BY <1>0, SameWire DEF WireStep
  <1>4. ClientTypeOK'
    <2>1. state' \in {"disconnected", "connecting", "authenticating", "resuming", "connected", "error"}
      BY <1>0 DEF ClientTypeOK
    <2> QED
      BY <1>0, <1>2, <2>1 DEF ClientTypeOK
  <1>5. ~overtaken' => \/ transport = 0 /\ monitor = 0
                       \/ UNCHANGED <<state, monitor, cancelled, overtaken>> /\ task[c].at = "drop"
    BY <1>0 DEF MonitorInvariant
  <1>6. TaskInvariant'
    <2>1. PlaceFits(c)' /\ ShakesAlone(c)' /\ MonitorFits(c)' /\ Watches(c)'
      BY <1>1, <1>2 DEF PlaceFits, ShakesAlone, MonitorFits, Watches, Closing, Shaking
    <2>2. ASSUME NEW d \in DOMAIN task, d # c
          PROVE  /\ task[d].at \in Shaking /\ task[d].on = generation' => transport' = generation'
                 /\ task[d].at = "watch" /\ ~overtaken' => d = monitor' \/ (d \in cancelled' /\ d # generation')
      <3>1. ShakesAlone(d) /\ Watches(d) /\ PlaceFits(d)
        BY <1>0 DEF TaskInvariant
      <3>2. task[d].at = "watch" => d \in DOMAIN wire
        BY <3>1 DEF Watches, PlaceFits
      <3>3. 0 \notin DOMAIN wire
        BY <1>0, ClientAssumption DEF ClientTypeOK, Generations
      <3> QED
        BY <1>5, <3>1, <3>2, <3>3 DEF ShakesAlone, Watches
    <2> QED
      BY <1>1, <1>3, <2>1, <2>2, PutTasks DEF Put
  <1>7. MonitorInvariant'
    <2>1. ~overtaken' /\ monitor' # 0 => UNCHANGED <<monitor, cancelled, overtaken>> /\ monitor # c
      BY <1>0, <1>5 DEF MonitorInvariant
    <2> QED
      BY <1>0, <1>2, <2>1 DEF MonitorInvariant
  <1>8. StateInvariant'
    <2>1. CASE state' \in {"error", "disconnected"} /\ (transport # 0 => overtaken')
      BY <2>1 DEF StateInvariant, Trying
    <2>2. CASE UNCHANGED <<state, monitor, cancelled, overtaken>> /\ task[c].at = "drop"
      <3>1. ~WillSay(c) /\ ~GivesUp(c) /\ task[c].at \notin Shaking
        BY <2>2 DEF WillSay, GivesUp, Shaking, Closing
      <3>2. \A d \in DOMAIN task : d # c => /\ WillSay(d)' <=> WillSay(d)
                                            /\ GivesUp(d)' <=> GivesUp(d)
        BY <1>2 DEF WillSay, GivesUp, On
      <3> QED
        BY <1>0, <1>2, <2>2, <3>1, <3>2 DEF StateInvariant
    <2> QED
      BY <2>1, <2>2
  <1> QED
    BY <1>3, <1>4, <1>6, <1>7, <1>8 DEF ClientInvariant

(* The monitor of a transport ends: of one that counts no longer, or without a token to
   resume the session with. *)
LEMMA MonitorEndKeeps ==
    ASSUME ClientInvariant, NEW g \in DOMAIN task, At(g, "watch"), IsMonitor(g), Put(g, Ended),
           UNCHANGED <<auth, wire, generation, sessionVars, cancelled, overtaken>>,
           \/ /\ g # generation \/ g \in cancelled
              /\ UNCHANGED <<state, transport, monitor>>
           \/ /\ g = generation
              /\ transport' = 0 /\ monitor' = 0
              /\ state' = IF user THEN state ELSE "error"
    PROVE  ClientInvariant'
  <1>0. /\ ClientTypeOK /\ TaskInvariant /\ MonitorInvariant /\ StateInvariant /\ WireTypeOK
        /\ task \in [DOMAIN task -> Tasks] /\ task[g].at = "watch" /\ Watches(g)
    BY WireTypes DEF ClientInvariant, ClientTypeOK, At, TaskInvariant
  <1>1. Ended \in Tasks /\ Ended.at = "ended" /\ Ended.on = 0 /\ Ended.close = "done"
    BY TaskParts DEF Ended, Places, NoToken
  <1>2. /\ DOMAIN task' = DOMAIN task /\ task'[g] = Ended /\ task' \in [DOMAIN task -> Tasks]
        /\ \A d \in DOMAIN task : d # g => task'[d] = task[d]
    BY <1>0, <1>1 DEF Put
  <1>3. WireStep /\ WireInvariant'
    BY <1>0, SameWire DEF WireStep
  <1>4. ~overtaken /\ monitor # 0 => monitor = generation /\ monitor \notin cancelled /\ monitor = transport
    BY <1>0 DEF MonitorInvariant, ClientTypeOK
  <1>5. ~overtaken /\ g = generation => g = monitor /\ g # 0
    <2>1. g # 0
      BY <1>0, ClientAssumption DEF ClientTypeOK, Watches, TaskInvariant, PlaceFits, Generations
    <2> QED
      BY <1>0, <2>1 DEF Watches
  <1>6. ClientTypeOK'
    <2>1. state' \in {"disconnected", "connecting", "authenticating", "resuming", "connected", "error"}
      BY <1>0 DEF ClientTypeOK
    <2> QED
      BY <1>0, <1>2, <2>1 DEF ClientTypeOK, sessionVars
  <1>7. TaskInvariant'
    <2>1. PlaceFits(g)' /\ ShakesAlone(g)' /\ MonitorFits(g)' /\ Watches(g)'
      BY <1>1, <1>2 DEF PlaceFits, ShakesAlone, MonitorFits, Watches, Closing, Shaking
    <2>2. ASSUME NEW d \in DOMAIN task, d # g
          PROVE  /\ task[d].at \in Shaking /\ task[d].on = generation' => transport' = generation'
                 /\ task[d].at = "watch" /\ ~overtaken' => d = monitor' \/ (d \in cancelled' /\ d # generation')
      <3>1. ShakesAlone(d) /\ Watches(d)
        BY <1>0 DEF TaskInvariant
      <3> QED
        BY <1>4, <1>5, <2>2, <3>1 DEF ShakesAlone, Watches
    <2> QED
      BY <1>1, <1>3, <2>1, <2>2, PutTasks DEF Put
  <1>8. MonitorInvariant'
    BY <1>0, <1>2, <1>4 DEF MonitorInvariant, sessionVars
  <1>9. StateInvariant'
    <2>1. ~WillSay(g) /\ ~GivesUp(g) /\ task[g].at \notin Shaking
      BY <1>0 DEF WillSay, GivesUp, Shaking, Closing
    <2>2. \A d \in DOMAIN task : d # g => /\ WillSay(d)' <=> WillSay(d)
                                          /\ GivesUp(d)' <=> GivesUp(d)
      BY <1>2 DEF WillSay, GivesUp, On
    <2>3. CASE UNCHANGED <<state, transport, monitor>>
      BY <1>0, <1>2, <2>1, <2>2, <2>3 DEF StateInvariant
    <2>4. CASE /\ g = generation
               /\ transport' = 0 /\ monitor' = 0
               /\ state' = IF user THEN state ELSE "error"
      <3>1. ~overtaken => state' = "error"
        BY <1>0, <1>5, <2>4 DEF MonitorInvariant
      <3>2. state' \in Trying => \E d \in DOMAIN task' : WillSay(d)'
        BY <1>0, <1>2, <2>1, <2>2, <2>4 DEF StateInvariant, Trying
      <3> QED
        BY <2>4, <3>1, <3>2 DEF StateInvariant
    <2> QED
      BY <2>3, <2>4
  <1> QED
    BY <1>3, <1>6, <1>7, <1>8, <1>9 DEF ClientInvariant

(* A handshake goes on. *)
LEMMA MoveKeeps ==
    ASSUME ClientInvariant, NEW c \in DOMAIN task, NEW at \in {"token", "result"},
           task' = [task EXCEPT ![c] = Task(at, task[c].on, "done", task[c].token)],
           task[c].at \in Shaking, at = "token" => ~IsMonitor(c),
           WireStep, DOMAIN wire' = DOMAIN wire,
           UNCHANGED <<auth, sessionVars, transportVars>>,
           \/ UNCHANGED <<state, overtaken>>
           \/ state' = "authenticating" /\ overtaken' = (overtaken \/ task[c].on # generation)
    PROVE  ClientInvariant'
  <1> DEFINE t == Task(at, task[c].on, "done", task[c].token)
  <1>0. /\ ClientTypeOK /\ TaskInvariant /\ MonitorInvariant /\ StateInvariant /\ WireTypeOK
        /\ task \in [DOMAIN task -> Tasks] /\ task[c] \in Tasks
        /\ PlaceFits(c) /\ ShakesAlone(c) /\ MonitorFits(c)
    BY WireTypes DEF ClientInvariant, ClientTypeOK, TaskInvariant
  <1>1. /\ t \in Tasks /\ t.at = at /\ t.on = task[c].on /\ t.close = "done" /\ t.token = task[c].token
    BY <1>0, TaskParts DEF Tasks, Places
  <1>2. task' = [task EXCEPT ![c] = t]
    OBVIOUS
  <1> HIDE DEF t
  <1>3. /\ DOMAIN task' = DOMAIN task /\ task'[c] = t /\ task' \in [DOMAIN task -> Tasks]
        /\ \A d \in DOMAIN task : d # c => task'[d] = task[d]
    BY <1>0, <1>1, <1>2
  <1>4. WireInvariant' /\ wire' \in [DOMAIN wire' -> Wires]
    BY DEF WireStep
  <1>5. overtaken => overtaken'
    OBVIOUS
  <1>6. ClientTypeOK'
    <2>1. /\ state' \in {"disconnected", "connecting", "authenticating", "resuming", "connected", "error"}
          /\ overtaken' \in BOOLEAN
      BY <1>0 DEF ClientTypeOK
    <2> QED
      BY <1>0, <1>3, <1>4, <2>1 DEF ClientTypeOK, sessionVars, transportVars
  <1>7. TaskInvariant'
    <2>1. PlaceFits(c)'
      BY <1>0, <1>1, <1>3 DEF PlaceFits, Shaking, Closing
    <2>2. ShakesAlone(c)'
      BY <1>0, <1>1, <1>3 DEF ShakesAlone, Shaking, transportVars
    <2>3. MonitorFits(c)'
      <3>1. IsMonitor(c) => c \in DOMAIN wire
        BY <1>0 DEF IsMonitor, ClientTypeOK
      <3> QED
        BY <1>0, <1>1, <1>3, <1>5, <3>1 DEF MonitorFits, WireStep, LinkMoves
    <2>4. Watches(c)'
      BY <1>1, <1>3 DEF Watches
    <2>5. ASSUME NEW d \in DOMAIN task, d # c
          PROVE  /\ task[d].at \in Shaking /\ task[d].on = generation' => transport' = generation'
                 /\ task[d].at = "watch" /\ ~overtaken' => d = monitor' \/ (d \in cancelled' /\ d # generation')
      <3>1. ShakesAlone(d) /\ Watches(d)
        BY <1>0 DEF TaskInvariant
      <3> QED
        BY <1>5, <3>1 DEF ShakesAlone, Watches, transportVars
    <2> QED
      BY <1>1, <1>2, <1>5, <2>1, <2>2, <2>3, <2>4, <2>5, PutTasks
  <1>8. MonitorInvariant'
    <2>1. monitor # c \/ task[monitor].at # "watch"
      BY <1>0 DEF Shaking
    <2> QED
      BY <1>0, <1>3, <1>5, <2>1 DEF MonitorInvariant, sessionVars, transportVars
  <1>9. StateInvariant'
    <2>1. WillSay(c)' /\ task'[c].at \in Shaking /\ task'[c].on = task[c].on /\ ~GivesUp(c)
      BY <1>0, <1>1, <1>3 DEF WillSay, GivesUp, Shaking, Closing
    <2>2. ASSUME NEW d \in DOMAIN task, GivesUp(d) PROVE GivesUp(d)'
      <3>1. PlaceFits(d) /\ d # c
        BY <1>0, <2>1, <2>2 DEF TaskInvariant
      <3> QED
        BY <1>3, <2>2, <3>1 DEF GivesUp, PlaceFits, On, WireStep, LinkMoves
    <2>3. ASSUME NEW d \in DOMAIN task, task[d].at \in Shaking
          PROVE  task'[d].at \in Shaking /\ task'[d].on = task[d].on
      BY <1>3, <2>1, <2>3
    <2>4. CASE UNCHANGED <<state, overtaken>>
      BY <1>0, <1>3, <2>1, <2>2, <2>3, <2>4 DEF StateInvariant, transportVars
    <2>5. CASE state' = "authenticating" /\ overtaken' = (overtaken \/ task[c].on # generation)
      <3>1. ~overtaken' => task[c].on = transport /\ transport # monitor
        <4>1. task[c].on # 0
          BY <1>0, ClientAssumption DEF PlaceFits, ClientTypeOK, Generations
        <4> QED
          BY <1>0, <2>5, <4>1 DEF ShakesAlone, MonitorInvariant
      <3> QED
        BY <1>3, <2>1, <2>5, <3>1 DEF StateInvariant, transportVars
    <2> QED
      BY <2>4, <2>5
  <1> QED
    BY <1>4, <1>6, <1>7, <1>8, <1>9 DEF ClientInvariant

(* A handshake succeeds: applyConnectedSession. *)
LEMMA ApplyKeeps ==
    ASSUME ClientInvariant, NEW c \in DOMAIN task, NEW b \in [session : Nat, token : Nat], Apply(c, b),
           task[c].at \in Shaking, On(c).link \in Began,
           WireStep, DOMAIN wire' = DOMAIN wire, auth' = auth
    PROVE  ClientInvariant'
  <1>g. PICK g : g = task[c].on
    OBVIOUS
  <1> DEFINE t == Task("watch", g, "done", NoToken)
  <1>0. /\ ClientTypeOK /\ TaskInvariant /\ MonitorInvariant /\ StateInvariant /\ WireTypeOK
        /\ task \in [DOMAIN task -> Tasks] /\ task[c] \in Tasks
        /\ PlaceFits(c) /\ ShakesAlone(c) /\ MonitorFits(c)
    BY WireTypes DEF ClientInvariant, ClientTypeOK, TaskInvariant
  <1>1. /\ binding' = {b} /\ user' = FALSE /\ state' = "connected" /\ monitor' = g
        /\ cancelled' = cancelled \cup ({monitor} \ {0})
        /\ task' = With([task EXCEPT ![c] = Ended], g, t)
        /\ overtaken' = (overtaken \/ g # generation)
        /\ UNCHANGED <<known, transport, generation>>
    BY <1>g DEF Apply
  <1>2. g \in DOMAIN wire /\ g \in Nat /\ g # 0 /\ g \notin DOMAIN task /\ g <= generation
    BY <1>0, <1>g, ClientAssumption DEF PlaceFits, ShakesAlone, ClientTypeOK, Generations
  <1>3. /\ t \in Tasks /\ t.at = "watch" /\ t.on = g /\ t.close = "done"
        /\ Ended \in Tasks /\ Ended.at = "ended" /\ Ended.on = 0 /\ Ended.close = "done"
    BY <1>2, TaskParts DEF Ended, Places, NoToken
  <1> HIDE DEF t
  <1>4. /\ DOMAIN task' = DOMAIN task \cup {g} /\ task'[g] = t /\ task'[c] = Ended
        /\ task' \in [DOMAIN task' -> Tasks]
        /\ \A d \in DOMAIN task : d # c => task'[d] = task[d]
    <2>1. task' = [d \in DOMAIN task \cup {g} |-> IF d = g THEN t ELSE [task EXCEPT ![c] = Ended][d]]
      <3>1. DOMAIN [task EXCEPT ![c] = Ended] = DOMAIN task
        OBVIOUS
      <3> QED
        BY <1>1, <3>1 DEF With
    <2>2. \A d \in DOMAIN task : [task EXCEPT ![c] = Ended][d] = IF d = c THEN Ended ELSE task[d]
      BY <1>0
    <2>3. /\ DOMAIN task' = DOMAIN task \cup {g} /\ task'[g] = t
          /\ \A d \in DOMAIN task : task'[d] = IF d = c THEN Ended ELSE task[d]
      BY <1>2, <2>1, <2>2
    <2>4. \A d \in DOMAIN task' : task'[d] \in Tasks
      BY <1>0, <1>3, <2>3
    <2>5. task' = [d \in DOMAIN task' |-> task'[d]]
      BY <2>1
    <2> QED
      BY <2>3, <2>4, <2>5
  <1>5. WireInvariant' /\ wire' \in [DOMAIN wire' -> Wires]
    BY DEF WireStep
  <1>6. ClientTypeOK'
    <2>1. monitor # 0 => monitor \in DOMAIN task
      BY <1>0 DEF MonitorInvariant
    <2> QED
      BY <1>0, <1>1, <1>2, <1>4, <1>5, <2>1 DEF ClientTypeOK
  <1>7. ~overtaken' => transport = g /\ monitor = 0 /\ ~overtaken
    BY <1>0, <1>1, <1>2, <1>g DEF ShakesAlone, MonitorInvariant
  <1>8. TaskInvariant'
    <2>1. PlaceFits(c)' /\ ShakesAlone(c)' /\ MonitorFits(c)' /\ Watches(c)'
      BY <1>3, <1>4 DEF PlaceFits, ShakesAlone, MonitorFits, Watches, Closing, Shaking
    <2>2. PlaceFits(g)'
      BY <1>0, <1>2, <1>3, <1>4 DEF PlaceFits, Closing, Shaking
    <2>3. ShakesAlone(g)' /\ MonitorFits(g)'
      BY <1>2, <1>3, <1>4, MonitorFacts DEF ShakesAlone, MonitorFits, Shaking
    <2>4. Watches(g)'
      BY <1>1, <1>2, <1>3, <1>4, <1>g DEF Watches, On, WireStep, LinkMoves
    <2>5. ASSUME NEW d \in DOMAIN task, d # c
          PROVE  PlaceFits(d)' /\ ShakesAlone(d)' /\ MonitorFits(d)' /\ Watches(d)'
      <3>1. PlaceFits(d) /\ ShakesAlone(d) /\ MonitorFits(d) /\ Watches(d) /\ task'[d] = task[d] /\ d # g
        BY <1>0, <1>2, <1>4, <2>5 DEF TaskInvariant
      <3>2. PlaceFits(d)'
        BY <3>1 DEF PlaceFits, Idle, Ended, Task
      <3>3. ShakesAlone(d)'
        <4>1. task[d].at \in Shaking => task[d].on # g
          BY <1>0, <1>g, <2>5 DEF ShakesAlone
        <4>2. t.at \notin Shaking /\ Ended.at \notin Shaking
          BY <1>3 DEF Shaking
        <4> QED
          BY <1>1, <1>4, <3>1, <4>1, <4>2 DEF ShakesAlone
      <3>4. MonitorFits(d)'
        <4>1. IsMonitor(d) => d \in DOMAIN wire
          BY <1>0 DEF IsMonitor, ClientTypeOK
        <4> QED
          BY <1>7, <3>1, <4>1 DEF MonitorFits, WireStep, LinkMoves
      <3>5. Watches(d)'
        <4>1. task[d].at = "watch" => d \in DOMAIN wire /\ d # 0
          BY <1>0, <3>1, ClientAssumption DEF Watches, PlaceFits, ClientTypeOK, Generations
        <4> QED
          BY <1>1, <1>7, <3>1, <4>1 DEF Watches, WireStep, LinkMoves
      <3> QED
        BY <3>2, <3>3, <3>4, <3>5
    <2> QED
      BY <1>4, <2>1, <2>2, <2>3, <2>4, <2>5 DEF TaskInvariant
  <1>9. MonitorInvariant'
    <2>1. g \notin cancelled'
      BY <1>0, <1>1, <1>2 DEF ClientTypeOK, MonitorInvariant
    <2> QED
      BY <1>1, <1>3, <1>4, <1>7, <2>1 DEF MonitorInvariant
  <1>10. StateInvariant'
    BY <1>1, <1>2, <1>7 DEF StateInvariant, Trying
  <1> QED
    BY <1>5, <1>6, <1>8, <1>9, <1>10 DEF ClientInvariant

(* simulateNetworkDrop waits for its close and says nothing. *)
LEMMA DropKeeps ==
    ASSUME ClientInvariant, NEW c \in Calls, SimulateNetworkDrop(c)
    PROVE  ClientInvariant'
  <1> DEFINE t == Task("drop", transport, "plain", NoToken)
  <1>0. /\ ClientTypeOK /\ TaskInvariant /\ MonitorInvariant /\ StateInvariant /\ WireTypeOK
        /\ task \in [DOMAIN task -> Tasks] /\ c \in DOMAIN task
    BY WireTypes DEF ClientInvariant, ClientTypeOK
  <1>1. /\ c \in Drops /\ task[c] = Idle /\ transport # 0 /\ user' = FALSE
        /\ task' = [task EXCEPT ![c] = t]
        /\ UNCHANGED <<state, binding, known, transportVars, overtaken, wire, networkVars>>
    BY DEF SimulateNetworkDrop, Put
  <1>2. transport \in DOMAIN wire /\ transport \in Nat
    BY <1>0, <1>1, ClientAssumption DEF ClientTypeOK, Generations
  <1>3. /\ t \in Tasks /\ t.at = "drop" /\ t.on = transport /\ t.close = "plain"
        /\ Idle.at = "idle"
    BY <1>2, TaskParts DEF Places, Idle, NoToken
  <1> HIDE DEF t
  <1>4. /\ DOMAIN task' = DOMAIN task /\ task'[c] = t /\ task' \in [DOMAIN task -> Tasks]
        /\ \A d \in DOMAIN task : d # c => task'[d] = task[d]
    BY <1>0, <1>1, <1>3
  <1>5. WireStep /\ WireInvariant'
    BY <1>0, <1>1, SameWire DEF WireStep
  <1>6. ClientTypeOK'
    BY <1>0, <1>1, <1>4 DEF ClientTypeOK, transportVars, networkVars
  <1>7. TaskInvariant'
    <2>0. ~IsMonitor(c)
      BY MonitorFacts
    <2>1. PlaceFits(c)' /\ ShakesAlone(c)' /\ MonitorFits(c)' /\ Watches(c)'
      BY <1>1, <1>2, <1>3, <1>4, <2>0 DEF PlaceFits, ShakesAlone, MonitorFits, Watches, Closing, Shaking
    <2>2. ASSUME NEW d \in DOMAIN task, d # c
          PROVE  /\ task[d].at \in Shaking /\ task[d].on = generation' => transport' = generation'
                 /\ task[d].at = "watch" /\ ~overtaken' => d = monitor' \/ (d \in cancelled' /\ d # generation')
      <3>1. ShakesAlone(d) /\ Watches(d)
        BY <1>0 DEF TaskInvariant
      <3> QED
        BY <1>1, <3>1 DEF ShakesAlone, Watches, transportVars
    <2>3. overtaken => overtaken'
      BY <1>1
    <2> QED
      BY <1>0, <1>1, <1>3, <1>5, <2>1, <2>2, <2>3, PutTasks
  <1>8. MonitorInvariant'
    BY <1>0, <1>1, <1>3, <1>4 DEF MonitorInvariant, transportVars
  <1>9. StateInvariant'
    <2>1. ~WillSay(c) /\ ~GivesUp(c) /\ task[c].at \notin Shaking
      BY <1>1, <1>3 DEF WillSay, GivesUp, Shaking, Closing
    <2>2. \A d \in DOMAIN task : d # c => /\ WillSay(d)' <=> WillSay(d)
                                          /\ GivesUp(d)' <=> GivesUp(d)
      BY <1>1, <1>4 DEF WillSay, GivesUp, On
    <2> QED
      BY <1>0, <1>1, <1>4, <2>1, <2>2 DEF StateInvariant, transportVars
  <1> QED
    BY <1>5, <1>6, <1>7, <1>8, <1>9 DEF ClientInvariant

-----------------------------------------------------------------------------
(* The actions *)

(* The stream of a transport is read, written to, or both. *)
LEMMA StreamStep ==
    ASSUME WireTypeOK, NEW g \in DOMAIN wire, NEW out \in Seq(Asked), NEW in \in Seq(Told),
           wire[g].in = <<>> => in = <<>>,
           \/ wire' = [wire EXCEPT ![g].in = in] /\ out = wire[g].out
           \/ wire' = [wire EXCEPT ![g].out = out] /\ in = wire[g].in
           \/ wire' = [wire EXCEPT ![g].in = in, ![g].out = out]
    PROVE  /\ wire' = [wire EXCEPT ![g] = WireOf(wire[g].link, out, in, wire[g].host)]
           /\ WireStep /\ DOMAIN wire' = DOMAIN wire
  <1>1. PICK w : w = wire[g]
    OBVIOUS
  <1>2. /\ w \in Wires /\ (w.link \notin Began => w.in = <<>>)
        /\ w.link \in Links /\ w.host \in Hosts
    BY <1>1 DEF WireTypeOK, WireInvariant, Wires
  <1>3. wire' = [wire EXCEPT ![g] = WireOf(w.link, out, in, w.host)]
    <2>1. CASE wire' = [wire EXCEPT ![g].in = in] /\ out = wire[g].out
      <3>1. wire' = [wire EXCEPT ![g] = WithIn(wire[g], in)]
        BY <2>1 DEF WithIn
      <3> QED
        BY <1>1, <1>2, <2>1, <3>1, WireRecord
    <2>2. CASE wire' = [wire EXCEPT ![g].out = out] /\ in = wire[g].in
      <3>1. wire' = [wire EXCEPT ![g] = WithOut(wire[g], out)]
        BY <2>2 DEF WithOut
      <3> QED
        BY <1>1, <1>2, <2>2, <3>1, WireRecord
    <2>3. CASE wire' = [wire EXCEPT ![g].in = in, ![g].out = out]
      <3>1. wire' = [wire EXCEPT ![g] = WithOut(WithIn(wire[g], in), out)]
        BY <2>3 DEF WithIn, WithOut
      <3>2. WithIn(w, in) = WireOf(w.link, w.out, in, w.host)
        BY <1>2, WireRecord
      <3>3. WithIn(w, in) \in Wires
        <4>1. w.out \in Seq(Asked)
          BY <1>2 DEF Wires
        <4> QED
          BY <1>2, <3>2, <4>1, WireParts
      <3>4. WithOut(WithIn(w, in), out) = WireOf(w.link, out, in, w.host)
        BY <3>2, <3>3, WireParts, WireRecord
      <3> QED
        BY <1>1, <3>1, <3>4
    <2> QED
      BY <2>1, <2>2, <2>3
  <1>4. LinkMoves(w.link, w.link) /\ (w.link \notin Began => in = <<>>)
    BY <1>1, <1>2 DEF LinkMoves
  <1>5. WireStep /\ DOMAIN wire' = DOMAIN wire
    BY <1>1, <1>2, <1>3, <1>4, PutIsWireStep
  <1> QED
    BY <1>1, <1>3, <1>5

(* What a task that shakes hands may rely on. *)
LEMMA ShakingFacts ==
    ASSUME ClientInvariant, NEW c \in DOMAIN task, task[c].at \in Shaking
    PROVE  /\ task[c].on \in DOMAIN wire /\ WireTypeOK /\ task[c] \in Tasks
           /\ c \notin Disconnects \cup Drops /\ (IsMonitor(c) => task[c].token # NoToken /\ task[c].at # "token")
           /\ On(c) \in Wires /\ On(c).in \in Seq(Told) /\ On(c).out \in Seq(Asked)
           /\ On(c).in # <<>> => On(c).link \in Began /\ Tail(On(c).in) \in Seq(Told) /\ Head(On(c).in) \in Told
  <1>1. /\ WireTypeOK /\ task[c] \in Tasks /\ PlaceFits(c) /\ MonitorFits(c)
    BY WireTypes DEF ClientInvariant, ClientTypeOK, TaskInvariant
  <1>2. task[c].on \in DOMAIN wire
    BY <1>1 DEF PlaceFits
  <1>3. On(c) \in Wires /\ On(c).in \in Seq(Told) /\ On(c).out \in Seq(Asked)
    BY <1>1, <1>2 DEF On, WireTypeOK, Wires
  <1>4. On(c).in # <<>> => On(c).link \in Began /\ Tail(On(c).in) \in Seq(Told) /\ Head(On(c).in) \in Told
    BY <1>1, <1>2, <1>3 DEF On, WireTypeOK, WireInvariant
  <1> QED
    BY <1>1, <1>2, <1>3, <1>4 DEF PlaceFits, MonitorFits

(* A transport is opened to resume with a token the client has, or without one. *)
LEMMA AttemptFacts ==
    ASSUME ClientInvariant, NEW c, NEW endpoint, Attempt(c, endpoint)
    PROVE  /\ \E token \in Nat : OpenTransport(c, token)
           /\ state' \in {"connecting", "resuming"}
  <1>1. \A t \in Resumable(endpoint) : t \in Nat /\ t # NoToken
    BY DEF Resumable, ClientInvariant, ClientTypeOK
  <1> QED
    BY <1>1 DEF Attempt, NoToken

(* The monitor, if there is one, is cancelled. *)
LEMMA CancelFacts ==
    ASSUME ClientInvariant, CancelMonitor
    PROVE  /\ monitor' = 0 /\ cancelled \subseteq cancelled' /\ cancelled' \subseteq DOMAIN task
           /\ ~overtaken => \A d \in DOMAIN task : task[d].at = "watch" => d \in cancelled'
  <1>1. monitor # 0 => monitor \in DOMAIN task
    BY DEF ClientInvariant, MonitorInvariant
  <1>2. ASSUME ~overtaken, NEW d \in DOMAIN task, task[d].at = "watch" PROVE d \in cancelled'
    <2>1. Watches(d) /\ PlaceFits(d)
      BY DEF ClientInvariant, TaskInvariant
    <2>2. d \in DOMAIN wire /\ d # 0
      BY <1>2, <2>1, ClientAssumption DEF Watches, PlaceFits, ClientInvariant, ClientTypeOK, Generations
    <2> QED
      BY <1>2, <2>1, <2>2 DEF Watches, CancelMonitor
  <1> QED
    BY <1>1, <1>2 DEF CancelMonitor, ClientInvariant, ClientTypeOK

(* Without a transport of its own there is no monitor, unless a task was overtaken. *)
LEMMA NoTransportFacts ==
    ASSUME ClientInvariant, ~overtaken, transport = 0
    PROVE  monitor = 0 /\ \A d \in DOMAIN task : task[d].at = "watch" => d \in cancelled
  <1>1. monitor = 0
    BY DEF ClientInvariant, MonitorInvariant
  <1>2. ASSUME NEW d \in DOMAIN task, task[d].at = "watch" PROVE d \in cancelled
    <2>1. Watches(d) /\ PlaceFits(d)
      BY DEF ClientInvariant, TaskInvariant
    <2>2. d \in DOMAIN wire /\ d # 0
      BY <1>2, <2>1, ClientAssumption DEF Watches, PlaceFits, ClientInvariant, ClientTypeOK, Generations
    <2> QED
      BY <1>1, <1>2, <2>1, <2>2 DEF Watches
  <1> QED
    BY <1>1, <1>2

(* The catch of a handshake. *)
LEMMA CatchKeeps ==
    ASSUME ClientInvariant, NEW c \in DOMAIN task, task[c].at \in Shaking \cup {"unopened", "refused"},
           NEW meanwhile \in {state, "error"}, Catch(c, meanwhile),
           UNCHANGED <<sessionVars, networkVars>>
    PROVE  ClientInvariant'
  <1>0. /\ c \notin Disconnects \cup Drops
        /\ auth' = auth /\ binding' = binding /\ known' = known /\ user' = user
        /\ known \in BOOLEAN /\ user \in BOOLEAN /\ overtaken \in BOOLEAN
        /\ binding \in SUBSET [session : Nat, token : Nat]
    BY DEF ClientInvariant, ClientTypeOK, TaskInvariant, PlaceFits, sessionVars, networkVars
  <1>1. CASE Invalidate(c, "failed", "plain") /\ state' = meanwhile
    BY <1>0, <1>1, InvalidateKeeps DEF Closing
  <1>2. CASE NothingToClose /\ Fail(c) /\ UNCHANGED <<transport, generation, overtaken>>
    <2>1. transport = 0 /\ monitor' = 0 /\ cancelled \subseteq cancelled' /\ cancelled' \subseteq DOMAIN task
      BY <1>2, CancelFacts DEF NothingToClose
    <2>2. Put(c, Ended) /\ state' = "error" /\ wire' = wire
      BY <1>2 DEF Fail
    <2>3. task[c].at # "watch"
      BY DEF Shaking
    <2> QED
      BY <1>0, <1>2, <2>1, <2>2, <2>3, EndKeeps
  <1> QED
    BY <1>1, <1>2 DEF Catch

(* What the client does when the host has said no. *)
LEMMA RefusedKeeps ==
    ASSUME ClientInvariant, NEW c \in DOMAIN task, task[c].at \in {"result", "refused"}, Refused(c),
           UNCHANGED networkVars
    PROVE  ClientInvariant'
  <1>0. /\ c \notin Disconnects \cup Drops /\ task[c].at # "watch"
        /\ auth' = auth /\ known \in BOOLEAN /\ overtaken \in BOOLEAN
        /\ cancelled \subseteq DOMAIN task
    BY DEF ClientInvariant, ClientTypeOK, TaskInvariant, PlaceFits, networkVars, Shaking
  <1>1. CASE task[c].token = NoToken
    BY <1>1, CatchKeeps DEF Refused, Shaking
  <1>2. CASE task[c].token # NoToken
    <2>1. /\ binding' = {} /\ user' = FALSE /\ known' = (known /\ TRUE)
          /\ overtaken' = (overtaken \/ transport # 0) /\ monitor' = monitor /\ cancelled' = cancelled
      BY <1>2 DEF Refused, ClearSessionContext, Overtakes
    <2>2. CASE IsMonitor(c)
      <3>1. Put(c, Ended) /\ state' = "error" /\ wire' = wire /\ transport' = transport /\ generation' = generation
        BY <1>2, <2>2 DEF Refused, Fail
      <3> QED
        BY <1>0, <2>1, <3>1, EndKeeps
    <2>3. CASE ~IsMonitor(c)
      <3>1. state' = "connecting" /\ OpenTransport(c, NoToken)
        BY <1>2, <2>3 DEF Refused
      <3>2. ~overtaken' => monitor' = 0 /\ \A d \in DOMAIN task : d # c /\ task[d].at = "watch" => d \in cancelled'
        BY <2>1, NoTransportFacts
      <3>3. NoToken \in Nat /\ binding' \in SUBSET [session : Nat, token : Nat]
        BY <2>1 DEF NoToken
      <3> QED
        BY <1>0, <2>1, <2>3, <3>1, <3>2, <3>3, OpenTransportKeeps
    <2> QED
      BY <2>2, <2>3
  <1> QED
    BY <1>1, <1>2

(* Calls of the app. *)
LEMMA AppKeeps ==
    ASSUME ClientInvariant, NEW c \in Calls,
           Connect(c) \/ Disconnect(c) \/ Authenticate(c) \/ SignInFails(c)
    PROVE  ClientInvariant'
  <1>0. /\ c \in DOMAIN task /\ ~IsMonitor(c)
        /\ auth \in BOOLEAN /\ known \in BOOLEAN /\ user \in BOOLEAN /\ overtaken \in BOOLEAN
        /\ binding \in SUBSET [session : Nat, token : Nat]
    BY MonitorFacts DEF ClientInvariant, ClientTypeOK
  <1>1. task[c] = Idle => ~WillSay(c) /\ task[c].at # "watch"
    BY DEF WillSay, Idle, Task, Shaking
  <1>2. CASE Connect(c)
    <2>1. /\ c \in Connects /\ task[c] = Idle /\ known' = TRUE /\ user' = FALSE
          /\ binding' = binding /\ auth' = auth
      BY <1>2 DEF Connect, networkVars
    <2>2. CASE Invalidate(c, "enter", "plain") /\ UNCHANGED state
      <3>1. "enter" \in Closing /\ known' \in BOOLEAN /\ user' \in BOOLEAN /\ state' \in {state, "error"}
        BY <2>1, <2>2 DEF Closing
      <3> QED
        BY <1>0, <1>1, <2>1, <2>2, <3>1, InvalidateKeeps
    <2>3. CASE NothingToClose /\ Attempt(c, TRUE) /\ UNCHANGED overtaken
      <3>1. PICK token \in Nat : OpenTransport(c, token)
        BY <2>3, AttemptFacts
      <3>2. state' \in {"connecting", "resuming"}
        BY <2>3, AttemptFacts
      <3>3. /\ monitor' = 0 /\ cancelled \subseteq cancelled' /\ cancelled' \subseteq DOMAIN task
            /\ ~overtaken' => \A d \in DOMAIN task : d # c /\ task[d].at = "watch" => d \in cancelled'
        BY <2>3, CancelFacts DEF NothingToClose
      <3>4. c \notin Disconnects \cup Drops /\ overtaken' = overtaken
        BY <2>1, <2>3, MonitorFacts
      <3> QED
        BY <1>0, <2>1, <3>1, <3>2, <3>3, <3>4, OpenTransportKeeps
    <2> QED
      BY <1>2, <2>2, <2>3 DEF Connect
  <1>3. CASE Disconnect(c)
    <2>1. c \in Disconnects /\ task[c] = Idle /\ auth' = auth
      BY <1>3 DEF Disconnect, networkVars
    <2>2. CASE Invalidate(c, "leave", "goodbye") /\ user' = TRUE /\ UNCHANGED <<state, binding, known>>
      <3>1. "leave" \in Closing /\ known' \in BOOLEAN /\ user' \in BOOLEAN /\ state' \in {state, "error"}
        BY <1>0, <2>2 DEF Closing
      <3> QED
        BY <1>0, <1>1, <2>1, <2>2, <3>1, InvalidateKeeps
    <2>3. CASE NothingToClose /\ Left(c) /\ UNCHANGED <<transport, generation, overtaken>>
      <3>1. transport = 0 /\ monitor' = 0 /\ cancelled \subseteq cancelled' /\ cancelled' \subseteq DOMAIN task
        BY <2>3, CancelFacts DEF NothingToClose
      <3>2. /\ Put(c, Ended) /\ state' = "disconnected" /\ wire' = wire
            /\ binding' = {} /\ user' = FALSE /\ known' = (known /\ FALSE)
        BY <2>3 DEF Left, ClearSessionContext
      <3> QED
        BY <1>0, <1>1, <2>1, <2>3, <3>1, <3>2, EndKeeps
    <2> QED
      BY <1>3, <2>2, <2>3 DEF Disconnect
  <1>4. CASE Authenticate(c)
    <2>1. /\ task[c].at = "token" /\ task[c].close = "done"
          /\ wire' = [wire EXCEPT ![task[c].on].out = Append(wire[task[c].on].out, [kind |-> "authenticate"])]
          /\ Put(c, [task[c] EXCEPT !.at = "result"])
          /\ UNCHANGED <<state, sessionVars, transportVars, overtaken, networkVars>>
      BY <1>4 DEF Authenticate, At
    <2>2. task[c].at \in Shaking
      BY <2>1 DEF Shaking
    <2>3. /\ task[c].on \in DOMAIN wire /\ WireTypeOK /\ task[c] \in Tasks
          /\ On(c).in \in Seq(Told) /\ On(c).out \in Seq(Asked)
      BY <1>0, <2>2, ShakingFacts
    <2>4. Append(On(c).out, [kind |-> "authenticate"]) \in Seq(Asked)
      BY <2>3, MessageFacts
    <2>5. WireStep /\ DOMAIN wire' = DOMAIN wire
      BY <2>1, <2>3, <2>4, StreamStep DEF On
    <2>6. task' = [task EXCEPT ![c] = TaskAt(task[c], "result")]
      BY <2>1 DEF Put, TaskAt
    <2>7. task' = [task EXCEPT ![c] = Task("result", task[c].on, "done", task[c].token)]
      BY <2>1, <2>3, <2>6, TaskRecord
    <2> QED
      BY <1>0, <2>1, <2>2, <2>5, <2>7, MoveKeeps DEF networkVars
  <1>5. CASE SignInFails(c)
    BY <1>0, <1>5, CatchKeeps DEF SignInFails, At, Shaking
  <1> QED
    BY <1>2, <1>3, <1>4, <1>5

(* The tasks of the client behind an await. *)
LEMMA BehindAwaitKeeps ==
    ASSUME ClientInvariant, NEW c \in DOMAIN task,
           Enter(c) \/ Failed(c) \/ HandshakeFails(c) \/ Unopened(c) \/ AfterRefusal(c) \/ Leave(c) \/ Dropped(c)
    PROVE  ClientInvariant'
  <1>0. /\ auth \in BOOLEAN /\ known \in BOOLEAN /\ user \in BOOLEAN /\ overtaken \in BOOLEAN
        /\ binding \in SUBSET [session : Nat, token : Nat] /\ cancelled \subseteq DOMAIN task
        /\ monitor # 0 => ~user
        /\ PlaceFits(c)
    BY DEF ClientInvariant, ClientTypeOK, MonitorInvariant, TaskInvariant
  <1>1. CASE Enter(c)
    <2>1. /\ task[c].at = "enter" /\ Attempt(c, known)
          /\ overtaken' = (overtaken \/ transport # 0)
          /\ UNCHANGED <<sessionVars, monitor, cancelled, networkVars>>
      BY <1>1 DEF Enter, At, Overtakes
    <2>2. c \in Connects /\ c \notin Disconnects \cup Drops /\ ~IsMonitor(c)
      BY <1>0, <2>1, MonitorFacts DEF PlaceFits
    <2>3. PICK token \in Nat : OpenTransport(c, token)
      BY <2>1, AttemptFacts
    <2>4. state' \in {"connecting", "resuming"}
      BY <2>1, AttemptFacts
    <2>5. ~overtaken' => monitor' = 0 /\ \A d \in DOMAIN task : d # c /\ task[d].at = "watch" => d \in cancelled'
      BY <2>1, NoTransportFacts
    <2> QED
      BY <1>0, <2>1, <2>2, <2>3, <2>4, <2>5, OpenTransportKeeps DEF sessionVars, networkVars
  <1>2. CASE Failed(c)
    <2>1. /\ task[c].at = "failed" /\ Put(c, Ended) /\ state' = "error" /\ wire' = wire
          /\ overtaken' = (overtaken \/ transport # 0)
          /\ UNCHANGED <<sessionVars, transportVars, networkVars>>
      BY <1>2 DEF Failed, At, Fail, Overtakes
    <2> QED
      BY <1>0, <2>1, EndKeeps DEF sessionVars, transportVars, networkVars
  <1>3. CASE HandshakeFails(c)
    <2>1. task[c].at \in Shaking /\ UNCHANGED <<sessionVars, networkVars>>
      BY <1>3 DEF HandshakeFails, Throws, Shaking
    <2>2. CASE Invalidate(c, "unopened", "plain") /\ UNCHANGED state
      <3>1. "unopened" \in Closing /\ c \notin Disconnects \cup Drops
        BY <1>0, <2>1 DEF Closing, PlaceFits
      <3> QED
        BY <1>0, <2>1, <2>2, <3>1, InvalidateKeeps DEF sessionVars, networkVars
    <2>3. CASE Catch(c, state)
      BY <2>1, <2>3, CatchKeeps
    <2> QED
      BY <1>3, <2>2, <2>3 DEF HandshakeFails
  <1>4. CASE Unopened(c)
    BY <1>4, CatchKeeps DEF Unopened, At
  <1>5. CASE AfterRefusal(c)
    BY <1>5, RefusedKeeps DEF AfterRefusal, At
  <1>6. CASE Leave(c)
    <2>1. /\ task[c].at = "leave" /\ Put(c, Ended) /\ state' = "disconnected" /\ wire' = wire
          /\ binding' = {} /\ user' = FALSE /\ known' = (known /\ FALSE)
          /\ overtaken' = (overtaken \/ transport # 0)
          /\ UNCHANGED <<transportVars, networkVars>>
      BY <1>6 DEF Leave, Left, ClearSessionContext, At, Overtakes
    <2> QED
      BY <1>0, <2>1, EndKeeps DEF transportVars, networkVars
  <1>7. CASE Dropped(c)
    <2>1. /\ task[c].at = "drop" /\ Put(c, Ended)
          /\ UNCHANGED <<state, sessionVars, transportVars, overtaken, wire, networkVars>>
      BY <1>7 DEF Dropped, At
    <2> QED
      BY <1>0, <2>1, EndKeeps DEF sessionVars, transportVars, networkVars
  <1> QED
    BY <1>1, <1>2, <1>3, <1>4, <1>5, <1>6, <1>7

(* Answers of the host. *)
LEMMA AnswerKeeps ==
    ASSUME ClientInvariant, NEW c \in DOMAIN task, Greeted(c) \/ Result(c)
    PROVE  ClientInvariant'
  <1> DEFINE out == On(c).out
             in == Tail(On(c).in)
  <1>1. task[c].at \in Shaking /\ task[c].close = "done" /\ On(c).in # <<>> /\ UNCHANGED networkVars
    BY DEF Greeted, Result, At, Shaking
  <1>2. /\ task[c].on \in DOMAIN wire /\ WireTypeOK /\ task[c] \in Tasks
        /\ c \notin Disconnects \cup Drops /\ (IsMonitor(c) => task[c].token # NoToken)
        /\ On(c).in \in Seq(Told) /\ out \in Seq(Asked)
        /\ On(c).link \in Began /\ in \in Seq(Told) /\ Head(On(c).in) \in Told
    BY <1>1, ShakingFacts
  <1>3. /\ auth' = auth /\ binding \in SUBSET [session : Nat, token : Nat] /\ known \in BOOLEAN /\ user \in BOOLEAN
        /\ task[c].token \in Nat
    BY <1>1, <1>2 DEF networkVars, ClientInvariant, ClientTypeOK, Tasks
  <1>4. ASSUME wire' = [wire EXCEPT ![task[c].on].in = Tail(On(c).in)]
        PROVE  WireStep /\ DOMAIN wire' = DOMAIN wire
    BY <1>1, <1>2, <1>4, StreamStep DEF On
  <1>5. CASE /\ task[c].token # NoToken
             /\ wire' = [wire EXCEPT ![task[c].on].in = Tail(@),
                                     ![task[c].on].out = Append(@, [kind |-> "resume", token |-> task[c].token])]
             /\ Put(c, [task[c] EXCEPT !.at = "result"])
             /\ UNCHANGED <<state, sessionVars, transportVars, overtaken>>
    <2>1. Append(out, [kind |-> "resume", token |-> task[c].token]) \in Seq(Asked)
      BY <1>2, <1>3, MessageFacts
    <2>2. wire' = [wire EXCEPT ![task[c].on].in = Tail(On(c).in),
                               ![task[c].on].out = Append(out, [kind |-> "resume", token |-> task[c].token])]
      BY <1>5 DEF On
    <2>3. WireStep /\ DOMAIN wire' = DOMAIN wire
      BY <1>1, <1>2, <2>1, <2>2, StreamStep DEF On
    <2>4. task' = [task EXCEPT ![c] = TaskAt(task[c], "result")]
      BY <1>5 DEF Put, TaskAt
    <2>5. task' = [task EXCEPT ![c] = Task("result", task[c].on, "done", task[c].token)]
      BY <1>1, <1>2, <2>4, TaskRecord
    <2> QED
      BY <1>1, <1>3, <1>5, <2>3, <2>5, MoveKeeps
  <1>6. CASE /\ task[c].token = NoToken
             /\ wire' = [wire EXCEPT ![task[c].on].in = Tail(@)]
             /\ state' = "authenticating"
             /\ Put(c, [task[c] EXCEPT !.at = "token"])
             /\ overtaken' = (overtaken \/ task[c].on # generation)
             /\ UNCHANGED <<sessionVars, transportVars>>
    <2>1. WireStep /\ DOMAIN wire' = DOMAIN wire
      BY <1>4, <1>6 DEF On
    <2>2. task' = [task EXCEPT ![c] = TaskAt(task[c], "token")]
      BY <1>6 DEF Put, TaskAt
    <2>3. task' = [task EXCEPT ![c] = Task("token", task[c].on, "done", task[c].token)]
      BY <1>1, <1>2, <2>2, TaskRecord
    <2> QED
      BY <1>1, <1>2, <1>3, <1>6, <2>1, <2>3, MoveKeeps
  <1>7. CASE /\ wire' = [wire EXCEPT ![task[c].on].in = Tail(@)]
             /\ \E b \in [session : Nat, token : Nat] : Apply(c, b)
    <2>1. WireStep /\ DOMAIN wire' = DOMAIN wire
      BY <1>4, <1>7 DEF On
    <2> QED
      BY <1>1, <1>2, <1>3, <1>7, <2>1, ApplyKeeps
  <1>8. CASE Greeted(c)
    <2>1. [session |-> 0, token |-> NoToken] \in [session : Nat, token : Nat]
      BY DEF NoToken
    <2> QED
      BY <1>5, <1>6, <1>7, <1>8, <2>1 DEF Greeted
  <1>9. CASE Result(c)
    <2> DEFINE m == Head(On(c).in)
    <2>1. task[c].at = "result"
      BY <1>9 DEF Result, At
    <2>2. CASE m.kind = "ok" /\ Apply(c, [session |-> m.session, token |-> m.token])
               /\ wire' = [wire EXCEPT ![task[c].on].in = Tail(@)]
      <3>1. m.session \in Nat /\ m.token \in Nat
        BY <1>2, <2>2, MessageFacts, MonitorFacts
      <3>2. [session |-> m.session, token |-> m.token] \in [session : Nat, token : Nat]
        BY <3>1
      <3> QED
        BY <1>7, <2>2, <3>2
    <2>3. CASE Invalidate(c, "refused", "plain") /\ UNCHANGED <<state, sessionVars>>
      <3>1. "refused" \in Closing
        BY DEF Closing
      <3> QED
        BY <1>2, <1>3, <2>3, <3>1, InvalidateKeeps DEF sessionVars
    <2>4. CASE Refused(c)
      BY <1>1, <2>1, <2>4, RefusedKeeps
    <2> QED
      BY <1>9, <2>2, <2>3, <2>4 DEF Result
  <1> QED
    BY <1>8, <1>9

(* The monitors. *)
LEMMA MonitorKeeps ==
    ASSUME ClientInvariant, NEW g \in DOMAIN task, SessionMessage(g) \/ TransportTermination(g)
    PROVE  ClientInvariant'
  <1>0. /\ IsMonitor(g) /\ task[g].at = "watch" /\ task[g].close = "done" /\ At(g, "watch") /\ UNCHANGED networkVars
    BY DEF SessionMessage, TransportTermination, At
  <1>1. /\ auth' = auth /\ binding \in SUBSET [session : Nat, token : Nat] /\ known \in BOOLEAN /\ user \in BOOLEAN
        /\ overtaken \in BOOLEAN /\ WireTypeOK /\ Watches(g) /\ PlaceFits(g) /\ ~WillSay(g)
        /\ cancelled \subseteq DOMAIN task
    BY <1>0, WireTypes DEF networkVars, ClientInvariant, ClientTypeOK, TaskInvariant, WillSay, Shaking
  <1>2. g \in DOMAIN wire /\ g \in Nat /\ g # 0
    BY <1>0, <1>1, ClientAssumption DEF Watches, PlaceFits, ClientInvariant, ClientTypeOK, Generations
  <1>3. g \notin Disconnects \cup Drops
    BY <1>2, MonitorFacts
  <1>4. CASE Invalidate(g, "leave", "plain") /\ user' = TRUE /\ UNCHANGED <<state, binding, known>>
    <2>1. "leave" \in Closing /\ user' \in BOOLEAN /\ state' \in {state, "error"}
      BY <1>4 DEF Closing
    <2> QED
      BY <1>1, <1>4, <2>1, InvalidateKeeps
  <1>5. CASE /\ wire[g].in # <<>>
             /\ wire' = [wire EXCEPT ![g].in = Tail(@)]
             /\ UNCHANGED <<state, sessionVars, transportVars, overtaken, task>>
    <2>1. Tail(wire[g].in) \in Seq(Told) /\ wire[g].out \in Seq(Asked)
      BY <1>1, <1>2, <1>5 DEF WireTypeOK, Wires
    <2>2. WireStep /\ DOMAIN wire' = DOMAIN wire
      BY <1>1, <1>2, <1>5, <2>1, StreamStep
    <2>3. Quiet
      BY <1>1, <1>5, <2>2, WireOnly DEF clientVars
    <2> QED
      BY <2>3, QuietKeeps
  <1>6. CASE SessionMessage(g)
    BY <1>4, <1>5, <1>6 DEF SessionMessage
  <1>7. CASE TransportTermination(g)
    <2>1. UNCHANGED <<sessionVars, cancelled, overtaken>>
      BY <1>7 DEF TransportTermination
    <2>2. CASE /\ g # generation \/ g \in cancelled
               /\ Put(g, Ended)
               /\ UNCHANGED <<state, transport, generation, monitor, wire>>
      BY <1>0, <1>1, <2>1, <2>2, MonitorEndKeeps
    <2>3. CASE /\ g = generation /\ monitor' = 0 /\ transport' = 0 /\ Put(g, Ended)
               /\ state' = IF user THEN state ELSE "error"
               /\ UNCHANGED <<generation, wire>>
      BY <1>0, <1>1, <2>1, <2>3, MonitorEndKeeps
    <2>4. CASE /\ g = generation /\ monitor' = 0 /\ ~user /\ state' = "resuming"
               /\ \E t \in Resumable(known) : OpenTransport(g, t)
      <3>1. PICK t \in Resumable(known) : OpenTransport(g, t)
        BY <2>4
      <3>2. t \in Nat /\ t # NoToken
        BY <1>1, <3>1 DEF Resumable
      <3>3. ~overtaken => /\ wire[g].link \in Gone
                          /\ \A d \in DOMAIN task : d # g /\ task[d].at = "watch" => d \in cancelled
        <4> SUFFICES ASSUME ~overtaken PROVE /\ wire[g].link \in Gone
                          /\ \A d \in DOMAIN task : d # g /\ task[d].at = "watch" => d \in cancelled
          OBVIOUS
        <4>1. g = monitor
          BY <1>0, <1>1, <2>4 DEF Watches
        <4>2. g \notin cancelled
          BY <1>2, <4>1 DEF ClientInvariant, MonitorInvariant
        <4>3. \A d \in DOMAIN task : Watches(d)
          BY DEF ClientInvariant, TaskInvariant
        <4> QED
          BY <1>7, <4>1, <4>2, <4>3 DEF TransportTermination, Watches
      <3> QED
        BY <1>1, <1>3, <2>1, <2>4, <3>1, <3>2, <3>3, OpenTransportKeeps DEF sessionVars
    <2> QED
      BY <1>7, <2>2, <2>3, <2>4 DEF TransportTermination
  <1> QED
    BY <1>6, <1>7

(* Every step. *)
LEMMA ClientNext == ClientInvariant /\ [Next]_vars => ClientInvariant'
  <1> SUFFICES ASSUME ClientInvariant, [Next]_vars PROVE ClientInvariant'
    OBVIOUS
  <1>0. Calls \subseteq DOMAIN task
    BY DEF ClientInvariant, ClientTypeOK
  <1>1. ASSUME NEW c \in DOMAIN task,
               \/ Enter(c) \/ Greeted(c) \/ Failed(c) \/ HandshakeFails(c) \/ Unopened(c) \/ Result(c)
               \/ AfterRefusal(c) \/ Leave(c) \/ Dropped(c) \/ SessionMessage(c) \/ TransportTermination(c)
               \/ Close(c)
        PROVE  ClientInvariant'
    BY <1>1, BehindAwaitKeeps, AnswerKeeps, MonitorKeeps, CloseIsQuiet, QuietKeeps
  <1>2. ASSUME NEW g \in DOMAIN wire, Network(g) PROVE ClientInvariant'
    BY <1>2, NetworkIsWireStep, WireOnly, QuietKeeps
  <1>3. CASE ClientStep
    BY <1>1, <1>2, <1>3 DEF ClientStep, Network
  <1>4. CASE AppStep
    BY <1>0, <1>4, AppKeeps, CancelConnectIsQuiet, DropKeeps, QuietKeeps DEF AppStep
  <1>5. ASSUME UNCHANGED <<clientVars, auth, wire>> PROVE ClientInvariant'
    BY <1>5, WireTypes, SameWire, WireOnly, QuietKeeps
  <1>6. CASE Outside
    <2>1. ASSUME NEW s \in Generations, TokenExpires(s) \/ HoldExpires(s) PROVE ClientInvariant'
      BY <1>5, <2>1 DEF TokenExpires, HoldExpires
    <2> QED
      BY <1>2, <1>6, <2>1 DEF Outside, Network
  <1>7. CASE UNCHANGED vars
    BY <1>5, <1>7 DEF vars, networkVars
  <1> QED
    BY <1>3, <1>4, <1>6, <1>7 DEF Next

(* It holds in the beginning. *)
LEMMA ClientInit == Init => ClientInvariant
  <1> SUFFICES ASSUME Init PROVE ClientInvariant
    OBVIOUS
  <1>1. /\ DOMAIN task = Calls /\ \A c \in Calls : task[c] = Idle
        /\ wire = <<>> /\ DOMAIN wire = {}
    BY DEF Init
  <1>2. Idle \in Tasks /\ Idle.at = "idle" /\ Idle.close = "done"
    BY TaskParts DEF Idle, Places, NoToken
  <1>3. ClientTypeOK
    <2>1. task \in [DOMAIN task -> Tasks]
      BY <1>1, <1>2 DEF Init
    <2>2. wire \in [DOMAIN wire -> Wires]
      BY <1>1
    <2> QED
      BY <1>1, <2>1, <2>2 DEF Init, ClientTypeOK
  <1>4. TaskInvariant
    BY <1>1, <1>2, MonitorFacts DEF TaskInvariant, PlaceFits, ShakesAlone, MonitorFits, Watches, Shaking, Closing
  <1>5. WireInvariant /\ MonitorInvariant /\ StateInvariant
    BY <1>1 DEF Init, WireInvariant, MonitorInvariant, StateInvariant, Trying
  <1> QED
    BY <1>3, <1>4, <1>5 DEF ClientInvariant

(* The inductive invariant of the client: tasks, transports, monitor and state agree,
   unless a task went on although another had begun meanwhile. *)
THEOREM ClientInvariantHolds == Spec => []ClientInvariant
  BY ClientInit, ClientNext, PTL DEF Spec

-----------------------------------------------------------------------------
(* At rest *)

(* Where the tasks are that rest. *)
LEMMA RestFacts ==
    ASSUME ClientInvariant, Rest, NEW c \in DOMAIN task
    PROVE  /\ WillSay(c) => Handshaking(c)
           /\ ~GivesUp(c)
           /\ task[c].at = "watch" => c \notin cancelled /\ On(c).link = "up"
           /\ task[c] # Ended /\ task[c].at \notin Shaking \cup {"watch"} =>
                 c \notin DOMAIN wire /\ (task[c].on \notin DOMAIN wire \/ On(c).link # "up")
  <1>1. Rests(c) /\ PlaceFits(c) /\ MonitorFits(c)
    BY DEF Rest, ClientInvariant, TaskInvariant
  <1>2. DOMAIN wire \subseteq Nat /\ 0 \notin DOMAIN wire
    BY MonitorFacts, ClientAssumption DEF ClientInvariant, ClientTypeOK, Generations
  <1>3. c \in DOMAIN wire => IsMonitor(c) /\ c \notin Disconnects
    BY <1>2, MonitorFacts
  <1>4. CASE task[c] \in {Idle, Ended}
    BY <1>1, <1>2, <1>3, <1>4 DEF Idle, Ended, Task, WillSay, GivesUp, Shaking, Closing, MonitorFits
  <1>5. CASE task[c].at \in Shaking
    BY <1>1, <1>5 DEF WillSay, GivesUp, Shaking, Closing, Handshaking, PlaceFits
  <1>6. CASE task[c].at = "watch"
    BY <1>1, <1>6 DEF WillSay, GivesUp, Shaking, Closing, Rests, At, Idle, Ended, Task, PlaceFits
  <1>7. CASE task[c].close = "queued" /\ On(c).link \in {"opening", "unopened"}
    BY <1>1, <1>3, <1>7 DEF WillSay, GivesUp, Shaking, Closing, PlaceFits, Began
  <1> QED
    BY <1>1, <1>4, <1>5, <1>6, <1>7 DEF Rests, At, Shaking

(* What the invariant says of a client at rest. *)
LEMMA RestIsConsistent == ClientInvariant => ConsistentAtRest
  <1> SUFFICES ASSUME ClientInvariant, Rest
               PROVE  /\ state \in {"connecting", "authenticating", "resuming"} => \E c \in DOMAIN task : Handshaking(c)
                      /\ overtaken \/ (state = "connected" <=> transport # 0 /\ transport = monitor)
                      /\ overtaken \/ \A g \in DOMAIN wire :
                            wire[g].link = "up" <=> \/ g = monitor
                                                   \/ \E c \in DOMAIN task : Handshaking(c) /\ task[c].on = g /\ On(c).link = "up"
    BY DEF ConsistentAtRest
  <1>0. StateInvariant /\ MonitorInvariant /\ TaskInvariant /\ 0 \notin DOMAIN wire
    BY ClientAssumption DEF ClientInvariant, ClientTypeOK, Generations
  <1>1. state \in {"connecting", "authenticating", "resuming"} => \E c \in DOMAIN task : Handshaking(c)
    BY <1>0, RestFacts DEF StateInvariant, Trying
  <1>2. ~overtaken => (state = "connected" <=> transport # 0 /\ transport = monitor)
    BY <1>0, RestFacts DEF StateInvariant
  <1>3. ASSUME ~overtaken, NEW g \in DOMAIN wire, wire[g].link = "up", g # monitor
        PROVE  \E c \in DOMAIN task : Handshaking(c) /\ task[c].on = g /\ On(c).link = "up"
    <2>1. \A c \in DOMAIN task : PlaceFits(c) /\ MonitorFits(c) /\ Watches(c)
      BY <1>0 DEF TaskInvariant
    <2>2. \A c \in DOMAIN task : task[c].at \in Shaking /\ task[c].on = g => Handshaking(c) /\ On(c).link = "up"
      BY <1>3, <2>1 DEF PlaceFits, Handshaking, On, Shaking
    <2>3. CASE transport = g
      BY <1>0, <1>3, <2>2, <2>3 DEF StateInvariant
    <2>4. ASSUME NEW c \in DOMAIN task, task[c] # Ended, g \in {c, task[c].on}
          PROVE  task[c].at \in Shaking /\ task[c].on = g
      <3>1. CASE task[c].at = "watch"
        <4>1. task[c].on = c /\ c \notin cancelled /\ (c = monitor \/ c \in cancelled)
          BY <1>3, <2>1, <3>1, RestFacts DEF Watches
        <4> QED
          BY <1>3, <2>4, <4>1
      <3>2. CASE task[c].at \in Shaking
        <4>1. c \in DOMAIN wire => IsMonitor(c)
          BY MonitorFacts DEF ClientInvariant, ClientTypeOK
        <4> QED
          BY <1>3, <2>1, <2>4, <3>2, <4>1 DEF MonitorFits, Gone
      <3>3. CASE task[c].at \notin Shaking \cup {"watch"}
        BY <1>3, <2>4, <3>3, RestFacts DEF On
      <3> QED
        BY <3>1, <3>2, <3>3
    <2>5. Referred(g)
      BY <1>3 DEF Rest
    <2> QED
      BY <2>2, <2>3, <2>4, <2>5 DEF Referred
  <1>4. ASSUME ~overtaken, monitor \in DOMAIN wire PROVE wire[monitor].link = "up"
    <2>1. monitor \in DOMAIN task /\ task[monitor].at = "watch"
      BY <1>0, <1>4 DEF MonitorInvariant
    <2> QED
      BY <1>0, <2>1, RestFacts DEF TaskInvariant, Watches, On
  <1>5. ASSUME ~overtaken, NEW g \in DOMAIN wire
        PROVE  wire[g].link = "up" <=> \/ g = monitor
                                      \/ \E c \in DOMAIN task : Handshaking(c) /\ task[c].on = g /\ On(c).link = "up"
    BY <1>3, <1>4, <1>5 DEF On
  <1> QED
    BY <1>1, <1>2, <1>5

(* However connects, disconnects, drops, losses and resumes interleave: when all has come
   to rest a client that says it is trying is at it, and unless a task overtook another,
   connected means that the current transport is up and monitored, and no link is up
   that nobody uses. *)
THEOREM RestIsAlwaysConsistent == Spec => []ConsistentAtRest
  BY ClientInvariantHolds, RestIsConsistent, PTL

-----------------------------------------------------------------------------
(* Streams *)

(* No result is new in p, and no request for a session: it is at the same place as in s,
   or one further. *)
NoNewResult(p, s) == \A i \in 1..Len(p) : p[i].kind = "ok" => \E j \in 1..Len(s) : p[i] = s[j]
NoNewRequest(p, s) ==
    \E k \in {0, 1} : \A i \in 1..Len(p) :
        p[i].kind \in Handshake => i + k \in 1..Len(s) /\ s[i + k].kind \in Handshake

(* What the client loses or reads, and what is no result, is no new result. *)
LEMMA ToldFacts ==
    ASSUME NEW s \in Seq(Told)
    PROVE  /\ \A p \in Prefixes(s) : NoNewResult(p, s)
           /\ NoNewResult(s, s) /\ NoNewResult(<<>>, s) /\ NoNewResult(<<[kind |-> "ack"]>>, s)
           /\ NoNewResult(Append(s, [kind |-> "goodbye"]), s)
           /\ \A m : m \in {<<>>, No} => NoNewResult(s \o m, s)
           /\ s # <<>> => NoNewResult(Tail(s), s)
  <1>1. \A p \in Prefixes(s) : NoNewResult(p, s)
    BY PrefixFacts DEF NoNewResult
  <1>2. NoNewResult(s, s) /\ NoNewResult(<<>>, s) /\ NoNewResult(<<[kind |-> "ack"]>>, s)
    BY DEF NoNewResult
  <1>3. NoNewResult(Append(s, [kind |-> "goodbye"]), s)
    BY MessageFacts DEF NoNewResult
  <1>4. NoNewResult(s \o <<>>, s)
    BY <1>2
  <1>5. NoNewResult(s \o No, s)
    <2>1. s \o No = Append(s, [kind |-> "no"])
      BY MessageFacts DEF No
    <2> QED
      BY <2>1, MessageFacts DEF NoNewResult
  <1>6. s # <<>> => NoNewResult(Tail(s), s)
    <2> SUFFICES ASSUME s # <<>>, NEW i \in 1..Len(Tail(s))
                 PROVE  \E j \in 1..Len(s) : Tail(s)[i] = s[j]
      BY DEF NoNewResult
    <2>1. i + 1 \in 1..Len(s) /\ Tail(s)[i] = s[i + 1]
      OBVIOUS
    <2> QED
      BY <2>1
  <1> QED
    BY <1>1, <1>2, <1>3, <1>4, <1>5, <1>6

(* What the host loses or reads, and a goodbye, is no new request. *)
LEMMA AskedFacts ==
    ASSUME NEW s \in Seq(Asked)
    PROVE  /\ \A p \in Prefixes(s) : NoNewRequest(p, s)
           /\ NoNewRequest(s, s)
           /\ NoNewRequest(Append(s, [kind |-> "goodbye"]), s)
           /\ s # <<>> => NoNewRequest(Tail(s), s)
  <1>1. ASSUME NEW p, \A i \in 1..Len(p) : p[i].kind \in Handshake => i \in 1..Len(s) /\ s[i].kind \in Handshake,
               Len(p) \in Nat
        PROVE  NoNewRequest(p, s)
    <2>1. \A i \in 1..Len(p) : i + 0 = i
      BY <1>1
    <2> QED
      BY <1>1, <2>1 DEF NoNewRequest
  <1>2. \A p \in Prefixes(s) : NoNewRequest(p, s)
    BY <1>1, PrefixFacts
  <1>3. NoNewRequest(s, s)
    BY <1>1
  <1>4. NoNewRequest(Append(s, [kind |-> "goodbye"]), s)
    <2> DEFINE p == Append(s, [kind |-> "goodbye"])
    <2>1. p \in Seq(Asked) /\ Len(p) = Len(s) + 1 /\ p[Len(p)] = [kind |-> "goodbye"]
          /\ \A i \in 1..Len(s) : p[i] = s[i]
      BY MessageFacts
    <2> HIDE DEF p
    <2>2. \A i \in 1..Len(p) : i \in 1..Len(s) \/ i = Len(p)
      BY <2>1
    <2>3. p[Len(p)].kind \notin Handshake
      BY <2>1 DEF Handshake
    <2>4. \A i \in 1..Len(p) : p[i].kind \in Handshake => i \in 1..Len(s) /\ s[i].kind \in Handshake
      BY <2>1, <2>2, <2>3
    <2>5. NoNewRequest(p, s)
      BY <1>1, <2>1, <2>4
    <2> QED
      BY <2>5 DEF p
  <1>5. s # <<>> => NoNewRequest(Tail(s), s)
    <2> SUFFICES ASSUME s # <<>>
                 PROVE  \A i \in 1..Len(Tail(s)) :
                            Tail(s)[i].kind \in Handshake => i + 1 \in 1..Len(s) /\ s[i + 1].kind \in Handshake
      BY DEF NoNewRequest
    <2>1. \A i \in 1..Len(Tail(s)) : i + 1 \in 1..Len(s) /\ Tail(s)[i] = s[i + 1]
      OBVIOUS
    <2> QED
      BY <2>1
  <1> QED
    BY <1>2, <1>3, <1>4, <1>5

-----------------------------------------------------------------------------
(* Transports nobody is asked or told anything new on *)

(* A session streamed to transport g stays streamed to it. *)
StillStreams(g) ==
    \A s \in Generations : \A t :
        phase[s] = "Active" /\ holder[s] = {g} /\ t \in good[s] =>
            phase'[s] = "Active" /\ holder'[s] = {g} /\ t \in good'[s]

Calm(g) ==
    /\ NoNewResult(wire'[g].in, wire[g].in)
    /\ NoNewRequest(wire'[g].out, wire[g].out)
    /\ HostMoves(wire[g].host, wire'[g].host)
    /\ wire'[g].host = "serving" => StillStreams(g)

(* On a calm transport nothing turns wrong. *)
LEMMA CalmFacts ==
    ASSUME NEW g \in DOMAIN wire, wire[g].in \in Seq(Told), wire[g].out \in Seq(Asked),
           wire'[g].in \in Seq(Told), wire'[g].out \in Seq(Asked), Calm(g)
    PROVE  /\ ToldRight(g) => ToldRight(g)'
           /\ AskedOnce(g) => AskedOnce(g)'
           /\ NotAsked(g) => NotAsked(g)'
           /\ \A b : Streamed(g, b) => (Streamed(g, b))'
  <1>1. ASSUME NEW b, Streamed(g, b) PROVE (Streamed(g, b))'
    BY <1>1 DEF Streamed, Calm, HostMoves, StillStreams
  <1>2. ToldRight(g) => ToldRight(g)'
    <2> SUFFICES ASSUME ToldRight(g), NEW i \in 1..Len(wire'[g].in), wire'[g].in[i].kind = "ok"
                 PROVE  (Streamed(g, wire[g].in[i]))'
      BY DEF ToldRight
    <2>1. PICK j \in 1..Len(wire[g].in) : wire'[g].in[i] = wire[g].in[j]
      BY DEF Calm, NoNewResult
    <2>2. PICK m : m = wire[g].in[j]
      OBVIOUS
    <2>3. Streamed(g, m)
      BY <2>1, <2>2 DEF ToldRight
    <2>4. (Streamed(g, m))'
      BY <1>1, <2>3
    <2> QED
      BY <2>1, <2>2, <2>4
  <1>3. PICK k \in {0, 1} : \A i \in 1..Len(wire'[g].out) :
           wire'[g].out[i].kind \in Handshake => i + k \in 1..Len(wire[g].out) /\ wire[g].out[i + k].kind \in Handshake
    BY DEF Calm, NoNewRequest
  <1>4. AskedOnce(g) => AskedOnce(g)'
    <2> SUFFICES ASSUME AskedOnce(g), NEW i \in 1..Len(wire'[g].out), wire'[g].out[i].kind \in Handshake
                 PROVE  /\ wire'[g].host \in Undecided
                        /\ \A j \in 1..Len(wire'[g].out) : wire'[g].out[j].kind \in Handshake => j = i
      BY DEF AskedOnce
    <2>1. i + k \in 1..Len(wire[g].out) /\ wire[g].out[i + k].kind \in Handshake
      BY <1>3
    <2>2. wire'[g].host \in Undecided
      BY <2>1 DEF AskedOnce, Calm, HostMoves
    <2>3. ASSUME NEW j \in 1..Len(wire'[g].out), wire'[g].out[j].kind \in Handshake PROVE j = i
      <3>1. j + k \in 1..Len(wire[g].out) /\ wire[g].out[j + k].kind \in Handshake
        BY <1>3, <2>3
      <3>2. j + k = i + k
        BY <2>1, <3>1 DEF AskedOnce
      <3> QED
        BY <3>2
    <2> QED
      BY <2>2, <2>3
  <1>5. NotAsked(g) => NotAsked(g)'
    BY <1>3 DEF NotAsked, Calm, HostMoves
  <1> QED
    BY <1>1, <1>2, <1>4, <1>5

-----------------------------------------------------------------------------
(* What keeps the agreement *)

(* All transports but those in X are calm; those keep it in their own way. *)
LEMMA AgreementStep ==
    ASSUME ClientInvariant, ClientInvariant', AgreementInvariant, HostTypeOK', auth, auth',
           DOMAIN wire \subseteq DOMAIN wire',
           \A g \in DOMAIN wire' \ DOMAIN wire : wire'[g] = NewWire,
           NEW X \in SUBSET DOMAIN wire,
           \A g \in DOMAIN wire \ X : Calm(g),
           \A g \in X : ToldRight(g)' /\ AskedOnce(g)' /\ \A b : Streamed(g, b) => (Streamed(g, b))',
           \A d \in DOMAIN task' : task'[d].at \in {"open", "token"} =>
              \/ /\ d \in DOMAIN task /\ task[d].at \in {"open", "token"}
                 /\ task'[d].on = task[d].on /\ task[d].on \notin X
              \/ task'[d].on \in DOMAIN wire' \ DOMAIN wire,
           ~overtaken' /\ monitor' # 0 =>
              \/ ~overtaken /\ monitor' = monitor /\ binding' = binding
              \/ monitor' \in DOMAIN wire /\ \E b \in binding' : Streamed(monitor', b)
    PROVE  AgreementInvariant'
  <1>0. /\ SpokenInvariant /\ AskedInvariant /\ BoundInvariant
        /\ \A g \in DOMAIN wire : wire[g].in \in Seq(Told) /\ wire[g].out \in Seq(Asked)
        /\ \A g \in DOMAIN wire' : wire'[g].in \in Seq(Told) /\ wire'[g].out \in Seq(Asked)
    BY DEF AgreementInvariant, ClientInvariant, ClientTypeOK, Wires
  <1>1. \A g \in DOMAIN wire \ X : /\ ToldRight(g)' /\ AskedOnce(g)'
                                   /\ NotAsked(g) => NotAsked(g)'
                                   /\ \A b : Streamed(g, b) => (Streamed(g, b))'
    BY <1>0, CalmFacts DEF SpokenInvariant
  <1>2. \A g \in DOMAIN wire' \ DOMAIN wire : ToldRight(g)' /\ AskedOnce(g)' /\ NotAsked(g)'
    BY DEF NewWire, ToldRight, AskedOnce, NotAsked, Undecided
  <1>3. SpokenInvariant'
    BY <1>1, <1>2 DEF SpokenInvariant
  <1>4. AskedInvariant'
    <2> SUFFICES ASSUME NEW d \in DOMAIN task', task'[d].at \in {"open", "token"}
                 PROVE  (NotAsked(task[d].on))'
      BY DEF AskedInvariant
    <2>1. CASE task'[d].on \in DOMAIN wire' \ DOMAIN wire
      <3>1. PICK g \in DOMAIN wire' \ DOMAIN wire : g = task'[d].on
        BY <2>1
      <3>2. NotAsked(g)'
        BY <1>2
      <3> QED
        BY <3>1, <3>2 DEF NotAsked
    <2>2. CASE /\ d \in DOMAIN task /\ task[d].at \in {"open", "token"}
               /\ task'[d].on = task[d].on /\ task[d].on \notin X
      <3>1. task[d].on \in DOMAIN wire
        BY <2>2 DEF ClientInvariant, TaskInvariant, PlaceFits, Shaking
      <3>2. NotAsked(task[d].on)
        BY <1>0, <2>2 DEF AskedInvariant
      <3>3. PICK g \in DOMAIN wire : g = task[d].on /\ g = task'[d].on
        BY <2>2, <3>1
      <3>4. NotAsked(g)'
        BY <1>1, <2>2, <3>2, <3>3
      <3> QED
        BY <3>3, <3>4 DEF NotAsked
    <2> QED
      BY <2>1, <2>2
  <1>5. \A g \in DOMAIN wire : \A b : Streamed(g, b) => (Streamed(g, b))'
    BY <1>1
  <1>6. BoundInvariant'
    <2> SUFFICES ASSUME ~overtaken', monitor' # 0
                 PROVE  \E b \in binding' : (Streamed(monitor, b))'
      BY DEF BoundInvariant
    <2>1. monitor' \in DOMAIN wire /\ \E b \in binding' : Streamed(monitor', b)
      <3>1. monitor \in {0} \cup DOMAIN wire
        BY DEF ClientInvariant, ClientTypeOK
      <3> QED
        BY <1>0, <3>1 DEF BoundInvariant
    <2>2. PICK g \in DOMAIN wire, b \in binding' : g = monitor' /\ Streamed(g, b)
      BY <2>1
    <2>3. (Streamed(g, b))'
      BY <1>5, <2>2
    <2> QED
      BY <2>2, <2>3 DEF Streamed
  <1> QED
    BY <1>3, <1>4, <1>6 DEF AgreementInvariant

(* A step of the host's sessions is about one of them. *)
LEMMA HostStep ==
    ASSUME HostTypeOK, NEW s \in Generations,
           \/ \E g, t \in Generations : Host!Create(s, g, t) \/ \E before : Host!Resume(s, g, before, t)
           \/ Host!Hold(s) \/ Host!Terminate(s) \/ Host!Abandon(s) \/ Host!Expire({s})
    PROVE  /\ HostTypeOK'
           /\ \A h : phase[s] # "Active" \/ holder[s] # {h} => StillStreams(h)
  <1>1. /\ HostTypeOK'
        /\ \A r \in Generations : r # s => phase'[r] = phase[r] /\ holder'[r] = holder[r] /\ good'[r] = good[r]
    <2>1. CASE \E g, t \in Generations : Host!Stream(s, g, t)
      BY <2>1 DEF HostTypeOK, Host!Stream
    <2>2. CASE \E g, t \in Generations : Host!Create(s, g, t) \/ \E before : Host!Resume(s, g, before, t)
      BY <2>1, <2>2 DEF Host!Create, Host!Resume
    <2>3. CASE Host!Hold(s)
      BY <2>3 DEF HostTypeOK, Host!Hold
    <2>4. CASE Host!Terminate(s)
      BY <2>4 DEF HostTypeOK, Host!Terminate
    <2>5. CASE Host!Abandon(s)
      BY <2>5 DEF HostTypeOK, Host!Abandon
    <2>6. CASE Host!Expire({s})
      BY <2>6 DEF HostTypeOK, Host!Expire
    <2> QED
      BY <2>2, <2>3, <2>4, <2>5, <2>6
  <1>2. ASSUME NEW h, phase[s] # "Active" \/ holder[s] # {h} PROVE StillStreams(h)
    BY <1>1, <1>2 DEF StillStreams
  <1> QED
    BY <1>1, <1>2

(* Without a step of the host's sessions. *)
LEMMA HostRests ==
    ASSUME HostTypeOK, UNCHANGED hostVars
    PROVE  HostTypeOK' /\ \A h : StillStreams(h)
  BY DEF HostTypeOK, StillStreams, hostVars

(* One transport changes, calmly. *)
LEMMA CalmPut ==
    ASSUME ClientInvariant, NEW g \in DOMAIN wire, NEW link, NEW out, NEW in, NEW host,
           wire' = [wire EXCEPT ![g] = WireOf(link, out, in, host)],
           NoNewResult(in, wire[g].in), NoNewRequest(out, wire[g].out), HostMoves(wire[g].host, host),
           host = "serving" => StillStreams(g),
           \A h \in DOMAIN wire : h # g => StillStreams(h)
    PROVE  \A h \in DOMAIN wire : Calm(h)
  <1>1. PICK w : w = WireOf(link, out, in, host)
    OBVIOUS
  <1>2. wire'[g] = w /\ \A h \in DOMAIN wire : h # g => wire'[h] = wire[h]
    BY <1>1 DEF ClientInvariant, ClientTypeOK
  <1>3. w.in = in /\ w.out = out /\ w.host = host
    BY <1>1, WireParts
  <1>4. Calm(g)
    BY <1>2, <1>3 DEF Calm
  <1>5. ASSUME NEW h \in DOMAIN wire, h # g PROVE Calm(h)
    <2>1. wire[h].in \in Seq(Told) /\ wire[h].out \in Seq(Asked)
      BY DEF ClientInvariant, ClientTypeOK, Wires
    <2> QED
      BY <1>2, <1>5, <2>1, ToldFacts, AskedFacts DEF Calm, HostMoves
  <1> QED
    BY <1>4, <1>5

-----------------------------------------------------------------------------
(* The network and the host *)

(* A step of theirs leaves tasks and binding alone. *)
LEMMA CalmOutside ==
    ASSUME ClientInvariant, ClientInvariant', AgreementInvariant, HostTypeOK',
           UNCHANGED <<clientVars, auth>>, DOMAIN wire' = DOMAIN wire,
           auth => \A g \in DOMAIN wire : Calm(g)
    PROVE  AgreementInvariant'
  <1>1. CASE ~auth
    BY <1>1 DEF AgreementInvariant
  <1>2. CASE auth
    <2>1. {} \in SUBSET DOMAIN wire
      OBVIOUS
    <2>2. UNCHANGED <<task, overtaken, monitor, binding>>
      BY DEF clientVars, transportVars, sessionVars
    <2> QED
      BY <1>2, <2>1, <2>2, AgreementStep
  <1> QED
    BY <1>1, <1>2

(* The host begins to stream session s to transport g, which asked for that. *)
LEMMA AdmissionAgrees ==
    ASSUME ClientInvariant, ClientInvariant', AgreementInvariant, auth,
           NEW g \in DOMAIN wire, NEW s \in Generations,
           UNCHANGED <<clientVars, auth>>,
           Hears(g, "authenticate") \/ Hears(g, "resume"),
           Host!Create(s, g, g) \/ \E before : Host!Resume(s, g, before, g),
           Says(g, Ok(s, g), Serving(g))
    PROVE  AgreementInvariant'
  <1> DEFINE out == Tail(wire[g].out)
             in == IF Heard(g) THEN wire[g].in \o Ok(s, g) ELSE wire[g].in
  <1>0. /\ WireTypeOK /\ HostTypeOK /\ g \in Generations
        /\ SpokenInvariant /\ AskedInvariant /\ UNCHANGED <<task, overtaken, monitor, binding>>
        /\ wire[g].in \in Seq(Told) /\ wire[g].out \in Seq(Asked) /\ wire[g].out # <<>>
        /\ wire[g].host \in Hosts /\ wire[g].host # "over"
    BY WireTypes DEF AgreementInvariant, clientVars, transportVars, sessionVars,
                     ClientInvariant, ClientTypeOK, Wires, Hears
  <1>1. Ok(s, g) \in Seq(Told) /\ Serving(g) \in {"serving", "cut", "over"}
    BY <1>0, MessageFacts DEF Ok, Serving
  <1>2. DOMAIN wire' = DOMAIN wire /\ wire' = [wire EXCEPT ![g] = WireOf(wire[g].link, out, in, Serving(g))]
    BY <1>0, <1>1, SaysIsWireStep
  <1> HIDE DEF out, in
  <1>3. PICK w : w = WireOf(wire[g].link, out, in, Serving(g))
    OBVIOUS
  <1>4. /\ wire'[g] = w /\ \A h \in DOMAIN wire : h # g => wire'[h] = wire[h]
        /\ w.out = out /\ w.in = in /\ w.host = Serving(g)
    BY <1>0, <1>2, <1>3, WireParts DEF WireTypeOK
  <1>5. wire[g].out[1].kind \in Handshake /\ 1 \in 1..Len(wire[g].out)
    BY <1>0 DEF Hears, Handshake
  <1>6. /\ wire[g].host \in {"waiting", "listening"}
        /\ \A i \in 1..Len(wire[g].out) : wire[g].out[i].kind \in Handshake => i = 1
    BY <1>0, <1>5 DEF SpokenInvariant, AskedOnce, Undecided
  <1>7. \A i \in 1..Len(wire[g].in) : wire[g].in[i].kind # "ok"
    BY <1>0, <1>6 DEF SpokenInvariant, ToldRight, Streamed
  <1>8. \A i \in 1..Len(out) : out[i].kind \notin Handshake
    <2>1. \A i \in 1..Len(out) : i + 1 \in 1..Len(wire[g].out) /\ out[i] = wire[g].out[i + 1] /\ i + 1 # 1
      BY <1>0 DEF out
    <2> QED
      BY <1>6, <2>1
  <1>9. phase[s] # "Active" /\ phase'[s] = "Active" /\ holder'[s] = {g} /\ good'[s] = {g}
    BY <1>0 DEF Host!Create, Host!Resume, Host!Stream, HostTypeOK
  <1>10. HostTypeOK' /\ \A h : StillStreams(h)
    BY <1>0, <1>9, HostStep
  <1>11. ToldRight(g)'
    <2> SUFFICES ASSUME NEW i \in 1..Len(in), in[i].kind = "ok"
                 PROVE  (Streamed(g, in[i]))'
      BY <1>4 DEF ToldRight, in
    <2>1. in[i] = [kind |-> "ok", session |-> s, token |-> g]
      <3>1. CASE ~Heard(g)
        BY <1>7, <3>1 DEF in
      <3>2. CASE Heard(g)
        <4>1. in = Append(wire[g].in, [kind |-> "ok", session |-> s, token |-> g])
          BY <1>0, <3>2, MessageFacts DEF in, Ok
        <4> QED
          BY <1>0, <1>7, <4>1, MessageFacts
      <3> QED
        BY <3>1, <3>2
    <2>2. PICK m : m = in[i]
      OBVIOUS
    <2>3. m.session = s /\ m.token = g
      BY <2>1, <2>2
    <2> QED
      BY <1>4, <1>9, <2>2, <2>3 DEF Streamed, Serving, in
  <1>12. AskedOnce(g)'
    BY <1>4, <1>8 DEF AskedOnce
  <1>13. \A b : Streamed(g, b) => (Streamed(g, b))'
    BY <1>6 DEF Streamed
  <1>14. \A h \in DOMAIN wire \ {g} : Calm(h)
    <2> SUFFICES ASSUME NEW h \in DOMAIN wire, h # g PROVE Calm(h)
      OBVIOUS
    <2>1. wire[h].in \in Seq(Told) /\ wire[h].out \in Seq(Asked)
      BY DEF ClientInvariant, ClientTypeOK, Wires
    <2> QED
      BY <1>4, <1>10, <2>1, ToldFacts, AskedFacts DEF Calm, HostMoves
  <1>15. \A d \in DOMAIN task : task[d].at \in {"open", "token"} => task[d].on # g
    BY <1>0, <1>5 DEF AskedInvariant, NotAsked
  <1>16. {g} \in SUBSET DOMAIN wire
    OBVIOUS
  <1> QED
    BY <1>0, <1>2, <1>10, <1>11, <1>12, <1>13, <1>14, <1>15, <1>16, AgreementStep

(* Every step of the network or the host. *)
LEMMA NetworkAgrees ==
    ASSUME ClientInvariant, ClientInvariant', AgreementInvariant, NEW g \in DOMAIN wire, Network(g)
    PROVE  AgreementInvariant'
  <1>0. /\ WireTypeOK /\ HostTypeOK /\ DOMAIN wire \subseteq Generations
        /\ wire[g] \in Wires /\ wire[g].in \in Seq(Told) /\ wire[g].out \in Seq(Asked)
        /\ DOMAIN wire' = DOMAIN wire /\ UNCHANGED <<clientVars, auth>>
    BY WireTypes, NetworkIsWireStep DEF AgreementInvariant, ClientInvariant, ClientTypeOK, Wires
  <1>1. HostMoves(wire[g].host, "over")
    BY DEF HostMoves, Undecided
  <1>2. ASSUME NEW s \in Streams(g), Host!Hold(s) \/ Host!Terminate(s) \/ Host!Abandon(s)
        PROVE  HostTypeOK' /\ \A h \in DOMAIN wire : h # g => StillStreams(h)
    <2>1. s \in Generations /\ \A h \in DOMAIN wire : h # g => holder[s] # {h}
      BY <1>2 DEF Streams
    <2> QED
      BY <1>0, <1>2, <2>1, HostStep
  <1>3. ASSUME Ends(Streams(g)) PROVE HostTypeOK' /\ \A h \in DOMAIN wire : h # g => StillStreams(h)
    BY <1>0, <1>2, <1>3, HostRests DEF Ends
  <1>4. CASE Plain(g) /\ ~Notices(g)
    <2>1. UNCHANGED hostVars
      BY <1>4 DEF Plain, Start, Deinit, Opens, Lose, AcksHello, SaysGoodbye, networkVars
    <2>2. HostTypeOK' /\ \A h : StillStreams(h)
      BY <1>0, <2>1, HostRests
    <2>3. PICK link, out, in, host :
                 /\ wire' = [wire EXCEPT ![g] = WireOf(link, out, in, host)]
                 /\ out \in Prefixes(wire[g].out) \cup {wire[g].out}
                 /\ in \in Prefixes(wire[g].in) \cup
                           {wire[g].in, <<>>, <<[kind |-> "ack"]>>, Append(wire[g].in, [kind |-> "goodbye"])}
                 /\ auth => HostMoves(wire[g].host, host)
      BY <1>4, PlainIsWireStep
    <2>4. NoNewResult(in, wire[g].in) /\ NoNewRequest(out, wire[g].out)
      BY <1>0, <2>3, ToldFacts, AskedFacts
    <2>5. auth => \A h \in DOMAIN wire : Calm(h)
      BY <2>2, <2>3, <2>4, CalmPut
    <2> QED
      BY <1>0, <2>2, <2>5, CalmOutside
  <1>5. CASE Notices(g)
    <2>1. wire' = [wire EXCEPT ![g] = WithHost(wire[g], "over")]
      BY <1>5 DEF Notices, WithHost
    <2>2. wire' = [wire EXCEPT ![g] = WireOf(wire[g].link, wire[g].out, wire[g].in, "over")]
      BY <1>0, <2>1, WireRecord
    <2>3. HostTypeOK' /\ \A h \in DOMAIN wire : h # g => StillStreams(h)
      BY <1>0, <1>2, <1>3, <1>5, HostRests DEF Notices
    <2>4. NoNewResult(wire[g].in, wire[g].in) /\ NoNewRequest(wire[g].out, wire[g].out)
      BY <1>0, ToldFacts, AskedFacts
    <2>5. \A h \in DOMAIN wire : Calm(h)
      BY <1>1, <2>2, <2>3, <2>4, CalmPut
    <2> QED
      BY <1>0, <2>3, <2>5, CalmOutside
  <1>6. ASSUME NEW kind, Hears(g, kind), NEW m \in {<<>>, No}, Says(g, m, "over"),
               HostTypeOK', \A h \in DOMAIN wire : h # g => StillStreams(h)
        PROVE  AgreementInvariant'
    <2> DEFINE out == Tail(wire[g].out)
               in == IF Heard(g) THEN wire[g].in \o m ELSE wire[g].in
    <2>1. m \in Seq(Told)
      <3>1. <<>> \in Seq(Told) /\ No \in Seq(Told)
        BY MessageFacts DEF No
      <3> QED
        BY <1>6, <3>1
    <2>2. wire' = [wire EXCEPT ![g] = WireOf(wire[g].link, out, in, "over")]
      BY <1>0, <1>6, <2>1, SaysIsWireStep
    <2>3. NoNewResult(in, wire[g].in) /\ NoNewRequest(out, wire[g].out)
      BY <1>0, <1>6, ToldFacts, AskedFacts DEF Hears
    <2> HIDE DEF in, out
    <2>4. \A h \in DOMAIN wire : Calm(h)
      BY <1>1, <1>6, <2>2, <2>3, CalmPut
    <2> QED
      BY <1>0, <1>6, <2>4, CalmOutside
  <1>7. CASE HearsGoodbye(g)
    BY <1>3, <1>6, <1>7 DEF HearsGoodbye
  <1>8. ASSUME Hears(g, "authenticate") \/ Hears(g, "resume"), Says(g, No, "over") /\ UNCHANGED hostVars
        PROVE  AgreementInvariant'
    BY <1>0, <1>6, <1>8, HostRests
  <1>9. ASSUME Hears(g, "authenticate") \/ Hears(g, "resume"), NEW s \in Generations,
               Host!Create(s, g, g) \/ \E before : Host!Resume(s, g, before, g),
               Says(g, Ok(s, g), Serving(g))
        PROVE  AgreementInvariant'
    <2>1. CASE auth
      BY <1>0, <1>9, <2>1, AdmissionAgrees
    <2>2. CASE ~auth
      <3>1. HostTypeOK'
        BY <1>0, <1>9, HostStep
      <3> QED
        BY <1>0, <2>2, <3>1 DEF AgreementInvariant
    <2> QED
      BY <2>1, <2>2
  <1>10. CASE Admits(g)
    BY <1>0, <1>8, <1>9, <1>10 DEF Admits
  <1>11. CASE Resumes(g)
    BY <1>0, <1>8, <1>9, <1>11 DEF Resumes
  <1> QED
    BY <1>4, <1>5, <1>7, <1>10, <1>11 DEF Network, Plain

(* A token or a hold expires. *)
LEMMA ExpiryAgrees ==
    ASSUME ClientInvariant, ClientInvariant', AgreementInvariant,
           NEW s \in Generations, TokenExpires(s) \/ HoldExpires(s)
    PROVE  AgreementInvariant'
  <1>1. UNCHANGED <<clientVars, auth>> /\ wire' = wire
    BY DEF TokenExpires, HoldExpires
  <1>2. HostTypeOK' /\ \A h : StillStreams(h)
    <2>1. CASE TokenExpires(s)
      BY <2>1, HostRests DEF TokenExpires, AgreementInvariant
    <2>2. CASE HoldExpires(s)
      BY <2>2, HostStep DEF HoldExpires, AgreementInvariant
    <2> QED
      BY <2>1, <2>2
  <1>3. ASSUME NEW h \in DOMAIN wire PROVE Calm(h)
    <2>1. wire[h].in \in Seq(Told) /\ wire[h].out \in Seq(Asked)
      BY DEF ClientInvariant, ClientTypeOK, Wires
    <2> QED
      BY <1>1, <1>2, <2>1, ToldFacts, AskedFacts DEF Calm, HostMoves
  <1> QED
    BY <1>1, <1>2, <1>3, CalmOutside

-----------------------------------------------------------------------------
(* The client *)

(* Its binding and its monitor stay, or there is no monitor. *)
StaysBound ==
    ~overtaken' /\ monitor' # 0 => ~overtaken /\ monitor' = monitor /\ binding' = binding

(* A step in which it asks for nothing and adopts no result. *)
LEMMA CalmClient ==
    ASSUME ClientInvariant, ClientInvariant', AgreementInvariant, UNCHANGED <<auth, hostVars>>,
           \/ wire' = wire
           \/ \E g : g \notin DOMAIN wire /\ wire' = With(wire, g, NewWire)
           \/ \E g \in DOMAIN wire : \E link, out, in :
                 /\ wire' = [wire EXCEPT ![g] = WireOf(link, out, in, wire[g].host)]
                 /\ NoNewResult(in, wire[g].in) /\ NoNewRequest(out, wire[g].out),
           auth => \A d \in DOMAIN task' : task'[d].at \in {"open", "token"} =>
              \/ d \in DOMAIN task /\ task[d].at \in {"open", "token"} /\ task'[d].on = task[d].on
              \/ task'[d].on \in DOMAIN wire' \ DOMAIN wire,
           auth /\ ~overtaken' /\ monitor' # 0 =>
              \/ ~overtaken /\ monitor' = monitor /\ binding' = binding
              \/ monitor' \in DOMAIN wire /\ \E b \in binding' : Streamed(monitor', b)
    PROVE  AgreementInvariant'
  <1>0. HostTypeOK' /\ \A h : StillStreams(h)
    BY HostRests DEF AgreementInvariant
  <1>1. \A h \in DOMAIN wire : wire[h].in \in Seq(Told) /\ wire[h].out \in Seq(Asked)
    BY DEF ClientInvariant, ClientTypeOK, Wires
  <1>2. ASSUME NEW h \in DOMAIN wire, wire'[h] = wire[h] PROVE Calm(h)
    BY <1>0, <1>1, <1>2, ToldFacts, AskedFacts DEF Calm, HostMoves
  <1>3. /\ \A h \in DOMAIN wire : Calm(h)
        /\ DOMAIN wire \subseteq DOMAIN wire' /\ \A h \in DOMAIN wire' \ DOMAIN wire : wire'[h] = NewWire
    <2>1. CASE wire' = wire
      BY <1>2, <2>1
    <2>2. CASE \E g : g \notin DOMAIN wire /\ wire' = With(wire, g, NewWire)
      <3>1. PICK g : g \notin DOMAIN wire /\ wire' = With(wire, g, NewWire)
        BY <2>2
      <3>2. /\ DOMAIN wire' = DOMAIN wire \cup {g} /\ wire'[g] = NewWire
            /\ \A h \in DOMAIN wire : wire'[h] = wire[h]
        BY <3>1 DEF With
      <3> QED
        BY <1>2, <3>2
    <2>3. CASE \E g \in DOMAIN wire : \E link, out, in :
                 /\ wire' = [wire EXCEPT ![g] = WireOf(link, out, in, wire[g].host)]
                 /\ NoNewResult(in, wire[g].in) /\ NoNewRequest(out, wire[g].out)
      <3>1. PICK g \in DOMAIN wire : \E link, out, in :
                 /\ wire' = [wire EXCEPT ![g] = WireOf(link, out, in, wire[g].host)]
                 /\ NoNewResult(in, wire[g].in) /\ NoNewRequest(out, wire[g].out)
        BY <2>3
      <3>2. HostMoves(wire[g].host, wire[g].host)
        BY DEF HostMoves
      <3>3. \A h \in DOMAIN wire : Calm(h)
        BY <1>0, <3>1, <3>2, CalmPut
      <3>4. DOMAIN wire' = DOMAIN wire
        BY <3>1
      <3> QED
        BY <3>3, <3>4
    <2> QED
      BY <2>1, <2>2, <2>3
  <1>4. {} \in SUBSET DOMAIN wire
    OBVIOUS
  <1>5. CASE ~auth
    BY <1>0, <1>5 DEF AgreementInvariant
  <1>6. CASE auth
    BY <1>0, <1>3, <1>4, <1>6, AgreementStep
  <1> QED
    BY <1>5, <1>6

(* A task goes to wait, or ends. *)
LEMMA PutAgrees ==
    ASSUME ClientInvariant, ClientInvariant', AgreementInvariant, UNCHANGED <<auth, hostVars>>,
           NEW c \in DOMAIN task, NEW t, Put(c, t), t.at \notin {"open", "token"}, wire' = wire, StaysBound
    PROVE  AgreementInvariant'
  <1>1. DOMAIN task' = DOMAIN task /\ task'[c] = t /\ \A d \in DOMAIN task : d # c => task'[d] = task[d]
    BY DEF Put, ClientInvariant, ClientTypeOK
  <1> QED
    BY <1>1, CalmClient DEF StaysBound

(* A task opens a transport, which nobody has asked anything on. *)
LEMMA OpenAgrees ==
    ASSUME ClientInvariant, ClientInvariant', AgreementInvariant, UNCHANGED <<auth, hostVars>>,
           NEW c \in DOMAIN task, NEW token, OpenTransport(c, token), StaysBound
    PROVE  AgreementInvariant'
  <1>0. PICK g : g = generation + 1
    OBVIOUS
  <1>1. g \notin DOMAIN wire
    BY <1>0, ClientAssumption DEF ClientInvariant, ClientTypeOK, Generations
  <1>2. wire' = With(wire, g, NewWire) /\ task' = [task EXCEPT ![c] = Task("open", g, "done", token)]
    BY <1>0 DEF OpenTransport, Put
  <1>3. g \in DOMAIN wire'
    BY <1>2 DEF With
  <1>4. PICK t : t = Task("open", g, "done", token) /\ t.on = g
    BY TaskParts
  <1>5. DOMAIN task' = DOMAIN task /\ task'[c] = t /\ \A d \in DOMAIN task : d # c => task'[d] = task[d]
    BY <1>2, <1>4 DEF ClientInvariant, ClientTypeOK
  <1> QED
    BY <1>1, <1>2, <1>3, <1>4, <1>5, CalmClient DEF StaysBound

(* A task gives the transport up, and with it the monitor. *)
LEMMA InvalidateAgrees ==
    ASSUME ClientInvariant, ClientInvariant', AgreementInvariant, UNCHANGED <<auth, hostVars>>,
           NEW c \in DOMAIN task, NEW place \in Closing, NEW close, Invalidate(c, place, close)
    PROVE  AgreementInvariant'
  <1>1. PICK t : t = Task(place, transport, close, task[c].token) /\ t.at = place
    BY TaskParts
  <1>2. Put(c, t) /\ wire' = wire /\ monitor' = 0
    BY <1>1 DEF Invalidate, CancelMonitor
  <1> QED
    BY <1>1, <1>2, PutAgrees DEF Closing, StaysBound

(* A task ends. *)
LEMMA EndAgrees ==
    ASSUME ClientInvariant, ClientInvariant', AgreementInvariant, UNCHANGED <<auth, hostVars>>,
           NEW c \in DOMAIN task, Put(c, Ended), wire' = wire, StaysBound
    PROVE  AgreementInvariant'
  <1>1. PICK t : t = Ended /\ t.at = "ended"
    BY TaskParts DEF Ended
  <1> QED
    BY <1>1, PutAgrees

(* The catch of a handshake. *)
LEMMA CatchAgrees ==
    ASSUME ClientInvariant, ClientInvariant', AgreementInvariant, UNCHANGED <<auth, hostVars>>,
           NEW c \in DOMAIN task, NEW meanwhile, Catch(c, meanwhile)
    PROVE  AgreementInvariant'
  <1>1. CASE Invalidate(c, "failed", "plain")
    BY <1>1, InvalidateAgrees DEF Closing
  <1>2. CASE NothingToClose /\ Fail(c)
    BY <1>2, EndAgrees DEF NothingToClose, CancelMonitor, Fail, StaysBound
  <1> QED
    BY <1>1, <1>2 DEF Catch

(* The binding is cleared where there is no monitor, unless a task is overtaken. *)
LEMMA ClearedIsUnbound ==
    ASSUME ClientInvariant, Overtakes, monitor' = monitor
    PROVE  StaysBound
  <1>1. overtaken \in BOOLEAN
    BY DEF ClientInvariant, ClientTypeOK
  <1> QED
    BY <1>1, NoTransportFacts DEF Overtakes, StaysBound

(* What the client does when the host has said no. *)
LEMMA RefusedAgrees ==
    ASSUME ClientInvariant, ClientInvariant', AgreementInvariant, UNCHANGED <<auth, hostVars>>,
           NEW c \in DOMAIN task, Refused(c)
    PROVE  AgreementInvariant'
  <1>1. CASE task[c].token = NoToken
    BY <1>1, CatchAgrees DEF Refused
  <1>2. CASE task[c].token # NoToken
    <2>1. StaysBound
      BY <1>2, ClearedIsUnbound DEF Refused
    <2>2. CASE IsMonitor(c)
      BY <1>2, <2>1, <2>2, EndAgrees DEF Refused, Fail
    <2>3. CASE ~IsMonitor(c)
      BY <1>2, <2>1, <2>3, OpenAgrees DEF Refused
    <2> QED
      BY <2>2, <2>3
  <1> QED
    BY <1>1, <1>2

(* A task asks the host for a session: nobody has before. *)
LEMMA RequestAgrees ==
    ASSUME ClientInvariant, ClientInvariant', AgreementInvariant,
           UNCHANGED <<auth, hostVars, sessionVars, transportVars, overtaken>>,
           NEW c \in DOMAIN task, task[c].at \in {"open", "token"}, NEW m \in Asked, NEW in,
           wire' = [wire EXCEPT ![task[c].on] = WireOf(On(c).link, Append(On(c).out, m), in, On(c).host)],
           NoNewResult(in, On(c).in),
           task' = [task EXCEPT ![c] = Task("result", task[c].on, "done", task[c].token)]
    PROVE  AgreementInvariant'
  <1>0. /\ HostTypeOK' /\ \A h : StillStreams(h)
        /\ ShakesAlone(c) /\ task[c].at \in Shaking /\ task[c].on \in DOMAIN wire
    BY HostRests, ShakingFacts DEF AgreementInvariant, ClientInvariant, TaskInvariant, Shaking
  <1>1. PICK g \in DOMAIN wire : g = task[c].on
    BY <1>0
  <1>2. PICK w : w = WireOf(wire[g].link, Append(wire[g].out, m), in, wire[g].host)
    OBVIOUS
  <1>3. /\ wire'[g] = w /\ \A h \in DOMAIN wire : h # g => wire'[h] = wire[h]
        /\ DOMAIN wire' = DOMAIN wire
        /\ w.out = Append(wire[g].out, m) /\ w.in = in /\ w.host = wire[g].host
    <2>1. wire' = [wire EXCEPT ![g] = w]
      BY <1>1, <1>2 DEF On
    <2>2. wire'[g] = w /\ DOMAIN wire' = DOMAIN wire /\ \A h \in DOMAIN wire : h # g => wire'[h] = wire[h]
      BY <2>1 DEF ClientInvariant, ClientTypeOK
    <2>3. w.out = Append(wire[g].out, m) /\ w.in = in /\ w.host = wire[g].host
      BY <1>2 DEF WireOf
    <2> QED
      BY <2>2, <2>3
  <1>4. PICK t : t = Task("result", task[c].on, "done", task[c].token) /\ t.at = "result"
    BY TaskParts
  <1>5. DOMAIN task' = DOMAIN task /\ task'[c] = t /\ \A d \in DOMAIN task : d # c => task'[d] = task[d]
    BY <1>4 DEF ClientInvariant, ClientTypeOK
  <1>6. CASE ~auth
    BY <1>0, <1>6 DEF AgreementInvariant
  <1>7. CASE auth
    <2>1. NotAsked(g) /\ ToldRight(g)
      BY <1>1, <1>7 DEF AgreementInvariant, AskedInvariant, SpokenInvariant
    <2>2. \A b : Streamed(g, b) => (Streamed(g, b))'
      BY <1>0, <1>3 DEF Streamed, StillStreams
    <2>3. ToldRight(g)'
      <3> SUFFICES ASSUME NEW i \in 1..Len(in), in[i].kind = "ok" PROVE (Streamed(g, in[i]))'
        BY <1>3 DEF ToldRight
      <3>1. PICK j \in 1..Len(wire[g].in) : in[i] = wire[g].in[j]
        BY <1>1 DEF NoNewResult, On
      <3>2. PICK b : b = wire[g].in[j]
        OBVIOUS
      <3>3. Streamed(g, b)
        BY <2>1, <3>1, <3>2 DEF ToldRight
      <3> QED
        BY <1>3, <2>2, <3>1, <3>2, <3>3 DEF Streamed
    <2>4. AskedOnce(g)'
      <3>1. wire[g].out \in Seq(Asked)
        BY DEF ClientInvariant, ClientTypeOK, Wires
      <3>2. \A i \in 1..Len(wire'[g].out) :
               wire'[g].out[i].kind \in Handshake => i = Len(wire[g].out) + 1
        BY <1>3, <2>1, <3>1 DEF NotAsked
      <3> QED
        BY <1>3, <2>1, <3>2 DEF AskedOnce, NotAsked
    <2>5. \A h \in DOMAIN wire \ {g} : Calm(h)
      <3> SUFFICES ASSUME NEW h \in DOMAIN wire, h # g PROVE Calm(h)
        OBVIOUS
      <3>1. wire[h].in \in Seq(Told) /\ wire[h].out \in Seq(Asked)
        BY DEF ClientInvariant, ClientTypeOK, Wires
      <3> QED
        BY <1>0, <1>3, <3>1, ToldFacts, AskedFacts DEF Calm, HostMoves
    <2>6. \A d \in DOMAIN task' : task'[d].at \in {"open", "token"} =>
             d \in DOMAIN task /\ task[d].at \in {"open", "token"} /\ task'[d].on = task[d].on /\ task[d].on # g
      BY <1>0, <1>1, <1>4, <1>5 DEF ShakesAlone, Shaking
    <2>7. PICK X \in SUBSET DOMAIN wire : X = {g}
      OBVIOUS
    <2>8. \A h \in DOMAIN wire \ X : Calm(h)
      BY <2>5, <2>7
    <2>9. \A h \in X : ToldRight(h)' /\ AskedOnce(h)' /\ \A b : Streamed(h, b) => (Streamed(h, b))'
      BY <2>2, <2>3, <2>4, <2>7
    <2>10. \A d \in DOMAIN task' : task'[d].at \in {"open", "token"} =>
              \/ /\ d \in DOMAIN task /\ task[d].at \in {"open", "token"}
                 /\ task'[d].on = task[d].on /\ task[d].on \notin X
              \/ task'[d].on \in DOMAIN wire' \ DOMAIN wire
      BY <2>6, <2>7
    <2>11. /\ DOMAIN wire \subseteq DOMAIN wire' /\ \A h \in DOMAIN wire' \ DOMAIN wire : wire'[h] = NewWire
           /\ HostTypeOK' /\ auth'
      BY <1>0, <1>3, <1>7
    <2>12. overtaken' = overtaken /\ monitor' = monitor /\ binding' = binding
      BY DEF sessionVars, transportVars
    <2> QED
      BY <1>7, <2>8, <2>9, <2>10, <2>11, <2>12, AgreementStep
  <1> QED
    BY <1>6, <1>7

(* Calls of the app. *)
LEMMA AppAgrees ==
    ASSUME ClientInvariant, ClientInvariant', AgreementInvariant, NEW c \in Calls,
           \/ Connect(c) \/ CancelConnect(c) \/ Disconnect(c) \/ SimulateNetworkDrop(c)
           \/ Authenticate(c) \/ SignInFails(c)
    PROVE  AgreementInvariant'
  <1>0. c \in DOMAIN task /\ UNCHANGED <<auth, hostVars>>
    BY DEF ClientInvariant, ClientTypeOK, networkVars, Connect, CancelConnect, Disconnect, SimulateNetworkDrop,
           Authenticate, SignInFails
  <1>1. CASE Connect(c)
    <2>1. CASE Invalidate(c, "enter", "plain")
      BY <1>0, <2>1, InvalidateAgrees DEF Closing
    <2>2. CASE NothingToClose /\ Attempt(c, TRUE)
      <3>1. PICK token \in Nat : OpenTransport(c, token)
        BY <2>2, AttemptFacts
      <3> QED
        BY <1>0, <2>2, <3>1, OpenAgrees DEF NothingToClose, CancelMonitor, StaysBound
    <2> QED
      BY <1>1, <2>1, <2>2 DEF Connect
  <1>2. CASE CancelConnect(c)
    <2>1. UNCHANGED <<sessionVars, monitor, overtaken, task>>
      BY <1>2 DEF CancelConnect
    <2>2. \/ wire' = wire
          \/ \E g \in DOMAIN wire : \E link, out, in :
                 /\ wire' = [wire EXCEPT ![g] = WireOf(link, out, in, wire[g].host)]
                 /\ NoNewResult(in, wire[g].in) /\ NoNewRequest(out, wire[g].out)
      <3> SUFFICES ASSUME NEW g \in DOMAIN wire, NEW in \in Prefixes(wire[g].in),
                          wire' = [wire EXCEPT ![g] = WireOf(wire[g].link, wire[g].out, in, wire[g].host)]
                   PROVE  NoNewResult(in, wire[g].in) /\ NoNewRequest(wire[g].out, wire[g].out)
        BY <1>2, CancelConnectIsQuiet DEF On
      <3>1. wire[g].in \in Seq(Told) /\ wire[g].out \in Seq(Asked)
        BY DEF ClientInvariant, ClientTypeOK, Wires
      <3> QED
        BY <3>1, ToldFacts, AskedFacts
    <2> QED
      BY <1>0, <2>1, <2>2, CalmClient DEF sessionVars
  <1>3. CASE Disconnect(c)
    <2>1. CASE Invalidate(c, "leave", "goodbye")
      BY <1>0, <2>1, InvalidateAgrees DEF Closing
    <2>2. CASE NothingToClose /\ Left(c)
      BY <1>0, <2>2, EndAgrees DEF NothingToClose, CancelMonitor, Left, StaysBound
    <2> QED
      BY <1>3, <2>1, <2>2 DEF Disconnect
  <1>4. CASE SimulateNetworkDrop(c)
    <2>1. PICK t : t = Task("drop", transport, "plain", NoToken) /\ t.at = "drop"
      BY TaskParts
    <2>2. Put(c, t) /\ wire' = wire /\ StaysBound
      BY <1>4, <2>1 DEF SimulateNetworkDrop, StaysBound, transportVars
    <2> QED
      BY <1>0, <2>1, <2>2, PutAgrees
  <1>5. CASE Authenticate(c)
    <2> DEFINE m == [kind |-> "authenticate"]
    <2>1. /\ task[c].at = "token" /\ task[c].close = "done"
          /\ wire' = [wire EXCEPT ![task[c].on].out = Append(wire[task[c].on].out, m)]
          /\ task' = [task EXCEPT ![c] = TaskAt(task[c], "result")]
          /\ UNCHANGED <<sessionVars, transportVars, overtaken>>
      BY <1>5 DEF Authenticate, At, Put, TaskAt
    <2>2. /\ task[c].on \in DOMAIN wire /\ WireTypeOK /\ task[c] \in Tasks
          /\ On(c).in \in Seq(Told) /\ On(c).out \in Seq(Asked) /\ m \in Asked
      BY <1>0, <2>1, ShakingFacts, MessageFacts DEF Shaking
    <2>3. Append(On(c).out, m) \in Seq(Asked)
      BY <2>2
    <2>4. wire' = [wire EXCEPT ![task[c].on] = WireOf(On(c).link, Append(On(c).out, m), On(c).in, On(c).host)]
      BY <2>1, <2>2, <2>3, StreamStep DEF On
    <2>5. task' = [task EXCEPT ![c] = Task("result", task[c].on, "done", task[c].token)]
      BY <2>1, <2>2, TaskRecord
    <2>6. NoNewResult(On(c).in, On(c).in)
      BY <2>2, ToldFacts
    <2> HIDE DEF m
    <2> QED
      BY <1>0, <2>1, <2>2, <2>4, <2>5, <2>6, RequestAgrees
  <1>6. CASE SignInFails(c)
    BY <1>0, <1>6, CatchAgrees DEF SignInFails
  <1> QED
    BY <1>1, <1>2, <1>3, <1>4, <1>5, <1>6

(* Its tasks behind an await, and its closes. *)
LEMMA BehindAwaitAgrees ==
    ASSUME ClientInvariant, ClientInvariant', AgreementInvariant, NEW c \in DOMAIN task,
           \/ Enter(c) \/ Failed(c) \/ HandshakeFails(c) \/ Unopened(c) \/ AfterRefusal(c) \/ Leave(c)
           \/ Dropped(c) \/ Close(c)
    PROVE  AgreementInvariant'
  <1>0. UNCHANGED <<auth, hostVars>> /\ overtaken \in BOOLEAN
    BY DEF networkVars, Enter, Failed, HandshakeFails, Unopened, AfterRefusal, Leave, Dropped, Close,
           ClientInvariant, ClientTypeOK
  <1>1. CASE Enter(c)
    <2>1. PICK token \in Nat : OpenTransport(c, token)
      BY <1>1, AttemptFacts DEF Enter
    <2>2. StaysBound
      BY <1>1, ClearedIsUnbound DEF Enter
    <2> QED
      BY <1>0, <2>1, <2>2, OpenAgrees
  <1>2. CASE Failed(c)
    BY <1>0, <1>2, ClearedIsUnbound, EndAgrees DEF Failed, Fail, transportVars
  <1>3. CASE HandshakeFails(c)
    BY <1>0, <1>3, InvalidateAgrees, CatchAgrees DEF HandshakeFails, Closing
  <1>4. CASE Unopened(c)
    BY <1>0, <1>4, CatchAgrees DEF Unopened
  <1>5. CASE AfterRefusal(c)
    BY <1>0, <1>5, RefusedAgrees DEF AfterRefusal
  <1>6. CASE Leave(c)
    BY <1>0, <1>6, ClearedIsUnbound, EndAgrees DEF Leave, Left, transportVars
  <1>7. CASE Dropped(c)
    BY <1>0, <1>7, EndAgrees DEF Dropped, StaysBound, transportVars, sessionVars
  <1>8. CASE Close(c)
    <2>1. PICK g \in DOMAIN wire : g = task[c].on
      BY <1>8, CloseFacts
    <2>2. wire[g].in \in Seq(Told) /\ wire[g].out \in Seq(Asked)
      BY DEF ClientInvariant, ClientTypeOK, Wires
    <2>3. \E link, out, in :
             /\ wire' = [wire EXCEPT ![g] = WireOf(link, out, in, wire[g].host)]
             /\ NoNewResult(in, wire[g].in) /\ NoNewRequest(out, wire[g].out)
      <3>1. PICK link \in Links, out \in Seq(Asked), in \in Seq(Told) :
                 /\ wire' = [wire EXCEPT ![g] = WireOf(link, out, in, wire[g].host)]
                 /\ in \in Prefixes(wire[g].in) \cup {wire[g].in}
                 /\ \/ out \in Prefixes(wire[g].out) \cup {wire[g].out}
                    \/ out = Append(wire[g].out, [kind |-> "goodbye"])
        BY <1>8, <2>1, CloseFacts DEF On
      <3>2. NoNewResult(in, wire[g].in) /\ NoNewRequest(out, wire[g].out)
        BY <2>2, <3>1, ToldFacts, AskedFacts
      <3> QED
        BY <3>1, <3>2
    <2>4. UNCHANGED <<sessionVars, transportVars, overtaken>> /\ Quiet
      BY <1>8, CloseFacts, CloseIsQuiet
    <2>5. \A d \in DOMAIN task' : d \in DOMAIN task /\ task'[d].at = task[d].at /\ task'[d].on = task[d].on
      BY <2>4 DEF Quiet
    <2> QED
      BY <1>0, <2>3, <2>4, <2>5, CalmClient DEF sessionVars, transportVars
  <1> QED
    BY <1>1, <1>2, <1>3, <1>4, <1>5, <1>6, <1>7, <1>8

(* Answers of the host. *)
LEMMA AnswerAgrees ==
    ASSUME ClientInvariant, ClientInvariant', AgreementInvariant, NEW c \in DOMAIN task, Greeted(c) \/ Result(c)
    PROVE  AgreementInvariant'
  <1>1. task[c].at \in Shaking /\ task[c].close = "done" /\ On(c).in # <<>> /\ UNCHANGED <<auth, hostVars>>
    BY DEF Greeted, Result, At, Shaking, networkVars
  <1>2. /\ task[c].on \in DOMAIN wire /\ WireTypeOK /\ task[c] \in Tasks
        /\ On(c).in \in Seq(Told) /\ On(c).out \in Seq(Asked) /\ Tail(On(c).in) \in Seq(Told)
        /\ task[c].token \in Nat
    BY <1>1, ShakingFacts DEF Tasks
  <1>3. PICK g \in DOMAIN wire : g = task[c].on /\ wire[g] = On(c)
    BY <1>2 DEF On
  <1>4. NoNewResult(Tail(wire[g].in), wire[g].in) /\ NoNewRequest(wire[g].out, wire[g].out)
    BY <1>1, <1>2, <1>3, ToldFacts, AskedFacts
  <1>5. ASSUME wire' = [wire EXCEPT ![task[c].on].in = Tail(wire[task[c].on].in)]
        PROVE  wire' = [wire EXCEPT ![g] = WireOf(wire[g].link, wire[g].out, Tail(wire[g].in), wire[g].host)]
    <2>1. wire' = [wire EXCEPT ![g].in = Tail(wire[g].in)]
      BY <1>3, <1>5
    <2>2. WireTypeOK /\ Tail(wire[g].in) \in Seq(Told) /\ wire[g].out \in Seq(Asked) /\ wire[g].in # <<>>
      BY <1>1, <1>2, <1>3
    <2> QED
      BY <2>1, <2>2, StreamStep
  <1>6. CASE /\ task[c].at = "open"
             /\ wire' = [wire EXCEPT ![task[c].on].in = Tail(@),
                                     ![task[c].on].out = Append(@, [kind |-> "resume", token |-> task[c].token])]
             /\ Put(c, [task[c] EXCEPT !.at = "result"])
             /\ UNCHANGED <<state, sessionVars, transportVars, overtaken>>
    <2> DEFINE m == [kind |-> "resume", token |-> task[c].token]
    <2>1. m \in Asked /\ Append(On(c).out, m) \in Seq(Asked)
      BY <1>2, MessageFacts
    <2>2. wire' = [wire EXCEPT ![task[c].on].in = Tail(On(c).in), ![task[c].on].out = Append(On(c).out, m)]
      BY <1>6 DEF On
    <2> HIDE DEF m
    <2>3. wire' = [wire EXCEPT ![task[c].on] = WireOf(On(c).link, Append(On(c).out, m), Tail(On(c).in), On(c).host)]
      BY <1>1, <1>2, <2>1, <2>2, StreamStep DEF On
    <2>4. task' = [task EXCEPT ![c] = TaskAt(task[c], "result")]
      BY <1>6 DEF Put, TaskAt
    <2>5. task' = [task EXCEPT ![c] = Task("result", task[c].on, "done", task[c].token)]
      BY <1>1, <1>2, <2>4, TaskRecord
    <2>6. NoNewResult(Tail(On(c).in), On(c).in)
      BY <1>3, <1>4
    <2> QED
      BY <1>1, <1>6, <2>1, <2>3, <2>5, <2>6, RequestAgrees
  <1>7. CASE /\ task[c].at = "open"
             /\ wire' = [wire EXCEPT ![task[c].on].in = Tail(@)]
             /\ Put(c, [task[c] EXCEPT !.at = "token"])
             /\ overtaken' = (overtaken \/ task[c].on # generation)
             /\ UNCHANGED <<sessionVars, transportVars>>
    <2>1. task' = [task EXCEPT ![c] = TaskAt(task[c], "token")]
      BY <1>7 DEF Put, TaskAt
    <2>2. PICK t : t = Task("token", task[c].on, "done", task[c].token) /\ t.on = task[c].on
      BY TaskParts
    <2>3. task' = [task EXCEPT ![c] = t]
      BY <1>1, <1>2, <2>1, <2>2, TaskRecord
    <2>4. DOMAIN task' = DOMAIN task /\ task'[c] = t /\ \A d \in DOMAIN task : d # c => task'[d] = task[d]
      BY <2>3 DEF ClientInvariant, ClientTypeOK
    <2>5. \A d \in DOMAIN task' : task'[d].at \in {"open", "token"} =>
              d \in DOMAIN task /\ task[d].at \in {"open", "token"} /\ task'[d].on = task[d].on
      BY <1>7, <2>2, <2>4
    <2>6. wire' = [wire EXCEPT ![g] = WireOf(wire[g].link, wire[g].out, Tail(wire[g].in), wire[g].host)]
      BY <1>5, <1>7
    <2>7. ~overtaken' => ~overtaken /\ monitor' = monitor /\ binding' = binding
      BY <1>7 DEF sessionVars, transportVars
    <2> QED
      BY <1>1, <1>4, <2>5, <2>6, <2>7, CalmClient
  <1>8. ASSUME NEW b, Apply(c, b), auth => Streamed(g, b),
               wire' = [wire EXCEPT ![task[c].on].in = Tail(wire[task[c].on].in)]
        PROVE  AgreementInvariant'
    <2>1. PICK t : t = Task("watch", g, "done", NoToken) /\ t.at = "watch"
      BY TaskParts
    <2>2. PICK e : e = Ended /\ e.at = "ended"
      BY TaskParts DEF Ended
    <2>3. task' = With([task EXCEPT ![c] = e], g, t) /\ binding' = {b} /\ monitor' = g
      BY <1>3, <1>8, <2>1, <2>2 DEF Apply
    <2>4. \A d \in DOMAIN task' : task'[d].at \in {"open", "token"} =>
              d \in DOMAIN task /\ task[d].at \in {"open", "token"} /\ task'[d].on = task[d].on
      BY <2>1, <2>2, <2>3 DEF With
    <2>5. wire' = [wire EXCEPT ![g] = WireOf(wire[g].link, wire[g].out, Tail(wire[g].in), wire[g].host)]
      BY <1>5, <1>8
    <2>6. auth => monitor' \in DOMAIN wire /\ \E x \in binding' : Streamed(monitor', x)
      BY <1>8, <2>3
    <2> QED
      BY <1>1, <1>4, <2>4, <2>5, <2>6, CalmClient
  <1>9. CASE Greeted(c)
    <2>1. CASE /\ ~auth /\ wire' = [wire EXCEPT ![task[c].on].in = Tail(@)]
               /\ Apply(c, [session |-> 0, token |-> NoToken])
      BY <1>8, <2>1
    <2> QED
      BY <1>6, <1>7, <1>9, <2>1 DEF Greeted, At
  <1>10. CASE Result(c)
    <2>1. PICK m \in Told : m = Head(wire[g].in) /\ m = wire[g].in[1] /\ 1 \in 1..Len(wire[g].in)
      BY <1>1, <1>2, <1>3
    <2>2. CASE /\ m.kind = "ok" /\ Apply(c, [session |-> m.session, token |-> m.token])
               /\ wire' = [wire EXCEPT ![task[c].on].in = Tail(@)]
      <3>0. \A s, t : LET b == [session |-> s, token |-> t] IN b.session = s /\ b.token = t
        OBVIOUS
      <3>1. PICK b : b = [session |-> m.session, token |-> m.token] /\ b.session = m.session /\ b.token = m.token
        BY <3>0
      <3>2. auth => Streamed(g, m)
        BY <2>1, <2>2 DEF AgreementInvariant, SpokenInvariant, ToldRight
      <3>3. auth => Streamed(g, b)
        BY <3>1, <3>2 DEF Streamed
      <3> QED
        BY <1>8, <2>2, <3>1, <3>3
    <2>3. CASE Invalidate(c, "refused", "plain")
      BY <1>1, <2>3, InvalidateAgrees DEF Closing
    <2>4. CASE Refused(c)
      BY <1>1, <2>4, RefusedAgrees
    <2> QED
      BY <1>3, <1>10, <2>1, <2>2, <2>3, <2>4 DEF Result
  <1> QED
    BY <1>9, <1>10

(* The monitors. *)
LEMMA MonitorAgrees ==
    ASSUME ClientInvariant, ClientInvariant', AgreementInvariant, NEW g \in DOMAIN task,
           SessionMessage(g) \/ TransportTermination(g)
    PROVE  AgreementInvariant'
  <1>0. UNCHANGED <<auth, hostVars>> /\ task[g].at = "watch"
    BY DEF SessionMessage, TransportTermination, networkVars, At
  <1>1. g \in DOMAIN wire
    BY <1>0 DEF ClientInvariant, TaskInvariant, Watches, PlaceFits
  <1>2. CASE SessionMessage(g)
    <2>1. CASE Invalidate(g, "leave", "plain")
      BY <1>0, <2>1, InvalidateAgrees DEF Closing
    <2>2. CASE /\ wire[g].in # <<>>
               /\ wire' = [wire EXCEPT ![g].in = Tail(@)]
               /\ UNCHANGED <<state, sessionVars, transportVars, overtaken, task>>
      <3>1. /\ WireTypeOK /\ wire[g].in \in Seq(Told) /\ wire[g].out \in Seq(Asked)
            /\ Tail(wire[g].in) \in Seq(Told)
        BY <1>1, <2>2, WireTypes DEF WireTypeOK, Wires
      <3>2. wire' = [wire EXCEPT ![g] = WireOf(wire[g].link, wire[g].out, Tail(wire[g].in), wire[g].host)]
        BY <1>1, <2>2, <3>1, StreamStep
      <3>3. NoNewResult(Tail(wire[g].in), wire[g].in) /\ NoNewRequest(wire[g].out, wire[g].out)
        BY <2>2, <3>1, ToldFacts, AskedFacts
      <3>4. monitor' = monitor /\ binding' = binding /\ overtaken' = overtaken /\ task' = task
        BY <2>2 DEF sessionVars, transportVars
      <3> QED
        BY <1>0, <1>1, <3>2, <3>3, <3>4, CalmClient
    <2> QED
      BY <1>2, <2>1, <2>2 DEF SessionMessage
  <1>3. CASE TransportTermination(g)
    <2>1. StaysBound
      BY <1>3 DEF TransportTermination, StaysBound, sessionVars
    <2>2. CASE Put(g, Ended) /\ wire' = wire
      BY <1>0, <2>1, <2>2, EndAgrees
    <2>3. CASE \E t \in Resumable(known) : OpenTransport(g, t)
      BY <1>0, <2>1, <2>3, OpenAgrees
    <2> QED
      BY <1>3, <2>2, <2>3 DEF TransportTermination
  <1> QED
    BY <1>2, <1>3

(* Every step. *)
LEMMA AgreementNext == ClientInvariant /\ ClientInvariant' /\ AgreementInvariant /\ [Next]_vars => AgreementInvariant'
  <1> SUFFICES ASSUME ClientInvariant, ClientInvariant', AgreementInvariant, [Next]_vars
               PROVE  AgreementInvariant'
    OBVIOUS
  <1>1. ASSUME NEW c \in DOMAIN task,
               \/ Enter(c) \/ Greeted(c) \/ Failed(c) \/ HandshakeFails(c) \/ Unopened(c) \/ Result(c)
               \/ AfterRefusal(c) \/ Leave(c) \/ Dropped(c) \/ SessionMessage(c) \/ TransportTermination(c)
               \/ Close(c)
        PROVE  AgreementInvariant'
    BY <1>1, BehindAwaitAgrees, AnswerAgrees, MonitorAgrees
  <1>2. ASSUME NEW g \in DOMAIN wire, Network(g) PROVE AgreementInvariant'
    BY <1>2, NetworkAgrees
  <1>3. CASE ClientStep
    BY <1>1, <1>2, <1>3 DEF ClientStep, Network
  <1>4. CASE AppStep
    BY <1>4, AppAgrees DEF AppStep
  <1>5. CASE Outside
    BY <1>2, <1>5, ExpiryAgrees DEF Outside, Network
  <1>6. CASE UNCHANGED vars
    <2>1. UNCHANGED <<auth, hostVars>> /\ wire' = wire /\ task' = task /\ StaysBound
      BY <1>6 DEF vars, clientVars, networkVars, sessionVars, transportVars, StaysBound
    <2> QED
      BY <2>1, CalmClient DEF StaysBound
  <1> QED
    BY <1>3, <1>4, <1>5, <1>6 DEF Next

(* It holds in the beginning. *)
LEMMA AgreementInit == Init => AgreementInvariant
  <1> SUFFICES ASSUME Init PROVE AgreementInvariant
    OBVIOUS
  <1>1. HostTypeOK
    BY DEF Init, Host!Init, HostTypeOK
  <1>2. /\ DOMAIN wire = {} /\ \A c \in DOMAIN task : task[c].at = "idle"
        /\ monitor = 0
    BY TaskParts DEF Init, Idle
  <1> QED
    BY <1>1, <1>2 DEF AgreementInvariant, SpokenInvariant, AskedInvariant, BoundInvariant

(* The inductive invariant of client and host: a result under way, and the binding the
   client took from one, name a session that is streamed to that transport for as long as
   the host serves it; and no transport is asked for a session twice. *)
THEOREM AgreementInvariantHolds == Spec => [](ClientInvariant /\ AgreementInvariant)
  BY ClientInit, ClientNext, AgreementInit, AgreementNext, PTL DEF Spec

(* What the invariant says of a connected client. *)
LEMMA BoundIsMatched == ClientInvariant /\ AgreementInvariant => ConnectedMatchesHost
  <1> SUFFICES ASSUME ClientInvariant, AgreementInvariant, auth, state = "connected", ~overtaken, transport # 0
               PROVE  \/ wire[transport].link # "up"
                      \/ wire[transport].host # "serving"
                      \/ \E b \in binding : /\ phase[b.session] = "Active"
                                            /\ holder[b.session] = {transport}
                                            /\ b.token \in good[b.session]
    BY DEF ConnectedMatchesHost
  <1>1. transport = monitor
    BY DEF ClientInvariant, StateInvariant
  <1> QED
    BY <1>1 DEF AgreementInvariant, BoundInvariant, Streamed

(* However often a session is resumed, refused or taken over: the one a connected client
   shows is streamed to the transport it is on, and the token it keeps resumes it, as
   long as the link is up and the host serves it. *)
THEOREM ConnectedIsMatched == Spec => []ConnectedMatchesHost
  BY AgreementInvariantHolds, BoundIsMatched, PTL
=============================================================================
