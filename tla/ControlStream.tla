---------------------------- MODULE ControlStream ----------------------------
(***************************************************************************)
(* One QUIC connection from its acceptance to its end: the host's          *)
(* connection task (handle_server_connection and run_server_control_stream *)
(* in host/transport/src/server.rs), the client at the other end, and the  *)
(* control stream between them.                                            *)
(*                                                                         *)
(* The stream is reliable and ordered but a read returns whatever has      *)
(* arrived, so the host may get several frames at once and may find the    *)
(* end of the stream, or the loss of the connection, behind them.  Closing *)
(* a connection throws away what has not been delivered.                   *)
(*                                                                         *)
(* Three clients can be at the other end: the smoke client of the same     *)
(* crate, the Swift client of the headset, and any other peer, which sends *)
(* what it likes.                                                          *)
(***************************************************************************)
EXTENDS Naturals, ControlConnection

CONSTANTS
  MaxInputs,    \* input messages of a headset client (bound)
  MaxShapes,    \* pointer shapes of the video worker (bound)
  MaxOther,     \* messages of any other peer (bound)
  OtherMessages \* what any other peer may send

ASSUME BoundsAssumption == MaxInputs \in Nat /\ MaxShapes \in Nat /\ MaxOther \in Nat

VARIABLES
  cfg,          \* how host and client are configured
  hpc,          \* where the host's task is
  flags,        \* protocol: the host's ControlConnection
  batch,        \* messages of the last read that are not handled yet
  established,  \* session_established
  session,      \* the session named by active_session_id
  wantsVideo,   \* client_capabilities: a hello of the first read asks for video
  video,        \* video_stream: a worker runs for this connection
  down,         \* the input session may hold something down
  result,       \* how run_server_control_stream ended
  wire,         \* every message the host has sent
  toHost, finC, \* what the client has sent and the host has not read
  toClient, finH,
  link,         \* the connection: up or down
  cpc,          \* where the client is
  cflags,       \* protocol of the smoke client
  goodbyeSaid,  \* the client has sent a goodbye
  count         \* inputs, or messages of any other peer, sent so far

hostVars == <<hpc, flags, batch, established, session, wantsVideo, video, down,
              result, wire>>
setup == <<cfg, wantsVideo>>
clientVars == <<cpc, cflags, goodbyeSaid, count>>
netVars == <<toHost, finC, toClient, finH, link>>
vars == <<cfg, hostVars, clientVars, netVars>>

\* A frame that does not decode: bad JSON or another protocol version.
Undecodable == "undecodable"
PeerMessages == ControlMessages \cup {Undecodable}
ASSUME OtherAssumption == OtherMessages \subseteq PeerMessages

Credentials == {"none", "authenticate", "resume_session"}

AllConfigurations ==
  [auth: BOOLEAN,           \* auth_validator.is_some()
   serverCloses: BOOLEAN,   \* server_initiated_close_after_ack
   video: BOOLEAN,          \* video is enabled and the client's hello asks for it
   kind: {"smoke", "headset", "other"},
   credential: Credentials, \* what the client has for its handshake
   goodbye: BOOLEAN]        \* send_goodbye_after_ack of the smoke client
Configurations ==
  {c \in AllConfigurations : /\ c.goodbye => c.kind = "smoke"
                             /\ c.kind = "other" => c.credential = "none"}

HostStates == {"accept", "read_hello", "hello", "read_handshake", "handshake",
               "answer", "say_goodbye", "finish_goodbye", "read_main", "main",
               "settle_hold", "settle_end", "clean_up", "finish", "closing", "done"}
ClientStates == {"start", "await_ack", "ready", "await_result", "connected",
                 "closing", "done"}

Front(s, n) == SubSeq(s, 1, n)
Rest(s, n) == SubSeq(s, n + 1, Len(s))

Init ==
  /\ cfg \in Configurations
  /\ hpc = "accept" /\ flags = {} /\ batch = << >>
  /\ established = FALSE /\ session = "none"
  /\ wantsVideo = FALSE /\ video = FALSE /\ down = FALSE
  /\ result = "none" /\ wire = << >>
  /\ toHost = << >> /\ finC = FALSE /\ toClient = << >> /\ finH = FALSE
  /\ link = "up"
  /\ cpc = "start" /\ cflags = {} /\ goodbyeSaid = FALSE /\ count = 0

-----------------------------------------------------------------------------
(* The network.                                                            *)

\* What is on its way when the connection goes down arrives up to some point.
\* link is down from the moment after which nothing is delivered any more; a
\* write before either side has noticed is a write before that moment.
Truncate(s, fin, t, u) ==
  IF link = "down" THEN t = s /\ u = fin
  ELSE \E n \in 0 .. Len(s) : /\ t = Front(s, n)
                              /\ u \in {FALSE, fin /\ n = Len(s)}

\* The connection is lost: idle timeout, network change, or a crashed peer.
LoseConnection ==
  /\ link = "up" /\ link' = "down"
  /\ Truncate(toHost, finC, toHost', finC')
  /\ Truncate(toClient, finH, toClient', finH')
  /\ UNCHANGED <<cfg, hostVars, clientVars>>

-----------------------------------------------------------------------------
(* The host: handle_server_connection.                                     *)

\* accept_bi shows the stream once something has been sent on it.
AcceptStream ==
  /\ hpc = "accept" /\ (toHost # << >> \/ finC)
  /\ hpc' = "read_hello"
  /\ UNCHANGED <<setup, flags, batch, established, session, video, down, result, wire,
                 clientVars, netVars>>

\* The connection ends first, or server_wait_timeout does: no stream to run.
AcceptFails ==
  /\ hpc = "accept"
  /\ hpc' = "done" /\ result' = "error" /\ link' = "down"
  /\ Truncate(toClient, finH, toClient', finH') /\ toHost' = << >> /\ finC' = FALSE
  /\ UNCHANGED <<setup, flags, batch, established, session, video, down, wire,
                 clientVars>>

\* Whatever the outcome, the connection is closed; what the host has sent but
\* not delivered is lost, and so is what it has not read.
HostCloses ==
  /\ hpc = "closing" /\ hpc' = "done" /\ link' = "down"
  /\ Truncate(toClient, finH, toClient', finH') /\ toHost' = << >> /\ finC' = FALSE
  /\ UNCHANGED <<setup, flags, batch, established, session, video, down, result, wire,
                 clientVars>>

-----------------------------------------------------------------------------
(* read_messages: all frames that have arrived; an undecodable one makes   *)
(* the whole read an error, and the frames before it are gone.             *)

Read(n) ==
  /\ n \in 1 .. Len(toHost)
  /\ toHost' = Rest(toHost, n)
  /\ UNCHANGED <<finC, toClient, finH, link>>

ReadsMessages(n) ==
  /\ Read(n)
  /\ \A i \in 1 .. n : toHost[i] # Undecodable
  /\ batch' = Front(toHost, n)

ReadsEnd == toHost = << >> /\ finC /\ UNCHANGED <<netVars, batch>>

ReadsError ==
  /\ \/ \E n \in 1 .. Len(toHost) : Read(n) /\ toHost[n] = Undecodable
     \/ toHost = << >> /\ ~finC /\ link = "down" /\ UNCHANGED netVars
  /\ UNCHANGED batch

\* A message is written to the stream, which fails once the connection is down.
Send(m) ==
  /\ link = "up" /\ ~finH
  /\ toClient' = Append(toClient, m) /\ wire' = Append(wire, m)
  /\ UNCHANGED <<toHost, finC, finH, link>>
SendFails == (link = "down" \/ finH) /\ UNCHANGED <<wire, netVars>>

\* The task leaves through `?`: nothing of the clean-up is done.
Fail(reason) == hpc' = "closing" /\ result' = reason

-----------------------------------------------------------------------------
(* The host: run_server_control_stream, first read.                        *)

\* Behind the last hello message: the handshake, or its absence in no-auth mode.
AfterHello(wants) ==
  IF cfg.auth
  THEN /\ hpc' = "read_handshake"
       /\ UNCHANGED <<established, session, video, result>>
  ELSE \/ /\ hpc' = "say_goodbye" /\ established' = TRUE
          /\ video' = wants
          /\ UNCHANGED <<session, result>>
       \/ /\ wants   \* start_video_stream fails
          /\ Fail("error") /\ established' = TRUE
          /\ UNCHANGED <<session, video>>

ReadHello ==
  /\ hpc = "read_hello"
  /\ \/ /\ \E n \in 1 .. Len(toHost) : ReadsMessages(n)
        /\ hpc' = "hello"
        /\ UNCHANGED <<flags, established, session, video, result>>
     \/ /\ ReadsEnd
        /\ flags' = IF cfg.auth THEN flags ELSE BypassAuth(flags)
        /\ AfterHello(wantsVideo)
     \/ /\ ReadsError /\ Fail("error")
        /\ UNCHANGED <<flags, established, session, video>>
  /\ UNCHANGED <<setup, down, wire, clientVars>>

\* Each message of the first read is answered before the next one is looked
\* at; what a handshake message asks for is thrown away here.
HandleHello ==
  /\ hpc = "hello"
  /\ wantsVideo' = (wantsVideo \/ (Head(batch) = "hello" /\ cfg.video))
  /\ LET m == Head(batch) IN
     \/ /\ ServerAccepts(flags, m)
        /\ IF ServerReplies(m) = << >> THEN UNCHANGED <<wire, netVars>>
                                      ELSE Send(Head(ServerReplies(m)))
        /\ batch' = Tail(batch)
        /\ IF batch' = << >>
           THEN /\ flags' = IF cfg.auth THEN ServerReceive(flags, m)
                                       ELSE BypassAuth(ServerReceive(flags, m))
                /\ AfterHello(wantsVideo')
           ELSE /\ flags' = ServerReceive(flags, m)
                /\ UNCHANGED <<hpc, established, session, video, result>>
     \/ /\ ServerAccepts(flags, m) /\ ServerReplies(m) # << >> /\ SendFails
        /\ flags' = ServerReceive(flags, m) /\ Fail("error")
        /\ UNCHANGED <<batch, established, session, video>>
     \/ /\ ~ServerAccepts(flags, m)
        /\ Fail("protocol")
        /\ UNCHANGED <<flags, batch, established, session, video, wire, netVars>>
  /\ UNCHANGED <<cfg, down, clientVars>>

-----------------------------------------------------------------------------
(* The second read: the handshake.                                         *)

ReadHandshake ==
  /\ hpc = "read_handshake"
  /\ \/ /\ \E n \in 1 .. Len(toHost) : ReadsMessages(n)
        /\ hpc' = "handshake" /\ UNCHANGED result
     \/ ReadsEnd /\ hpc' = "say_goodbye" /\ UNCHANGED result
     \/ ReadsError /\ Fail("error")
  /\ UNCHANGED <<setup, flags, established, session, video, down, wire, clientVars>>

NextHandshake(rest) == hpc' = IF rest = << >> THEN "say_goodbye" ELSE "handshake"

IsCredential(m) == m \in {"authenticate", "resume_session"}
Record(f, m, success) ==
  IF m = "authenticate" THEN RecordAuthResult(f, success)
                        ELSE RecordResumeResult(f, success)

\* Mutant: the video worker starts before the client has its result.
AdmitStartsVideo ==
  /\ hpc = "handshake" /\ IsCredential(Head(batch))
  /\ ServerAccepts(flags, Head(batch))
  /\ flags' = Record(ServerReceive(flags, Head(batch)), Head(batch), TRUE)
  /\ session' = "active" /\ established' = TRUE /\ video' = wantsVideo
  /\ hpc' = "answer"
  /\ UNCHANGED <<setup, batch, down, result, wire, clientVars, netVars>>

\* The credential is good: the session exists, and is served by this task,
\* before the client is told.
Admit ==
  /\ hpc = "handshake" /\ IsCredential(Head(batch))
  /\ ServerAccepts(flags, Head(batch))
  /\ flags' = Record(ServerReceive(flags, Head(batch)), Head(batch), TRUE)
  /\ session' = "active" /\ established' = TRUE
  /\ hpc' = "answer"
  /\ UNCHANGED <<setup, batch, video, down, result, wire, clientVars, netVars>>

\* The client is told, and only then does the video worker start, which may
\* fail; the rest of the batch follows.
Answer ==
  /\ hpc = "answer"
  /\ \/ /\ Send(IF Head(batch) = "authenticate" THEN "auth_ok" ELSE "resume_ok")
        /\ \/ /\ video' = wantsVideo
              /\ batch' = Tail(batch) /\ NextHandshake(batch')
              /\ UNCHANGED result
           \/ /\ wantsVideo
              /\ Fail("error") /\ UNCHANGED <<batch, video>>
     \/ SendFails /\ Fail("error") /\ UNCHANGED <<batch, video>>
  /\ UNCHANGED <<setup, flags, established, session, down, clientVars>>

\* The credential is bad: the client is told, the stream is finished, and after
\* 50 ms the task returns.
Reject ==
  /\ hpc = "handshake" /\ IsCredential(Head(batch))
  /\ ServerAccepts(flags, Head(batch))
  /\ flags' = Record(ServerReceive(flags, Head(batch)), Head(batch), FALSE)
  /\ \/ /\ link = "up" /\ ~finH
        /\ LET m == IF Head(batch) = "authenticate" THEN "auth_no" ELSE "resume_no"
           IN  toClient' = Append(toClient, m) /\ wire' = Append(wire, m)
        /\ finH' = TRUE /\ UNCHANGED <<toHost, finC, link>>
        /\ hpc' = "closing" /\ result' = "rejected"
     \/ SendFails /\ Fail("error")
  /\ UNCHANGED <<setup, batch, established, session, video, down, clientVars>>

\* The user store or the session manager fails: no answer at all.
AdmitFails ==
  /\ hpc = "handshake" /\ Head(batch) = "authenticate"
  /\ ServerAccepts(flags, Head(batch))
  /\ flags' = ServerReceive(flags, Head(batch)) /\ Fail("error")
  /\ UNCHANGED <<setup, batch, established, session, video, down, wire, clientVars,
                 netVars>>

\* Any other message of the handshake read; a reply to it would not be sent.
HandleHandshake ==
  /\ hpc = "handshake"
  /\ LET m == Head(batch) IN
     \/ /\ ServerAccepts(flags, m) /\ ~IsCredential(m)
        /\ flags' = ServerReceive(flags, m)
        /\ batch' = Tail(batch) /\ NextHandshake(batch')
        /\ UNCHANGED result
     \/ /\ ~ServerAccepts(flags, m)
        /\ Fail("protocol") /\ UNCHANGED <<flags, batch>>
  /\ UNCHANGED <<setup, established, session, video, down, wire, clientVars, netVars>>

-----------------------------------------------------------------------------
(* The host's own goodbye, in two critical sections of the send lock.      *)

SayGoodbye ==
  /\ hpc = "say_goodbye"
  /\ IF cfg.serverCloses /\ "hello_received" \in flags
     THEN /\ flags' = InitiateGoodbye(flags)
          /\ \/ Send("goodbye") /\ hpc' = "finish_goodbye" /\ UNCHANGED result
             \/ SendFails /\ Fail("error")
     ELSE /\ hpc' = "read_main"
          /\ UNCHANGED <<flags, result, wire, netVars>>
  /\ UNCHANGED <<setup, batch, established, session, video, down, clientVars>>

FinishGoodbye ==
  /\ hpc = "finish_goodbye" /\ hpc' = "read_main"
  /\ finH' = (link = "up" \/ finH)
  /\ UNCHANGED <<setup, flags, batch, established, session, video, down, result, wire,
                 toHost, finC, toClient, link, clientVars>>

\* The video worker hands a pointer shape to the task that shares the stream.
PointerShape ==
  /\ video
  /\ Len(SelectSeq(wire, LAMBDA m : m = "pointer_shape")) < MaxShapes
  /\ Send("pointer_shape")
  /\ UNCHANGED <<setup, hpc, flags, batch, established, session, video, down, result,
                 clientVars>>

-----------------------------------------------------------------------------
(* The main loop.                                                          *)

\* Mutant: the arm for a broken session comes before the one for a goodbye.
ReadMainHoldsFirst ==
  /\ hpc = "read_main"
  /\ \/ /\ \E n \in 1 .. Len(toHost) : ReadsMessages(n)
        /\ hpc' = "main" /\ UNCHANGED result
     \/ /\ ReadsEnd
        /\ hpc' = IF established /\ ~OrderlyShutdown(flags)
                  THEN "settle_hold" ELSE "settle_end"
        /\ UNCHANGED result
     \/ /\ ReadsError
        /\ \/ established /\ hpc' = "settle_hold" /\ UNCHANGED result
           \/ ~established /\ Fail("error")
  /\ UNCHANGED <<setup, flags, established, session, video, down, wire,
                 clientVars>>

ReadMain ==
  /\ hpc = "read_main"
  /\ \/ /\ \E n \in 1 .. Len(toHost) : ReadsMessages(n)
        /\ hpc' = "main" /\ UNCHANGED result
     \/ /\ ReadsEnd
        /\ hpc' = IF established /\ ~OrderlyShutdown(flags)
                  THEN "settle_hold" ELSE "settle_end"
        /\ UNCHANGED result
     \/ /\ ReadsError
        /\ \/ /\ OrderlyShutdown(flags)
              /\ hpc' = "settle_end" /\ UNCHANGED result
           \/ /\ ~OrderlyShutdown(flags) /\ established
              /\ hpc' = "settle_hold" /\ UNCHANGED result
           \/ /\ ~OrderlyShutdown(flags) /\ ~established
              /\ Fail("error")
  /\ UNCHANGED <<setup, flags, established, session, video, down, wire, clientVars>>

\* Every message of the read is handled before the loop looks for a goodbye.
HandleMain ==
  /\ hpc = "main"
  /\ LET m == Head(batch) IN
     \/ /\ ServerAccepts(flags, m)
        /\ flags' = ServerReceive(flags, m)
        /\ down' = (down \/ m = "input")
        /\ batch' = Tail(batch)
        /\ hpc' = IF batch' # << >> THEN "main"
                  ELSE IF OrderlyShutdown(flags') THEN "settle_end" ELSE "read_main"
        /\ UNCHANGED result
     \/ /\ ~ServerAccepts(flags, m)
        /\ Fail("protocol") /\ UNCHANGED <<flags, down, batch>>
  /\ UNCHANGED <<setup, established, session, video, wire, clientVars, netVars>>

\* Mutant: only a broken session is settled.
SettleHeldOnly ==
  /\ hpc \in {"settle_hold", "settle_end"} /\ hpc' = "clean_up"
  /\ session' = IF session = "active" /\ hpc = "settle_hold" THEN "held" ELSE session
  /\ UNCHANGED <<setup, flags, batch, established, video, down, result, wire,
                 clientVars, netVars>>

\* hold_session or terminate_session; without a session manager, neither.
Settle ==
  /\ hpc \in {"settle_hold", "settle_end"} /\ hpc' = "clean_up"
  /\ session' = IF session # "active" THEN session
                ELSE IF hpc = "settle_hold" THEN "held" ELSE "terminated"
  /\ UNCHANGED <<setup, flags, batch, established, video, down, result, wire, clientVars,
                 netVars>>

\* Everything held down is released, the worker is stopped and joined.
CleanUp ==
  /\ hpc = "clean_up" /\ hpc' = "finish"
  /\ down' = FALSE /\ video' = FALSE
  /\ UNCHANGED <<setup, flags, batch, established, session, result, wire, clientVars,
                 netVars>>

Finish ==
  /\ hpc = "finish" /\ hpc' = "closing" /\ result' = "ok"
  /\ finH' = (finH \/ (link = "up" /\ ~cfg.serverCloses))
  /\ UNCHANGED <<setup, flags, batch, established, session, video, down, wire,
                 toHost, finC, toClient, link, clientVars>>

-----------------------------------------------------------------------------
(* The clients.  Their sends fail once the connection is down.             *)

ClientSend(m) ==
  /\ link = "up" /\ ~finC
  /\ toHost' = Append(toHost, m)
  /\ goodbyeSaid' = (goodbyeSaid \/ m = "goodbye")
  /\ UNCHANGED <<finC, toClient, finH, link>>
ClientSendFails == link = "down" /\ UNCHANGED <<netVars, goodbyeSaid>>

ClientGets(n) ==
  /\ n \in 1 .. Len(toClient)
  /\ toClient' = Rest(toClient, n) /\ UNCHANGED <<toHost, finC, finH, link>>
ClientGetsEnd == toClient = << >> /\ finH /\ UNCHANGED netVars
ClientGetsError == toClient = << >> /\ ~finH /\ link = "down" /\ UNCHANGED netVars

\* Both conforming clients open the stream and say hello.
ClientHello ==
  /\ cpc = "start" /\ cfg.kind # "other"
  /\ \/ ClientSend("hello") /\ cpc' = "await_ack"
     \/ ClientSendFails /\ cpc' = "closing"
  /\ UNCHANGED <<cfg, hostVars, cflags, count>>

\* Close of the QUIC connection: what has not arrived yet is lost.
ClientCloses ==
  /\ cpc = "closing" /\ cpc' = "done" /\ link' = "down"
  /\ Truncate(toHost, finC, toHost', finC') /\ toClient' = << >> /\ finH' = FALSE
  /\ UNCHANGED <<cfg, hostVars, cflags, goodbyeSaid, count>>

-----------------------------------------------------------------------------
(* run_client_control_stream.  One read is expected to hold the answer.    *)

\* The state after a read of messages s, all of them accepted.
SmokeFlags(s) ==
  LET f[i \in 0 .. Len(s)] ==
        IF i = 0 THEN cflags ELSE ClientReceive(f[i - 1], s[i])
  IN  f
SmokeTakes(s) == \A i \in 1 .. Len(s) : ClientAccepts(SmokeFlags(s)[i - 1], s[i])

\* Where a read takes it: rejected, it finishes its side with the close.
AfterSmokeRead(pc, f) ==
  CASE pc = "await_ack" -> "ready"
    [] pc = "await_result" -> IF ClientEstablished(f) THEN "connected" ELSE "closing"
    [] pc = "connected" -> IF OrderlyShutdown(f) THEN "closing" ELSE "connected"

SmokeRead(pc) ==
  /\ cfg.kind = "smoke" /\ cpc = pc
  /\ \/ \E n \in 1 .. Len(toClient) :
          /\ ClientGets(n)
          /\ LET s == Front(toClient, n) IN
             IF SmokeTakes(s)
             THEN /\ cflags' = SmokeFlags(s)[n]
                  /\ cpc' = AfterSmokeRead(pc, cflags')
             ELSE /\ cpc' = "closing" /\ UNCHANGED cflags
     \/ /\ ClientGetsEnd /\ UNCHANGED cflags
        /\ cpc' = IF pc = "connected" THEN "closing" ELSE AfterSmokeRead(pc, cflags)
     \/ ClientGetsError /\ cpc' = "closing" /\ UNCHANGED cflags
  /\ UNCHANGED <<cfg, hostVars, goodbyeSaid, count>>

SmokeReadAck == SmokeRead("await_ack")
SmokeReadResult == SmokeRead("await_result")

SmokeAsk ==
  /\ cfg.kind = "smoke" /\ cpc = "ready"
  /\ IF cfg.credential # "none" /\ "hello_ack_received" \in cflags
     THEN \/ ClientSend(cfg.credential) /\ cpc' = "await_result"
          \/ ClientSendFails /\ cpc' = "closing"
     ELSE cpc' = "connected" /\ UNCHANGED <<netVars, goodbyeSaid>>
  /\ UNCHANGED <<cfg, hostVars, cflags, count>>

\* send_goodbye_after_ack: goodbye, end of the send side, and the close.
SmokeGoodbye ==
  /\ cfg.kind = "smoke" /\ cpc = "connected" /\ cfg.goodbye
  /\ IF "hello_ack_received" \in cflags
     THEN \/ /\ link = "up" /\ toHost' = Append(toHost, "goodbye") /\ finC' = TRUE
             /\ goodbyeSaid' = TRUE /\ cflags' = InitiateGoodbye(cflags)
             /\ UNCHANGED <<toClient, finH, link>>
          \/ ClientSendFails /\ UNCHANGED cflags
     ELSE UNCHANGED <<netVars, goodbyeSaid, cflags>>
  /\ cpc' = "closing"
  /\ UNCHANGED <<cfg, hostVars, count>>

\* Otherwise it reads until the host has said goodbye or gone.
SmokeListen == ~cfg.goodbye /\ SmokeRead("connected")

-----------------------------------------------------------------------------
(* The headset: SessionClient over NetworkFrameworkQuicClient, one message *)
(* per receive; the messages behind it stay in the framer.  The end of the *)
(* control stream alone does not end the transport.                        *)

\* onTermination: the chunks that arrived and were not taken yet go with the
\* stream, so the next receive fails even if a message is there.
HeadsetGone == link = "down" /\ UNCHANGED netVars

HeadsetReadAck ==
  /\ cfg.kind = "headset" /\ cpc = "await_ack"
  /\ \/ ClientGets(1) /\ cpc' = IF Head(toClient) # "hello_ack" THEN "closing"
                                ELSE IF cfg.credential = "none" THEN "connected"
                                ELSE "ready"
     \/ HeadsetGone /\ cpc' = "closing"
  /\ UNCHANGED <<cfg, hostVars, cflags, goodbyeSaid, count>>

HeadsetAsk ==
  /\ cfg.kind = "headset" /\ cpc = "ready" /\ cfg.credential # "none"
  /\ \/ ClientSend(cfg.credential) /\ cpc' = "await_result"
     \/ ClientSendFails /\ cpc' = "closing"
  /\ UNCHANGED <<cfg, hostVars, cflags, count>>

HeadsetReadResult ==
  /\ cfg.kind = "headset" /\ cpc = "await_result"
  /\ \/ /\ ClientGets(1)
        /\ cpc' = IF Head(toClient) = (IF cfg.credential = "authenticate"
                                       THEN "auth_ok" ELSE "resume_ok")
                  THEN "connected" ELSE "closing"
     \/ HeadsetGone /\ cpc' = "closing"
  /\ UNCHANGED <<cfg, hostVars, cflags, goodbyeSaid, count>>

HeadsetListen ==
  /\ cfg.kind = "headset" /\ cpc = "connected"
  /\ \/ ClientGets(1) /\ cpc' = IF Head(toClient) = "goodbye" THEN "closing" ELSE cpc
     \/ HeadsetGone /\ cpc' = "closing"
  /\ UNCHANGED <<cfg, hostVars, cflags, goodbyeSaid, count>>

HeadsetInput ==
  /\ cfg.kind = "headset" /\ cpc = "connected" /\ count < MaxInputs
  /\ ClientSend("input") /\ count' = count + 1
  /\ UNCHANGED <<cfg, hostVars, cpc, cflags>>

\* disconnect: the actor is free while it waits for an answer, so the user can
\* leave at any moment; the goodbye is tried and the transport closed.
HeadsetDisconnect ==
  /\ cfg.kind = "headset" /\ cpc \notin {"start", "closing", "done"}
  /\ ClientSend("goodbye") /\ cpc' = "closing"
  /\ UNCHANGED <<cfg, hostVars, cflags, count>>

\* simulateNetworkDrop, or a connect that replaces this transport.
HeadsetDrop ==
  /\ cfg.kind = "headset" /\ cpc \notin {"start", "closing", "done"}
  /\ cpc' = "closing"
  /\ UNCHANGED <<cfg, hostVars, cflags, goodbyeSaid, count, netVars>>

-----------------------------------------------------------------------------
(* Any other peer: no order at all.                                        *)

OtherSends ==
  /\ cfg.kind = "other" /\ cpc = "start" /\ count < MaxOther
  /\ \E m \in OtherMessages : ClientSend(m)
  /\ count' = count + 1
  /\ UNCHANGED <<cfg, hostVars, cpc, cflags>>

OtherFinishes ==
  /\ cfg.kind = "other" /\ cpc = "start"
  /\ finC' = TRUE /\ cpc' \in {"connected", "closing"}
  /\ UNCHANGED <<cfg, hostVars, cflags, goodbyeSaid, count, toHost, toClient, finH,
                 link>>

-----------------------------------------------------------------------------
HostStep ==
  \/ AcceptStream \/ AcceptFails \/ ReadHello \/ HandleHello \/ ReadHandshake
  \/ Admit \/ Answer \/ Reject \/ AdmitFails \/ HandleHandshake
  \/ SayGoodbye \/ FinishGoodbye \/ ReadMain \/ HandleMain \/ Settle \/ CleanUp
  \/ Finish \/ HostCloses

ClientStep ==
  \/ ClientHello \/ SmokeReadAck \/ SmokeAsk \/ SmokeReadResult \/ SmokeGoodbye
  \/ SmokeListen \/ HeadsetReadAck \/ HeadsetAsk \/ HeadsetReadResult
  \/ HeadsetListen \/ ClientCloses

Environment ==
  \/ PointerShape \/ HeadsetInput \/ HeadsetDisconnect \/ HeadsetDrop
  \/ OtherSends \/ OtherFinishes

Next == HostStep \/ ClientStep \/ Environment \/ LoseConnection

Spec == Init /\ [][Next]_vars

\* The identity token is being validated: on a cache miss that awaits a fetch of
\* keys which has no timeout.
Validating ==
  /\ hpc = "handshake" /\ Head(batch) = "authenticate"
  /\ ServerAccepts(flags, Head(batch))

\* Waiting for the peer's stream ends with the connection, or a timeout that need
\* not be configured.
AwaitsStream == hpc = "accept" /\ toHost = << >> /\ ~finC /\ link = "up"

\* The runtime polls a task again when what it waits for has happened, which for
\* these two may be never.
HostPolled == HostStep /\ ~Validating /\ ~AwaitsStream

FairSpec == Spec /\ WF_vars(HostPolled) /\ WF_vars(ClientStep)
-----------------------------------------------------------------------------
\* Types (cflags, the flags of the smoke client, is a fold over its reads and has
\* none of its own), and no place of the host's loops without a message to handle.
TypeOK ==
  /\ cfg \in Configurations
  /\ hpc \in HostStates /\ flags \in SUBSET ServerFlags
  /\ batch \in Seq(ControlMessages)
  /\ hpc \in {"hello", "handshake", "answer", "main"} => batch # << >>
  /\ established \in BOOLEAN /\ session \in {"none", "active", "held", "terminated"}
  /\ wantsVideo \in BOOLEAN /\ video \in BOOLEAN /\ down \in BOOLEAN
  /\ result \in {"none", "ok", "rejected", "protocol", "error"}
  /\ wire \in Seq(ControlMessages)
  /\ toHost \in Seq(PeerMessages) /\ finC \in BOOLEAN
  /\ toClient \in Seq(ControlMessages) /\ finH \in BOOLEAN
  /\ link \in {"up", "down"}
  /\ cpc \in ClientStates
  /\ goodbyeSaid \in BOOLEAN /\ count \in Nat

Said(m) == \E i \in 1 .. Len(wire) : wire[i] = m
ToldOfSuccess == Said("auth_ok") \/ Said("resume_ok")

ResultSaid == \E i \in 1 .. Len(wire) : wire[i] \in Results
RejectionSaid == Said("auth_no") \/ Said("resume_no")
Asked == "auth_received" \in flags \/ "resume_received" \in flags
Over == hpc \in {"closing", "done"}

\* A client and a host that agree on whether there is a handshake.
Conforming == cfg.kind # "other" /\ cfg.auth = (cfg.credential # "none")

\* The task and the sender of pointer shapes share the stream, and a read may
\* hold any messages in any order; still the host acknowledges at most one hello
\* and answers at most one handshake, says nothing after a rejection, sends no
\* shape before the result that makes the client expect one, and nothing but
\* shapes once it has said goodbye.
HostSpeaksInOrder ==
  \A j \in 1 .. Len(wire) :
    /\ wire[j] = "pointer_shape" /\ cfg.auth =>
         \E i \in 1 .. j - 1 : wire[i] \in {"auth_ok", "resume_ok"}
    /\ \A i \in 1 .. j - 1 :
         /\ wire[i] = wire[j] => wire[j] = "pointer_shape"
         /\ wire[i] \in Results => wire[j] \notin Results
         /\ wire[i] \notin {"auth_no", "resume_no"}
         /\ wire[i] = "goodbye" => wire[j] = "pointer_shape"

\* On a host with authentication, input is replayed and video runs only for a
\* session that was admitted and of which the client was told; with the loop
\* over a batch, the messages behind the handshake are no exception.
ServedWasAdmitted ==
  cfg.auth /\ (down \/ video) => established /\ session # "none" /\ ToldOfSuccess

\* The fate of the session: it is terminated only if one of the two sides really
\* said goodbye, and held only if the host neither said nor heard one.
FateFollowsGoodbye ==
  /\ session = "terminated" => goodbyeSaid \/ Said("goodbye")
  /\ session = "held" => ~OrderlyShutdown(flags) /\ ~Said("goodbye")

\* A task that returns Ok leaves nothing behind: no Active session nobody
\* serves, no worker, nothing held down.
ReturnsClean ==
  hpc = "done" /\ result \in {"ok", "rejected"} =>
    session # "active" /\ ~video /\ ~down

\* A client and a host of this repository never meet a protocol error, whatever
\* the timing: the host takes every message the client sends when it sends it.
ConformingNeverRefused == Conforming => result # "protocol"

-----------------------------------------------------------------------------
(* Why these hold: what the host's task knows at each of its places.       *)

\* session_established, the flags of the protocol and the session agree, and
\* nothing is served before.
AdmissionInv ==
  /\ established = ServerEstablished(flags)
  /\ cfg.auth => (established <=> session # "none")
  /\ cfg.auth /\ ServerFinished(flags) => Asked
  /\ ~cfg.auth => session = "none"
                  /\ hpc \notin {"read_handshake", "handshake", "answer"}
  /\ hpc \in {"accept", "read_hello", "hello", "read_handshake"} =>
       ~established /\ (cfg.auth => ~ServerFinished(flags))
  /\ down \/ video => established
  /\ hpc = "answer" => /\ IsCredential(Head(batch)) /\ session = "active"
                       /\ ~ResultSaid /\ ~video /\ ~down
  /\ cfg.auth /\ established /\ hpc # "answer" /\ ~Over => ToldOfSuccess
  /\ ServedWasAdmitted

\* What has been said has left its mark on the flags.
WireInv ==
  /\ Said("hello_ack") => "hello_received" \in flags
  /\ ResultSaid => cfg.auth /\ ServerFinished(flags)
  /\ RejectionSaid => Over /\ ~video
  /\ Said("goodbye") => "goodbye_sent" \in flags
  /\ "goodbye_sent" \in flags =>
       /\ hpc \notin {"accept", "read_hello", "hello", "read_handshake", "handshake",
                      "answer", "say_goodbye"}
       /\ Said("goodbye") \/ (Over /\ result = "error")
  /\ HostSpeaksInOrder

\* A goodbye the host has heard, or has still to hear, was said.
GoodbyeInv ==
  /\ "goodbye_received" \in flags => goodbyeSaid
  /\ \A i \in 1 .. Len(batch) : batch[i] = "goodbye" => goodbyeSaid
  /\ \A i \in 1 .. Len(toHost) : toHost[i] = "goodbye" => goodbyeSaid

\* The session is settled on the way out, and only there.
EndInv ==
  /\ hpc = "settle_end" /\ session = "active" => OrderlyShutdown(flags)
  /\ hpc = "settle_hold" => ~OrderlyShutdown(flags)
  /\ session = "held" => ~OrderlyShutdown(flags)
  /\ session = "terminated" => goodbyeSaid \/ Said("goodbye")
  /\ session \in {"held", "terminated"} => hpc \in {"clean_up", "finish"} \/ Over
  /\ hpc \in {"clean_up", "finish"} => session # "active"
  /\ hpc = "finish" => ~video /\ ~down
  /\ result # "none" <=> Over
  /\ result \in {"ok", "rejected"} => session # "active" /\ ~video /\ ~down

\* The inductive invariant of the host's task.
HostInvariant == TypeOK /\ AdmissionInv /\ WireInv /\ GoodbyeInv /\ EndInv

-----------------------------------------------------------------------------
(* What must happen.                                                       *)

\* A client that waits for hello_ack or for its result gets an answer or sees the
\* connection end: client and host do not wait for each other.  Only a validation
\* of its identity token that never ends keeps it waiting; a client that resumes
\* waits for nothing of the kind.
HandshakeEnds ==
  /\ (Conforming /\ cpc = "await_ack") ~> (cpc # "await_ack")
  /\ (Conforming /\ cpc = "await_result") ~> (cpc # "await_result" \/ []Validating)
=============================================================================
