------------------------ MODULE ControlStreamProofs ------------------------
(***************************************************************************)
(* Theorems about ControlStream: any number of messages, of any kind and   *)
(* in any order, in reads of any size.                                     *)
(***************************************************************************)
EXTENDS ControlStream, SequenceTheorems, WellFoundedInduction, TLAPS

(* What a read takes and what it leaves. *)
LEMMA ReadParts ==
    ASSUME NEW S, NEW s \in Seq(S), NEW n \in 0 .. Len(s)
    PROVE  /\ Front(s, n) \in Seq(S) /\ Len(Front(s, n)) = n
           /\ \A i \in 1 .. n : Front(s, n)[i] = s[i]
           /\ Rest(s, n) \in Seq(S) /\ Len(Rest(s, n)) = Len(s) - n
           /\ \A i \in 1 .. Len(s) - n : Rest(s, n)[i] = s[n + i]
  <1>1. n \in Int /\ 1 \in Int /\ Len(s) \in Int /\ n + 1 \in Int
    OBVIOUS
  <1>2. /\ \A i \in 1 .. n : s[i] \in S
        /\ \A i \in n + 1 .. Len(s) : s[i] \in S
    OBVIOUS
  <1>3. /\ Front(s, n) \in Seq(S)
        /\ Len(Front(s, n)) = IF 1 <= n THEN n - 1 + 1 ELSE 0
        /\ \A i \in 1 .. n - 1 + 1 : Front(s, n)[i] = s[1 + i - 1]
    BY <1>1, <1>2, SubSeqProperties, SMT DEF Front
  <1>4. /\ Rest(s, n) \in Seq(S)
        /\ Len(Rest(s, n)) = IF n + 1 <= Len(s) THEN Len(s) - (n + 1) + 1 ELSE 0
        /\ \A i \in 1 .. Len(s) - (n + 1) + 1 : Rest(s, n)[i] = s[n + 1 + i - 1]
    BY <1>1, <1>2, SubSeqProperties, SMT DEF Rest
  <1>5. \A i \in 1 .. n : 1 + i - 1 = i
    OBVIOUS
  <1>6. \A i \in 1 .. Len(s) - n : n + 1 + i - 1 = n + i
    OBVIOUS
  <1>7. n - 1 + 1 = n /\ Len(s) - (n + 1) + 1 = Len(s) - n
    OBVIOUS
  <1>8. (IF 1 <= n THEN n - 1 + 1 ELSE 0) = n
        /\ (IF n + 1 <= Len(s) THEN Len(s) - (n + 1) + 1 ELSE 0) = Len(s) - n
    OBVIOUS
  <1> QED
    BY <1>3, <1>4, <1>5, <1>6, <1>7, <1>8

(* Taking the first message of a batch. *)
LEMMA TailParts ==
    ASSUME NEW S, NEW s \in Seq(S), s # << >>
    PROVE  /\ Head(s) \in S /\ Head(s) = s[1] /\ Len(s) >= 1
           /\ Tail(s) \in Seq(S)
           /\ \A i \in 1 .. Len(Tail(s)) : Tail(s)[i] = s[i + 1] /\ i + 1 \in 1 .. Len(s)
  OBVIOUS

(* What arrives of a stream when the connection goes down. *)
LEMMA TruncateParts ==
    ASSUME NEW S, NEW s \in Seq(S), NEW fin \in BOOLEAN, NEW t, NEW u,
           Truncate(s, fin, t, u)
    PROVE  /\ t \in Seq(S) /\ u \in BOOLEAN
           /\ \A i \in 1 .. Len(t) : t[i] = s[i] /\ i \in 1 .. Len(s)
  <1>1. CASE link = "down"
    BY <1>1 DEF Truncate
  <1>2. CASE link # "down"
    <2>1. PICK n \in 0 .. Len(s) : t = Front(s, n) /\ u \in {FALSE, fin /\ n = Len(s)}
      BY <1>2 DEF Truncate
    <2>2. u \in BOOLEAN
      BY <2>1
    <2>3. /\ Front(s, n) \in Seq(S) /\ Len(Front(s, n)) = n
          /\ \A i \in 1 .. n : Front(s, n)[i] = s[i]
      BY ReadParts
    <2>4. \A i \in 1 .. n : i \in 1 .. Len(s)
      OBVIOUS
    <2> QED
      BY <2>1, <2>2, <2>3, <2>4
  <1> QED
    BY <1>1, <1>2

(* A read leaves messages of the peer, and gives the host messages it knows. *)
LEMMA ReadTypes ==
    ASSUME TypeOK, NEW n \in 1 .. Len(toHost), Read(n)
    PROVE  /\ toHost' \in Seq(PeerMessages)
           /\ \A i \in 1 .. Len(toHost') : toHost'[i] = toHost[n + i]
                                            /\ n + i \in 1 .. Len(toHost)
           /\ ReadsMessages(n) => /\ batch' \in Seq(ControlMessages) /\ batch' # << >>
                                  /\ \A i \in 1 .. Len(batch') :
                                       batch'[i] = toHost[i] /\ i \in 1 .. Len(toHost)
  <1>1. toHost \in Seq(PeerMessages) /\ n \in 0 .. Len(toHost) /\ Len(toHost) \in Nat
    BY DEF TypeOK
  <1>2. toHost' \in Seq(PeerMessages) /\ Len(toHost') = Len(toHost) - n
        /\ \A i \in 1 .. Len(toHost) - n : toHost'[i] = toHost[n + i]
    BY <1>1, ReadParts DEF Read
  <1>3. ASSUME ReadsMessages(n)
        PROVE  /\ batch' \in Seq(ControlMessages) /\ batch' # << >>
               /\ \A i \in 1 .. Len(batch') : batch'[i] = toHost[i] /\ i \in 1 .. Len(toHost)
    <2>1. /\ batch' \in Seq(PeerMessages) /\ Len(batch') = n
          /\ \A i \in 1 .. n : batch'[i] = toHost[i]
      BY <1>1, <1>3, ReadParts DEF ReadsMessages
    <2>2. \A i \in 1 .. n : batch'[i] \in ControlMessages
      BY <1>1, <1>3, <2>1 DEF ReadsMessages, PeerMessages
    <2> QED
      BY <1>1, <2>1, <2>2
  <1> QED
    BY <1>1, <1>2, <1>3

(* A connection begins with the types. *)
LEMMA TypeInit == Init => TypeOK
  <1> SUFFICES ASSUME Init PROVE TypeOK
    OBVIOUS
  <1>1. cfg \in Configurations /\ hpc \in HostStates /\ cpc \in ClientStates
    BY DEF Init, HostStates, ClientStates
  <1>2. flags \in SUBSET ServerFlags /\ batch \in Seq(ControlMessages)
        /\ wire \in Seq(ControlMessages) /\ toHost \in Seq(PeerMessages)
        /\ toClient \in Seq(ControlMessages)
    BY DEF Init
  <1> QED
    BY <1>1, <1>2 DEF Init, TypeOK

(* What a message leaves behind, kind by kind. *)
LEMMA Received ==
    ASSUME NEW f, NEW m
    PROVE  /\ m = "hello" => ServerReceive(f, m) = f \cup {"hello_received"}
           /\ m = "authenticate" => ServerReceive(f, m) = f \cup {"auth_received"}
           /\ m = "resume_session" => ServerReceive(f, m) = f \cup {"resume_received"}
           /\ m = "goodbye" => ServerReceive(f, m) = f \cup {"goodbye_received"}
           /\ m = "input" => ServerReceive(f, m) = f
  BY DEF ServerReceive

(* The operators of ControlConnection give flags of the server. *)
LEMMA FlagTypes ==
    ASSUME NEW f \in SUBSET ServerFlags, NEW m
    PROVE  /\ ServerReceive(f, m) \in SUBSET ServerFlags
           /\ BypassAuth(f) \in SUBSET ServerFlags
           /\ InitiateGoodbye(f) \in SUBSET ServerFlags
           /\ \A b \in BOOLEAN : Record(f, m, b) \in SUBSET ServerFlags
  BY DEF ServerReceive, BypassAuth, InitiateGoodbye, Record, RecordAuthResult,
         RecordResumeResult, Outcome, ServerFlags

(* Everything of TypeOK that a step of the host's task may change. *)
LEMMA HostTypes ==
    ASSUME TypeOK, UNCHANGED <<cfg, clientVars>>,
           hpc' \in HostStates, flags' \in SUBSET ServerFlags,
           batch' \in Seq(ControlMessages),
           hpc' \in {"hello", "handshake", "answer", "main"} => batch' # << >>,
           established' \in BOOLEAN, session' \in {"none", "active", "held", "terminated"},
           wantsVideo' \in BOOLEAN, video' \in BOOLEAN, down' \in BOOLEAN,
           result' \in {"none", "ok", "rejected", "protocol", "error"},
           wire' \in Seq(ControlMessages), toHost' \in Seq(PeerMessages),
           finC' \in BOOLEAN, toClient' \in Seq(ControlMessages), finH' \in BOOLEAN,
           link' \in {"up", "down"}
    PROVE  TypeOK'
  BY DEF TypeOK, clientVars

(* Sending keeps the types of what was sent. *)
LEMMA SendTypes ==
    ASSUME TypeOK, NEW m \in ControlMessages, Send(m)
    PROVE  /\ wire' \in Seq(ControlMessages) /\ toClient' \in Seq(ControlMessages)
           /\ UNCHANGED <<toHost, finC, finH, link>>
  BY DEF TypeOK, Send

(* Every step keeps the types. *)
LEMMA TypeNext == TypeOK /\ [Next]_vars => TypeOK'
  <1> SUFFICES ASSUME TypeOK, [Next]_vars PROVE TypeOK'
    OBVIOUS
  <1> USE DEF hostVars, clientVars, netVars, setup
  <1>t. /\ hpc \in HostStates /\ flags \in SUBSET ServerFlags
        /\ batch \in Seq(ControlMessages) /\ wire \in Seq(ControlMessages)
        /\ toHost \in Seq(PeerMessages) /\ toClient \in Seq(ControlMessages)
        /\ finC \in BOOLEAN /\ finH \in BOOLEAN
    BY DEF TypeOK
  <1>b. hpc \in {"hello", "handshake", "answer", "main"} =>
          /\ batch # << >> /\ Head(batch) \in ControlMessages
          /\ Tail(batch) \in Seq(ControlMessages)
    BY DEF TypeOK
  <1>r. \A n \in 1 .. Len(toHost) : ReadsMessages(n) =>
          /\ batch' \in Seq(ControlMessages) /\ batch' # << >>
          /\ toHost' \in Seq(PeerMessages) /\ UNCHANGED <<finC, toClient, finH, link>>
    BY ReadTypes DEF ReadsMessages, Read
  <1>e. ReadsError => batch' = batch /\ toHost' \in Seq(PeerMessages)
                      /\ UNCHANGED <<finC, toClient, finH, link>>
    BY <1>t, ReadTypes DEF ReadsError, Read
  <1>c. \A m \in PeerMessages : ClientSend(m) =>
          /\ toHost' \in Seq(PeerMessages) /\ goodbyeSaid' \in BOOLEAN
          /\ UNCHANGED <<finC, toClient, finH, link>>
    BY <1>t DEF ClientSend, TypeOK
  <1>g. \A n \in 1 .. Len(toClient) : ClientGets(n) =>
          /\ toClient' \in Seq(ControlMessages) /\ UNCHANGED <<toHost, finC, finH, link>>
    BY <1>t, ReadParts DEF ClientGets
  <1>m. {"hello", "authenticate", "resume_session", "goodbye", "input", "hello_ack",
         "auth_ok", "auth_no", "resume_ok", "resume_no", "pointer_shape"}
          \subseteq ControlMessages /\ ControlMessages \subseteq PeerMessages
        /\ OtherMessages \subseteq PeerMessages
    BY OtherAssumption DEF ControlMessages, PeerMessages, Results, AuthResults,
       ResumeResults
  <1>1. CASE LoseConnection
    <2>1. /\ toHost' \in Seq(PeerMessages) /\ finC' \in BOOLEAN
          /\ toClient' \in Seq(ControlMessages) /\ finH' \in BOOLEAN
      BY <1>1, <1>t, TruncateParts DEF LoseConnection
    <2> QED
      BY <1>1, <2>1 DEF LoseConnection, TypeOK
  <1>2. CASE AcceptStream
    BY <1>2, <1>t, HostTypes DEF AcceptStream, TypeOK, HostStates
  <1>3. CASE AcceptFails
    <2>1. toClient' \in Seq(ControlMessages) /\ finH' \in BOOLEAN
      BY <1>3, <1>t, TruncateParts DEF AcceptFails
    <2>2. toHost' \in Seq(PeerMessages)
      BY <1>3 DEF AcceptFails
    <2> QED
      BY <1>3, <2>1, <2>2, <1>t DEF AcceptFails, TypeOK, HostStates
  <1>4. CASE HostCloses
    <2>1. toClient' \in Seq(ControlMessages) /\ finH' \in BOOLEAN
      BY <1>4, <1>t, TruncateParts DEF HostCloses
    <2>2. toHost' \in Seq(PeerMessages)
      BY <1>4 DEF HostCloses
    <2> QED
      BY <1>4, <2>1, <2>2, <1>t DEF HostCloses, TypeOK, HostStates
  <1>5. CASE ReadHello
    <2>1. flags' \in SUBSET ServerFlags
      BY <1>5, <1>t, FlagTypes DEF ReadHello
    <2>2. CASE \E n \in 1 .. Len(toHost) : ReadsMessages(n) /\ hpc' = "hello"
      BY <1>5, <2>1, <2>2, <1>r, HostTypes DEF ReadHello, TypeOK, HostStates,
         AfterHello, Fail
    <2>3. CASE ReadsEnd /\ AfterHello(wantsVideo)
      <3>1. /\ hpc' \in HostStates
            /\ hpc' \notin {"hello", "handshake", "answer", "main"}
            /\ result' \in {"none", "ok", "rejected", "protocol", "error"}
        BY <2>3 DEF AfterHello, Fail, HostStates, TypeOK
      <3>2. established' \in BOOLEAN /\ video' \in BOOLEAN /\ UNCHANGED session
        BY <2>3 DEF AfterHello, Fail, TypeOK
      <3>3. UNCHANGED <<netVars, batch>>
        BY <2>3 DEF ReadsEnd
      <3> QED
        BY <1>5, <2>1, <3>1, <3>2, <3>3, <1>t, HostTypes DEF ReadHello, TypeOK
    <2>4. CASE ReadsError /\ Fail("error")
      BY <1>5, <2>1, <2>4, <1>t, <1>e, HostTypes DEF ReadHello, TypeOK, HostStates,
         AfterHello, Fail
    <2> QED
      BY <1>5, <2>2, <2>3, <2>4 DEF ReadHello
  <1>6. CASE HandleHello
    <2>1. flags' \in SUBSET ServerFlags
      BY <1>6, <1>t, FlagTypes DEF HandleHello
    <2>2. wantsVideo' \in BOOLEAN
      BY <1>6 DEF HandleHello, TypeOK
    <2> DEFINE m == Head(batch)
    <2>3. CASE /\ ServerAccepts(flags, m)
               /\ IF ServerReplies(m) = << >> THEN UNCHANGED <<wire, netVars>>
                                              ELSE Send(Head(ServerReplies(m)))
      <3>1. /\ wire' \in Seq(ControlMessages) /\ toClient' \in Seq(ControlMessages)
            /\ UNCHANGED <<toHost, finC, finH, link>>
        BY <2>3, <1>t, <1>m, SendTypes DEF ServerReplies
      <3> QED
        <4>1. /\ batch' \in Seq(ControlMessages)
              /\ hpc' \in {"hello", "handshake", "answer", "main"} => batch' # << >>
          BY <1>6, <1>t, <1>b DEF HandleHello, AfterHello, Fail
        <4>2. hpc' \in HostStates
              /\ result' \in {"none", "ok", "rejected", "protocol", "error"}
          BY <1>6 DEF HandleHello, AfterHello, Fail, HostStates, TypeOK
        <4>3. established' \in BOOLEAN /\ video' \in BOOLEAN /\ UNCHANGED session
          BY <1>6, <2>2 DEF HandleHello, AfterHello, Fail, TypeOK
        <4> QED
          BY <1>6, <2>1, <2>2, <3>1, <4>1, <4>2, <4>3, <1>t, HostTypes
             DEF HandleHello, TypeOK
    <2>4. CASE ServerAccepts(flags, m) /\ ServerReplies(m) # << >> /\ SendFails
      BY <1>6, <2>1, <2>2, <2>4, <1>t, <1>b, HostTypes
         DEF HandleHello, TypeOK, HostStates, AfterHello, Fail, SendFails
    <2>5. CASE ~ServerAccepts(flags, m)
      BY <1>6, <2>1, <2>2, <2>5, <1>t, <1>b, HostTypes
         DEF HandleHello, TypeOK, HostStates, AfterHello, Fail
    <2> QED
      BY <1>6, <2>3, <2>4, <2>5 DEF HandleHello
  <1>7. CASE ReadHandshake
    <2>1. CASE \E n \in 1 .. Len(toHost) : ReadsMessages(n) /\ hpc' = "handshake"
      BY <1>7, <2>1, <1>r, <1>t, HostTypes DEF ReadHandshake, TypeOK, HostStates, Fail
    <2>2. CASE ReadsEnd /\ hpc' = "say_goodbye"
      BY <1>7, <2>2, <1>t, HostTypes DEF ReadHandshake, ReadsEnd, TypeOK, HostStates,
         Fail
    <2>3. CASE ReadsError /\ Fail("error")
      BY <1>7, <2>3, <1>e, <1>t, HostTypes DEF ReadHandshake, TypeOK, HostStates, Fail
    <2> QED
      BY <1>7, <2>1, <2>2, <2>3 DEF ReadHandshake
  <1>8. CASE Admit
    <2>1. flags' \in SUBSET ServerFlags
      BY <1>8, <1>t, FlagTypes DEF Admit
    <2> QED
      BY <1>8, <2>1, <1>t, <1>b, HostTypes DEF Admit, TypeOK, HostStates
  <1>9. CASE Answer
    <2>1. CASE Send(IF Head(batch) = "authenticate" THEN "auth_ok" ELSE "resume_ok")
      <3>1. /\ wire' \in Seq(ControlMessages) /\ toClient' \in Seq(ControlMessages)
            /\ UNCHANGED <<toHost, finC, finH, link>>
        BY <2>1, <1>m, SendTypes
      <3> QED
        <4>1. /\ batch' \in Seq(ControlMessages) /\ video' \in BOOLEAN
              /\ hpc' \in {"hello", "handshake", "answer", "main"} => batch' # << >>
          BY <1>9, <1>t, <1>b DEF Answer, NextHandshake, Fail, TypeOK
        <4>2. hpc' \in HostStates
              /\ result' \in {"none", "ok", "rejected", "protocol", "error"}
          BY <1>9 DEF Answer, NextHandshake, Fail, HostStates, TypeOK
        <4> QED
          BY <1>9, <3>1, <4>1, <4>2, <1>t, HostTypes DEF Answer, TypeOK
    <2>2. CASE SendFails /\ Fail("error")
      <3>1. hpc' = "closing" /\ result' = "error" /\ UNCHANGED <<wire, netVars>>
        BY <2>2 DEF SendFails, Fail
      <3>2. batch' \in Seq(ControlMessages) /\ video' \in BOOLEAN
        BY <1>9, <1>t, <1>b DEF Answer, TypeOK
      <3> QED
        BY <1>9, <3>1, <3>2, <1>t, HostTypes DEF Answer, TypeOK, HostStates
    <2> QED
      BY <1>9, <2>1, <2>2 DEF Answer
  <1>10. CASE Reject
    <2>1. flags' \in SUBSET ServerFlags
      BY <1>10, <1>t, FlagTypes DEF Reject
    <2>2. /\ wire' \in Seq(ControlMessages) /\ toClient' \in Seq(ControlMessages)
          /\ finH' \in BOOLEAN /\ UNCHANGED <<toHost, finC, link>>
      <3>1. CASE SendFails
        BY <3>1, <1>t DEF SendFails
      <3>2. CASE ~SendFails
        <4>1. PICK m \in {"auth_no", "resume_no"} :
                toClient' = Append(toClient, m) /\ wire' = Append(wire, m)
          BY <1>10, <3>2 DEF Reject
        <4>2. finH' = TRUE /\ UNCHANGED <<toHost, finC, link>>
          BY <1>10, <3>2 DEF Reject
        <4> QED
          BY <4>1, <4>2, <1>t, <1>m
      <3> QED
        BY <3>1, <3>2
    <2>3. hpc' = "closing" /\ result' \in {"rejected", "error"}
      BY <1>10 DEF Reject, Fail
    <2> QED
      BY <1>10, <2>1, <2>2, <2>3, <1>t, HostTypes DEF Reject, TypeOK, HostStates
  <1>11. CASE AdmitFails
    <2>1. flags' \in SUBSET ServerFlags
      BY <1>11, <1>t, FlagTypes DEF AdmitFails
    <2> QED
      BY <1>11, <2>1, <1>t, <1>b, HostTypes DEF AdmitFails, TypeOK, HostStates, Fail
  <1>12. CASE HandleHandshake
    <2>1. flags' \in SUBSET ServerFlags
      BY <1>12, <1>t, FlagTypes DEF HandleHandshake
    <2> QED
      <3>1. batch' \in Seq(ControlMessages)
            /\ (hpc' \in {"hello", "handshake", "answer", "main"} => batch' # << >>)
        BY <1>12, <1>t, <1>b DEF HandleHandshake, Fail, NextHandshake
      <3>2. hpc' \in HostStates
            /\ result' \in {"none", "ok", "rejected", "protocol", "error"}
        BY <1>12 DEF HandleHandshake, Fail, NextHandshake, HostStates, TypeOK
      <3> QED
        BY <1>12, <2>1, <3>1, <3>2, <1>t, HostTypes DEF HandleHandshake, TypeOK
  <1>13. CASE HandleMain
    <2>1. flags' \in SUBSET ServerFlags
      BY <1>13, <1>t, FlagTypes DEF HandleMain
    <2> QED
      <3>1. batch' \in Seq(ControlMessages)
            /\ (hpc' \in {"hello", "handshake", "answer", "main"} => batch' # << >>)
        BY <1>13, <1>t, <1>b DEF HandleMain, Fail
      <3>2. hpc' \in HostStates
            /\ result' \in {"none", "ok", "rejected", "protocol", "error"}
        BY <1>13 DEF HandleMain, Fail, HostStates, TypeOK
      <3>3. down' \in BOOLEAN
        BY <1>13 DEF HandleMain, TypeOK
      <3> QED
        BY <1>13, <2>1, <3>1, <3>2, <3>3, <1>t, HostTypes DEF HandleMain, TypeOK
  <1>14. CASE SayGoodbye
    <2>1. flags' \in SUBSET ServerFlags
      BY <1>14, <1>t, FlagTypes DEF SayGoodbye
    <2>2. /\ wire' \in Seq(ControlMessages) /\ toClient' \in Seq(ControlMessages)
          /\ UNCHANGED <<toHost, finC, finH, link>>
      BY <1>14, <1>t, <1>m, SendTypes DEF SayGoodbye, SendFails
    <2> QED
      BY <1>14, <2>1, <2>2, <1>t, <1>b, HostTypes DEF SayGoodbye, TypeOK, HostStates,
         Fail
  <1>15. CASE FinishGoodbye
    BY <1>15, <1>t, HostTypes DEF FinishGoodbye, TypeOK, HostStates
  <1>16. CASE Settle
    BY <1>16, <1>t, HostTypes DEF Settle, TypeOK, HostStates
  <1>17. CASE CleanUp
    BY <1>17, <1>t, HostTypes DEF CleanUp, TypeOK, HostStates
  <1>18. CASE Finish
    BY <1>18, <1>t, HostTypes DEF Finish, TypeOK, HostStates
  <1>19. CASE PointerShape
    <2>1. /\ wire' \in Seq(ControlMessages) /\ toClient' \in Seq(ControlMessages)
          /\ UNCHANGED <<toHost, finC, finH, link>>
      BY <1>19, <1>m, SendTypes DEF PointerShape
    <2> QED
      BY <1>19, <2>1, <1>t, <1>b, HostTypes DEF PointerShape, TypeOK
  <1>20. CASE ReadMain
    <2>1. CASE \E n \in 1 .. Len(toHost) : ReadsMessages(n) /\ hpc' = "main"
      BY <1>20, <2>1, <1>r, <1>t, HostTypes DEF ReadMain, TypeOK, HostStates, Fail
    <2>2. CASE ReadsEnd
      BY <1>20, <2>2, <1>t, HostTypes DEF ReadMain, ReadsEnd, ReadsMessages, Read,
         ReadsError,
         TypeOK, HostStates, Fail
    <2>3. CASE ReadsError
      BY <1>20, <2>3, <1>e, <1>t, <1>r, HostTypes DEF ReadMain, ReadsEnd, TypeOK,
         HostStates, Fail
    <2> QED
      BY <1>20, <2>1, <2>2, <2>3 DEF ReadMain
  <1>21. CASE ClientHello
    BY <1>21, <1>t, <1>c, <1>m DEF ClientHello, TypeOK, ClientStates, ClientSendFails,
       ClientGetsEnd, ClientGetsError, HeadsetGone
  <1>22. CASE HeadsetAsk
    <2>1. cfg.credential # "none" => cfg.credential \in PeerMessages
      BY <1>m DEF TypeOK, Configurations, AllConfigurations, Credentials
    <2> QED
      BY <1>22, <2>1, <1>t, <1>c DEF HeadsetAsk, TypeOK, ClientStates, ClientSendFails
  <1>23. CASE HeadsetInput
    BY <1>23, <1>t, <1>c, <1>m DEF HeadsetInput, TypeOK, ClientStates,
       ClientSendFails, ClientGetsEnd, ClientGetsError, HeadsetGone
  <1>24. CASE HeadsetDisconnect
    BY <1>24, <1>t, <1>c, <1>m DEF HeadsetDisconnect, TypeOK, ClientStates,
       ClientSendFails, ClientGetsEnd, ClientGetsError, HeadsetGone
  <1>25. CASE HeadsetDrop
    BY <1>25, <1>t, <1>c, <1>m DEF HeadsetDrop, TypeOK, ClientStates, ClientSendFails,
       ClientGetsEnd, ClientGetsError, HeadsetGone
  <1>26. CASE OtherSends
    BY <1>26, <1>t, <1>c, <1>m DEF OtherSends, TypeOK, ClientStates, ClientSendFails,
       ClientGetsEnd, ClientGetsError, HeadsetGone
  <1>27. CASE OtherFinishes
    BY <1>27, <1>t, <1>c, <1>m DEF OtherFinishes, TypeOK, ClientStates,
       ClientSendFails, ClientGetsEnd, ClientGetsError, HeadsetGone
  <1>28. CASE SmokeAsk
    <2>1. cfg.credential # "none" => cfg.credential \in PeerMessages
      BY <1>m DEF TypeOK, Configurations, AllConfigurations, Credentials
    <2> QED
      BY <1>28, <2>1, <1>t, <1>c DEF SmokeAsk, TypeOK, ClientStates, ClientSendFails,
         ClientGetsEnd, ClientGetsError, HeadsetGone
  <1>29. CASE SmokeGoodbye
    <2>1. CASE /\ link = "up" /\ toHost' = Append(toHost, "goodbye") /\ finC' = TRUE
               /\ goodbyeSaid' = TRUE /\ UNCHANGED <<toClient, finH, link>>
      <3>1. toHost' \in Seq(PeerMessages)
        BY <2>1, <1>t, <1>m
      <3> QED
        BY <1>29, <2>1, <3>1 DEF SmokeGoodbye, TypeOK, ClientStates
    <2>2. CASE UNCHANGED <<netVars, goodbyeSaid>>
      BY <1>29, <2>2 DEF SmokeGoodbye, TypeOK, ClientStates
    <2> QED
      BY <1>29, <2>1, <2>2 DEF SmokeGoodbye, ClientSendFails
  <1>30. CASE HeadsetReadAck
    BY <1>30, <1>t, <1>g DEF HeadsetReadAck, ClientGets, TypeOK, ClientStates,
       ClientSendFails, ClientGetsEnd, ClientGetsError, HeadsetGone
  <1>31. CASE HeadsetReadResult
    BY <1>31, <1>t, <1>g DEF HeadsetReadResult, ClientGets, TypeOK, ClientStates,
       ClientSendFails, ClientGetsEnd, ClientGetsError, HeadsetGone
  <1>32. CASE HeadsetListen
    BY <1>32, <1>t, <1>g DEF HeadsetListen, ClientGets, TypeOK, ClientStates,
       ClientSendFails, ClientGetsEnd, ClientGetsError, HeadsetGone
  <1>33. CASE SmokeReadAck
    <2>1. toClient' \in Seq(ControlMessages) /\ UNCHANGED <<toHost, finC, finH, link>>
      BY <1>33, <1>t, <1>g DEF SmokeReadAck, SmokeRead, ClientGetsEnd, ClientGetsError
    <2>2. cpc' \in ClientStates /\ UNCHANGED <<cfg, hostVars, goodbyeSaid, count>>
      BY <1>33, Zenon DEF SmokeReadAck, SmokeRead, AfterSmokeRead, ClientStates
    <2> QED
      BY <2>1, <2>2 DEF TypeOK
  <1>34. CASE SmokeReadResult
    <2>1. toClient' \in Seq(ControlMessages) /\ UNCHANGED <<toHost, finC, finH, link>>
      BY <1>34, <1>t, <1>g DEF SmokeReadResult, SmokeRead, ClientGetsEnd,
         ClientGetsError
    <2>2. cpc' \in ClientStates /\ UNCHANGED <<cfg, hostVars, goodbyeSaid, count>>
      BY <1>34, Zenon DEF SmokeReadResult, SmokeRead, AfterSmokeRead, ClientStates
    <2> QED
      BY <2>1, <2>2 DEF TypeOK
  <1>35. CASE SmokeListen
    <2>1. toClient' \in Seq(ControlMessages) /\ UNCHANGED <<toHost, finC, finH, link>>
      BY <1>35, <1>t, <1>g DEF SmokeListen, SmokeRead, ClientGetsEnd, ClientGetsError
    <2>2. cpc' \in ClientStates /\ UNCHANGED <<cfg, hostVars, goodbyeSaid, count>>
      BY <1>35, Zenon DEF SmokeListen, SmokeRead, AfterSmokeRead, ClientStates
    <2> QED
      BY <2>1, <2>2 DEF TypeOK
  <1>36. CASE ClientCloses
    <2>1. toHost' \in Seq(PeerMessages) /\ finC' \in BOOLEAN
      BY <1>36, <1>t, TruncateParts DEF ClientCloses
    <2>2. toClient' \in Seq(ControlMessages)
      BY <1>36 DEF ClientCloses
    <2> QED
      BY <1>36, <2>1, <2>2 DEF ClientCloses, TypeOK, ClientStates
  <1>37. CASE UNCHANGED vars
    BY <1>37 DEF vars, TypeOK
  <1> QED
    BY <1>1, <1>2, <1>3, <1>4, <1>5, <1>6, <1>7, <1>8, <1>9, <1>10, <1>11, <1>12,
       <1>13, <1>14, <1>15, <1>16, <1>17, <1>18, <1>19, <1>20, <1>21, <1>22, <1>23,
       <1>24, <1>25, <1>26, <1>27, <1>28, <1>29, <1>30, <1>31, <1>32, <1>33, <1>34,
       <1>35, <1>36, <1>37
       DEF Next, HostStep, ClientStep, Environment

(* The types hold throughout. *)
THEOREM ControlTypeCorrect == Spec => []TypeOK
  BY TypeInit, TypeNext, PTL DEF Spec
-----------------------------------------------------------------------------
(* What the operators of ControlConnection do to a flag. *)
LEMMA FlagMembers ==
    ASSUME NEW f, NEW m, NEW x
    PROVE  /\ x \in ServerReceive(f, m) <=>
                \/ x \in f \/ (m = "hello" /\ x = "hello_received")
                \/ m = "authenticate" /\ x = "auth_received"
                \/ m = "resume_session" /\ x = "resume_received"
                \/ m = "goodbye" /\ x = "goodbye_received"
           /\ x \in BypassAuth(f) <=>
                \/ x \in f /\ x # "auth_failure"
                \/ x = "auth_success" \/ x = "auth_result_sent"
           /\ x \in InitiateGoodbye(f) <=> x \in f \/ x = "goodbye_sent"
           /\ x \in RecordAuthResult(f, TRUE) <=>
                \/ x \in f /\ x # "auth_failure"
                \/ x = "auth_success" \/ x = "auth_result_sent"
           /\ x \in RecordAuthResult(f, FALSE) <=>
                \/ x \in f /\ x # "auth_success"
                \/ x = "auth_failure" \/ x = "auth_result_sent"
           /\ x \in RecordResumeResult(f, TRUE) <=>
                \/ x \in f /\ x # "auth_failure"
                \/ x = "auth_success" \/ x = "resume_result_sent"
           /\ x \in RecordResumeResult(f, FALSE) <=>
                \/ x \in f /\ x # "auth_success"
                \/ x = "auth_failure" \/ x = "resume_result_sent"
  <1>1. x \in ServerReceive(f, m) <=>
                \/ x \in f \/ (m = "hello" /\ x = "hello_received")
                \/ m = "authenticate" /\ x = "auth_received"
                \/ m = "resume_session" /\ x = "resume_received"
                \/ m = "goodbye" /\ x = "goodbye_received"
    BY DEF ServerReceive
  <1> QED
    BY <1>1 DEF BypassAuth, InitiateGoodbye, RecordAuthResult, RecordResumeResult, Outcome

(* What has been said after one more message. *)
LEMMA SaidAfter ==
    ASSUME wire \in Seq(ControlMessages), NEW m \in ControlMessages,
           wire' = Append(wire, m)
    PROVE  /\ \A x : Said(x)' <=> (Said(x) \/ x = m)
           /\ ResultSaid' <=> (ResultSaid \/ m \in Results)
  <1>1. Len(wire') = Len(wire) + 1 /\ wire'[Len(wire) + 1] = m /\ Len(wire) \in Nat
        /\ \A i \in 1 .. Len(wire) : wire'[i] = wire[i]
    OBVIOUS
  <1> QED
    BY <1>1 DEF Said, ResultSaid

(* Silence says nothing new. *)
LEMMA SaidStill ==
    ASSUME UNCHANGED wire
    PROVE  (\A x : Said(x)' <=> Said(x)) /\ (ResultSaid' <=> ResultSaid)
  BY DEF Said, ResultSaid

(* A message that may be said keeps the order on the wire. *)
LEMMA SpeaksOn ==
    ASSUME wire \in Seq(ControlMessages), NEW m \in ControlMessages,
           wire' = Append(wire, m), UNCHANGED cfg, HostSpeaksInOrder,
           Said(m) \/ Said("goodbye") => m = "pointer_shape",
           m \in Results => ~ResultSaid, ~RejectionSaid,
           m = "pointer_shape" /\ cfg.auth => ToldOfSuccess
    PROVE  HostSpeaksInOrder'
  <1>1. Len(wire') = Len(wire) + 1 /\ wire'[Len(wire) + 1] = m /\ Len(wire) \in Nat
        /\ \A i \in 1 .. Len(wire) : wire'[i] = wire[i]
    OBVIOUS
  <1> SUFFICES ASSUME NEW j \in 1 .. Len(wire')
               PROVE  /\ wire'[j] = "pointer_shape" /\ cfg.auth =>
                           \E i \in 1 .. j - 1 : wire'[i] \in {"auth_ok", "resume_ok"}
                      /\ \A i \in 1 .. j - 1 :
                           /\ wire'[i] = wire'[j] => wire'[j] = "pointer_shape"
                           /\ wire'[i] \in Results => wire'[j] \notin Results
                           /\ wire'[i] \notin {"auth_no", "resume_no"}
                           /\ wire'[i] = "goodbye" => wire'[j] = "pointer_shape"
    BY DEF HostSpeaksInOrder
  <1>2. CASE j \in 1 .. Len(wire)
    <2>1. \A i \in 1 .. j - 1 : i \in 1 .. Len(wire)
      BY <1>1, <1>2
    <2>2. /\ wire[j] = "pointer_shape" /\ cfg.auth =>
               \E i \in 1 .. j - 1 : wire[i] \in {"auth_ok", "resume_ok"}
          /\ \A i \in 1 .. j - 1 :
               /\ wire[i] = wire[j] => wire[j] = "pointer_shape"
               /\ wire[i] \in Results => wire[j] \notin Results
               /\ wire[i] \notin {"auth_no", "resume_no"}
               /\ wire[i] = "goodbye" => wire[j] = "pointer_shape"
      BY <1>2 DEF HostSpeaksInOrder
    <2>3. wire'[j] = wire[j] /\ \A i \in 1 .. j - 1 : wire'[i] = wire[i]
      BY <1>1, <1>2, <2>1
    <2> QED
      BY <2>2, <2>3
  <1>3. CASE j = Len(wire) + 1
    <2>1. j - 1 = Len(wire) /\ wire'[j] = m
      BY <1>1, <1>3
    <2>2. \A i \in 1 .. Len(wire) :
            /\ wire[i] = m => m = "pointer_shape"
            /\ wire[i] \in Results => m \notin Results
            /\ wire[i] # "auth_no" /\ wire[i] # "resume_no"
            /\ wire[i] = "goodbye" => m = "pointer_shape"
      BY DEF Said, ResultSaid, RejectionSaid
    <2>3. m = "pointer_shape" /\ cfg.auth =>
            \E i \in 1 .. Len(wire) : wire[i] \in {"auth_ok", "resume_ok"}
      BY DEF ToldOfSuccess, Said
    <2>4. 1 .. j - 1 = 1 .. Len(wire)
      BY <2>1
    <2>5. \A i \in 1 .. Len(wire) : wire'[i] = wire[i]
      BY <1>1
    <2>6. wire'[j] = "pointer_shape" /\ cfg.auth =>
            \E i \in 1 .. j - 1 : wire'[i] \in {"auth_ok", "resume_ok"}
      BY <2>1, <2>3, <2>4, <2>5
    <2>7. \A i \in 1 .. j - 1 :
            /\ wire'[i] = wire'[j] => wire'[j] = "pointer_shape"
            /\ wire'[i] \in Results => wire'[j] \notin Results
            /\ wire'[i] \notin {"auth_no", "resume_no"}
            /\ wire'[i] = "goodbye" => wire'[j] = "pointer_shape"
      BY <2>1, <2>2, <2>4, <2>5
    <2> QED
      BY <2>6, <2>7
  <1> QED
    BY <1>1, <1>2, <1>3
\* A step of the client, its user or the network.
PeerStep ==
  \/ ClientStep \/ LoseConnection \/ HeadsetInput \/ HeadsetDisconnect \/ HeadsetDrop
  \/ OtherSends \/ OtherFinishes

(* They leave the host alone, and what they send to it as a goodbye was said. *)
LEMMA PeerSteps ==
    ASSUME TypeOK, GoodbyeInv, PeerStep
    PROVE  /\ UNCHANGED <<cfg, hostVars>> /\ (goodbyeSaid => goodbyeSaid')
           /\ \A i \in 1 .. Len(toHost') : toHost'[i] = "goodbye" => goodbyeSaid'
  <1> USE DEF netVars
  <1>1. toHost \in Seq(PeerMessages) /\ finC \in BOOLEAN
        /\ \A i \in 1 .. Len(toHost) : toHost[i] = "goodbye" => goodbyeSaid
    BY DEF TypeOK, GoodbyeInv
  <1>2. UNCHANGED <<cfg, hostVars>>
    BY DEF PeerStep, ClientStep, LoseConnection, HeadsetInput, HeadsetDisconnect,
       HeadsetDrop, OtherSends, OtherFinishes, ClientHello, SmokeReadAck, SmokeAsk,
       SmokeReadResult, SmokeRead, SmokeGoodbye, SmokeListen, HeadsetReadAck,
       HeadsetAsk, HeadsetReadResult, HeadsetListen, ClientCloses
  <1>3. ASSUME NEW m, toHost' = Append(toHost, m), m = "goodbye" => goodbyeSaid',
               goodbyeSaid => goodbyeSaid', m \in PeerMessages
        PROVE  \A i \in 1 .. Len(toHost') : toHost'[i] = "goodbye" => goodbyeSaid'
    BY <1>1, <1>3
  <1>4. ASSUME NEW m \in PeerMessages, ClientSend(m)
        PROVE  /\ goodbyeSaid => goodbyeSaid'
               /\ \A i \in 1 .. Len(toHost') : toHost'[i] = "goodbye" => goodbyeSaid'
    BY <1>1, <1>3, <1>4 DEF ClientSend
  <1>5. ASSUME UNCHANGED <<toHost, goodbyeSaid>>
        PROVE  /\ goodbyeSaid => goodbyeSaid'
               /\ \A i \in 1 .. Len(toHost') : toHost'[i] = "goodbye" => goodbyeSaid'
    BY <1>1, <1>5
  <1>6. ASSUME Truncate(toHost, finC, toHost', finC'), UNCHANGED goodbyeSaid
        PROVE  /\ goodbyeSaid => goodbyeSaid'
               /\ \A i \in 1 .. Len(toHost') : toHost'[i] = "goodbye" => goodbyeSaid'
    BY <1>1, <1>6, TruncateParts
  <1>7. /\ {"hello", "authenticate", "resume_session", "goodbye", "input"}
             \subseteq PeerMessages
        /\ OtherMessages \subseteq PeerMessages
        /\ cfg.credential # "none" => cfg.credential \in PeerMessages
    BY OtherAssumption DEF TypeOK, Configurations, AllConfigurations, Credentials,
       ControlMessages, PeerMessages
  <1>8. CASE LoseConnection \/ ClientCloses
    BY <1>2, <1>6, <1>8 DEF LoseConnection, ClientCloses, clientVars
  <1>9. CASE HeadsetDrop \/ OtherFinishes \/ HeadsetReadAck \/ HeadsetReadResult
             \/ HeadsetListen
    BY <1>2, <1>5, <1>9 DEF HeadsetDrop, OtherFinishes, HeadsetReadAck,
       HeadsetReadResult, HeadsetListen, ClientGets, HeadsetGone
  <1>10. CASE SmokeReadAck \/ SmokeReadResult \/ SmokeListen
    BY <1>2, <1>5, <1>10 DEF SmokeReadAck, SmokeReadResult, SmokeListen, SmokeRead,
       ClientGets, ClientGetsEnd, ClientGetsError
  <1>11. CASE HeadsetInput \/ HeadsetDisconnect \/ OtherSends
    BY <1>2, <1>4, <1>7, <1>11 DEF HeadsetInput, HeadsetDisconnect, OtherSends
  <1>12. CASE ClientHello \/ HeadsetAsk \/ SmokeAsk
    BY <1>2, <1>4, <1>5, <1>7, <1>12 DEF ClientHello, HeadsetAsk, SmokeAsk,
       ClientSendFails
  <1>13. CASE SmokeGoodbye
    <2>1. CASE toHost' = Append(toHost, "goodbye") /\ goodbyeSaid' = TRUE
      BY <1>2, <1>3, <1>7, <2>1
    <2>2. CASE UNCHANGED <<toHost, goodbyeSaid>>
      BY <1>2, <1>5, <2>2
    <2> QED
      BY <1>13, <2>1, <2>2 DEF SmokeGoodbye, ClientSendFails
  <1> QED
    BY <1>8, <1>9, <1>10, <1>11, <1>12, <1>13 DEF PeerStep, ClientStep
(* Silence keeps the order on the wire. *)
LEMMA SpeaksStill ==
    ASSUME UNCHANGED <<cfg, wire>>, HostSpeaksInOrder
    PROVE  HostSpeaksInOrder'
  BY DEF HostSpeaksInOrder

(* A goodbye the host hears was said. *)
LEMMA GoodbyeNext == TypeOK /\ GoodbyeInv /\ [Next]_vars => GoodbyeInv'
  <1> SUFFICES ASSUME TypeOK, GoodbyeInv, [Next]_vars PROVE GoodbyeInv'
    OBVIOUS
  <1> USE DEF clientVars, netVars, setup
  <1>1. CASE PeerStep
    BY <1>1, PeerSteps DEF GoodbyeInv, hostVars
  <1>2. CASE UNCHANGED vars
    BY <1>2 DEF vars, hostVars, GoodbyeInv
  <1>3. CASE HostStep \/ PointerShape
    <2>1. UNCHANGED goodbyeSaid
      BY <1>3 DEF HostStep, PointerShape, AcceptStream, AcceptFails, ReadHello,
         HandleHello, ReadHandshake, Admit, Answer, Reject, AdmitFails,
         HandleHandshake, SayGoodbye, FinishGoodbye, ReadMain, HandleMain, Settle,
         CleanUp, Finish, HostCloses
    <2> DEFINE Quiet(s) == \A i \in 1 .. Len(s) : s[i] = "goodbye" => goodbyeSaid
    <2>2. /\ Quiet(batch) /\ Quiet(toHost) /\ ("goodbye_received" \in flags => goodbyeSaid)
          /\ batch \in Seq(ControlMessages) /\ toHost \in Seq(PeerMessages)
      BY DEF GoodbyeInv, TypeOK
    <2>3. SUFFICES /\ "goodbye_received" \in flags' => goodbyeSaid
                   /\ Quiet(batch') /\ Quiet(toHost')
      BY <2>1 DEF GoodbyeInv
    <2>4. hpc \in {"hello", "handshake", "answer", "main"} =>
            /\ Quiet(Tail(batch)) /\ (Head(batch) = "goodbye" => goodbyeSaid)
      BY <2>2, TailParts DEF TypeOK
    <2>5. \A n \in 1 .. Len(toHost) :
            /\ Read(n) => Quiet(toHost')
            /\ ReadsMessages(n) => Quiet(batch') /\ Quiet(toHost') /\ Read(n)
      <3> SUFFICES ASSUME NEW n \in 1 .. Len(toHost), Read(n)
                   PROVE  Quiet(toHost') /\ (ReadsMessages(n) => Quiet(batch'))
        BY DEF ReadsMessages
      <3>1. /\ \A i \in 1 .. Len(toHost') : toHost'[i] = toHost[n + i]
                                            /\ n + i \in 1 .. Len(toHost)
            /\ ReadsMessages(n) => \A i \in 1 .. Len(batch') :
                                     batch'[i] = toHost[i] /\ i \in 1 .. Len(toHost)
        BY ReadTypes
      <3> QED
        BY <2>2, <3>1
    <2>6. ReadsError => Quiet(batch') /\ Quiet(toHost')
      BY <2>2, <2>5 DEF ReadsError
    <2>7. ReadsEnd => Quiet(batch') /\ Quiet(toHost')
      BY <2>2 DEF ReadsEnd
    <2>8. \A m : /\ Send(m) => UNCHANGED toHost
                 /\ SendFails => UNCHANGED toHost
      BY DEF Send, SendFails
    <2>9. Quiet(<< >>)
      OBVIOUS
    <2>10. \A m : (m = "goodbye" => goodbyeSaid) =>
             /\ "goodbye_received" \in ServerReceive(flags, m) => goodbyeSaid
             /\ "goodbye_received" \in BypassAuth(ServerReceive(flags, m)) => goodbyeSaid
             /\ "goodbye_received" \in Record(ServerReceive(flags, m), m, TRUE) =>
                  goodbyeSaid
             /\ "goodbye_received" \in Record(ServerReceive(flags, m), m, FALSE) =>
                  goodbyeSaid
      <3> SUFFICES ASSUME NEW m, m = "goodbye" => goodbyeSaid
                   PROVE  /\ "goodbye_received" \in ServerReceive(flags, m) => goodbyeSaid
                          /\ "goodbye_received" \in BypassAuth(ServerReceive(flags, m)) =>
                               goodbyeSaid
                          /\ \A b \in BOOLEAN :
                               "goodbye_received" \in Record(ServerReceive(flags, m), m, b)
                                 => goodbyeSaid
        OBVIOUS
      <3>1. "goodbye_received" \in ServerReceive(flags, m) => goodbyeSaid
        BY <2>2, FlagMembers
      <3> QED
        BY <3>1 DEF Record, BypassAuth, RecordAuthResult, RecordResumeResult, Outcome
    <2>11. /\ "goodbye_received" \in BypassAuth(flags) => goodbyeSaid
           /\ "goodbye_received" \in InitiateGoodbye(flags) => goodbyeSaid
      BY <2>2, FlagMembers
    <2> HIDE DEF Quiet
    <2>12. CASE AcceptStream \/ Admit \/ Settle \/ CleanUp \/ Finish \/ AdmitFails
                \/ FinishGoodbye
      BY <2>12, <2>2, <2>4, <2>10 DEF AcceptStream, Admit, Settle, CleanUp, Finish,
         AdmitFails, FinishGoodbye
    <2>13. CASE AcceptFails \/ HostCloses
      BY <2>13, <2>2, <2>9 DEF AcceptFails, HostCloses
    <2>14. CASE ReadHello \/ ReadHandshake \/ ReadMain
      <3>1. Quiet(batch') /\ Quiet(toHost')
        BY <2>14, <2>5, <2>6, <2>7 DEF ReadHello, ReadHandshake, ReadMain
      <3>2. "goodbye_received" \in flags' => goodbyeSaid
        BY <2>14, <2>2, <2>11 DEF ReadHello, ReadHandshake, ReadMain
      <3> QED
        BY <3>1, <3>2
    <2>15. CASE HandleHello
      <3>1. Quiet(batch') /\ Quiet(toHost')
        BY <2>15, <2>2, <2>4, <2>8 DEF HandleHello
      <3>2. "goodbye_received" \in flags' => goodbyeSaid
        BY <2>15, <2>2, <2>4, <2>10 DEF HandleHello
      <3> QED
        BY <3>1, <3>2
    <2>16. CASE HandleHandshake \/ HandleMain
      BY <2>16, <2>2, <2>4, <2>10 DEF HandleHandshake, HandleMain
    <2>17. CASE Answer
      BY <2>17, <2>2, <2>4, <2>8 DEF Answer
    <2>18. CASE Reject
      BY <2>18, <2>2, <2>4, <2>8, <2>10 DEF Reject
    <2>19. CASE SayGoodbye
      BY <2>19, <2>2, <2>8, <2>11 DEF SayGoodbye
    <2>20. CASE PointerShape
      BY <2>20, <2>2, <2>8 DEF PointerShape
    <2> QED
      BY <1>3, <2>12, <2>13, <2>14, <2>15, <2>16, <2>17, <2>18, <2>19, <2>20
         DEF HostStep
  <1> QED
    BY <1>1, <1>2, <1>3 DEF Next, Environment, PeerStep

(* The rest of the invariant, step by step of the host's task. *)
LEMMA StateNext ==
    ASSUME TypeOK, TypeOK', AdmissionInv, WireInv, GoodbyeInv, EndInv,
           [Next]_vars
    PROVE  AdmissionInv' /\ WireInv' /\ EndInv'
  <1> USE DEF setup, clientVars, netVars, ServedWasAdmitted, ToldOfSuccess,
          RejectionSaid, Over, Asked, ServerEstablished, ServerFinished,
          OrderlyShutdown
  <1>t. /\ established \in BOOLEAN /\ video \in BOOLEAN /\ down \in BOOLEAN
        /\ wantsVideo \in BOOLEAN /\ cfg.auth \in BOOLEAN
        /\ established' \in BOOLEAN /\ video' \in BOOLEAN /\ down' \in BOOLEAN
        /\ wire \in Seq(ControlMessages)
        /\ session \in {"none", "active", "held", "terminated"}
        /\ hpc \in HostStates /\ goodbyeSaid \in BOOLEAN
    BY DEF TypeOK, Configurations, AllConfigurations
  <1>m. /\ "hello_ack" \in ControlMessages \ Results
        /\ "goodbye" \in ControlMessages \ Results
        /\ "pointer_shape" \in ControlMessages \ Results
        /\ Results = {"auth_ok", "auth_no", "resume_ok", "resume_no"}
        /\ Results \subseteq ControlMessages
    BY DEF ControlMessages, Results, AuthResults, ResumeResults
  <1>q. UNCHANGED <<cfg, wire>> =>
          /\ \A x : Said(x)' <=> Said(x)
          /\ ResultSaid' <=> ResultSaid
          /\ HostSpeaksInOrder'
    BY SaidStill, SpeaksStill DEF WireInv
  <1>1. CASE PeerStep
    <2>1. UNCHANGED <<cfg, hostVars>> /\ (goodbyeSaid => goodbyeSaid')
      BY <1>1, PeerSteps
    <2> QED
      BY <2>1, <1>q DEF hostVars, AdmissionInv, WireInv, EndInv
  <1>2. CASE UNCHANGED vars
    BY <1>2, <1>q DEF vars, hostVars, AdmissionInv, WireInv, EndInv
  <1>3. CASE AcceptStream
    BY <1>3, <1>q, <1>t DEF AcceptStream, AdmissionInv, WireInv, EndInv
  <1>4. CASE AcceptFails
    BY <1>4, <1>q, <1>t DEF AcceptFails, AdmissionInv, WireInv, EndInv
  <1>5. CASE HostCloses
    BY <1>5, <1>q, <1>t DEF HostCloses, AdmissionInv, WireInv, EndInv
  <1>6. CASE ReadHandshake
    BY <1>6, <1>q, <1>t DEF ReadHandshake, Fail, AdmissionInv, WireInv, EndInv
  <1>7. CASE ReadMain
    BY <1>7, <1>q, <1>t DEF ReadMain, Fail, AdmissionInv, WireInv, EndInv
  <1>8. CASE Settle
    BY <1>8, <1>q, <1>t DEF Settle, AdmissionInv, WireInv, EndInv, GoodbyeInv
  <1>9. CASE CleanUp
    BY <1>9, <1>q, <1>t DEF CleanUp, AdmissionInv, WireInv, EndInv
  <1>10. CASE Finish
    BY <1>10, <1>q, <1>t DEF Finish, AdmissionInv, WireInv, EndInv
  <1>11. CASE FinishGoodbye
    BY <1>11, <1>q, <1>t DEF FinishGoodbye, AdmissionInv, WireInv, EndInv
  <1>r. \A x, m : x \in ServerReceive(flags, m) <=>
                \/ x \in flags \/ (m = "hello" /\ x = "hello_received")
                \/ m = "authenticate" /\ x = "auth_received"
                \/ m = "resume_session" /\ x = "resume_received"
                \/ m = "goodbye" /\ x = "goodbye_received"
    BY FlagMembers
  <1>s. ASSUME NEW m, IsCredential(m), NEW b \in BOOLEAN,
               flags' = Record(ServerReceive(flags, m), m, b)
        PROVE  /\ "auth_success" \in flags' <=> b
               /\ "auth_result_sent" \in flags' \/ "resume_result_sent" \in flags'
               /\ \A x \in {"hello_received", "goodbye_sent", "goodbye_received"} :
                    x \in flags' <=> x \in flags
               /\ "auth_received" \in flags' \/ "resume_received" \in flags'
    <2>1. \A x : x \in flags' <=>
            IF m = "authenticate"
            THEN x \in RecordAuthResult(ServerReceive(flags, m), b)
            ELSE x \in RecordResumeResult(ServerReceive(flags, m), b)
      BY <1>s DEF Record
    <2> QED
      BY <1>s, <1>r, <2>1 DEF RecordAuthResult, RecordResumeResult, Outcome,
         IsCredential
  <1>12. CASE HandleMain
    BY <1>12, <1>q, <1>r, <1>t DEF HandleMain, Fail, ServerAccepts, AdmissionInv,
       WireInv, EndInv
  <1>13. CASE AdmitFails
    BY <1>13, <1>q, <1>r, <1>t DEF AdmitFails, Fail, AdmissionInv, WireInv, EndInv
  <1>14. CASE HandleHandshake
    BY <1>14, <1>q, <1>r, <1>t DEF HandleHandshake, NextHandshake, Fail, ServerAccepts,
       IsCredential, AdmissionInv, WireInv, EndInv
  <1>15. CASE Admit
    <2>1. /\ "auth_success" \in flags' /\ ServerFinished(flags')
          /\ \A x \in {"hello_received", "goodbye_sent", "goodbye_received"} :
               x \in flags' <=> x \in flags
          /\ "auth_received" \in flags' \/ "resume_received" \in flags'
      BY <1>15, <1>s DEF Admit
    <2>2. ~ResultSaid /\ ~established /\ cfg.auth
      BY <1>15, <1>t DEF Admit, IsCredential, ServerAccepts, AdmissionInv, WireInv
    <2> QED
      BY <1>15, <2>1, <2>2, <1>q, <1>t DEF Admit, AdmissionInv, WireInv, EndInv
  <1>16. CASE Reject
    <2>1. /\ "auth_success" \notin flags' /\ ServerFinished(flags')
          /\ \A x \in {"hello_received", "goodbye_sent", "goodbye_received"} :
               x \in flags' <=> x \in flags
          /\ "auth_received" \in flags' \/ "resume_received" \in flags'
      BY <1>16, <1>s DEF Reject
    <2>2. ~ResultSaid /\ ~established /\ cfg.auth
      BY <1>16, <1>t DEF Reject, IsCredential, ServerAccepts, AdmissionInv, WireInv
    <2>3. CASE SendFails
      BY <1>16, <2>1, <2>2, <2>3, <1>q, <1>t DEF Reject, SendFails, Fail, AdmissionInv,
         WireInv, EndInv
    <2>4. CASE ~SendFails
      <3>1. PICK m \in {"auth_no", "resume_no"} : wire' = Append(wire, m)
        BY <1>16, <2>4 DEF Reject
      <3>2. /\ \A x : Said(x)' <=> (Said(x) \/ x = m)
            /\ ResultSaid'
        BY <3>1, <1>m, <1>t, SaidAfter
      <3>3. \A x \in Results : ~Said(x)
        BY <2>2 DEF Said, ResultSaid
      <3>4. HostSpeaksInOrder'
        BY <1>16, <3>1, <3>3, <2>2, <1>m, <1>t, SpeaksOn DEF Reject, WireInv
      <3> QED
        BY <1>16, <2>1, <2>2, <2>4, <3>1, <3>2, <3>3, <3>4, <1>m, <1>t
           DEF Reject, AdmissionInv, WireInv, EndInv
    <2> QED
      BY <2>3, <2>4
  <1>p. \A f, x : x \in BypassAuth(f) <=> \/ x \in f /\ x # "auth_failure"
                                          \/ x = "auth_success"
                                          \/ x = "auth_result_sent"
    BY FlagMembers
  <1>17. CASE ReadHello
    <2>1. UNCHANGED <<cfg, wire, wantsVideo, down>> /\ hpc = "read_hello"
      BY <1>17 DEF ReadHello
    <2>2. CASE AfterHello(wantsVideo)
               /\ flags' = IF cfg.auth THEN flags ELSE BypassAuth(flags)
      BY <2>1, <2>2, <1>p, <1>q, <1>t DEF AfterHello, Fail, AdmissionInv, WireInv, EndInv
    <2>3. CASE hpc' = "hello" /\ UNCHANGED <<flags, established, session, video, result>>
      BY <1>17, <2>1, <2>3, <1>q, <1>t DEF ReadHello, AdmissionInv, WireInv, EndInv
    <2>4. CASE Fail("error") /\ UNCHANGED <<flags, established, session, video>>
      BY <1>17, <2>1, <2>4, <1>q, <1>t DEF ReadHello, Fail, AdmissionInv, WireInv, EndInv
    <2> QED
      BY <1>17, <2>2, <2>3, <2>4 DEF ReadHello
  <1>18. CASE SayGoodbye
    <2>1. CASE UNCHANGED <<flags, result, wire, netVars>> /\ hpc' = "read_main"
      BY <1>18, <2>1, <1>q, <1>t DEF SayGoodbye, AdmissionInv, WireInv, EndInv
    <2>2. CASE flags' = InitiateGoodbye(flags)
      <3>1. \A x : x \in flags' <=> x \in flags \/ x = "goodbye_sent"
        BY <2>2, FlagMembers
      <3>2. CASE SendFails /\ Fail("error")
        BY <1>18, <3>1, <3>2, <1>q, <1>t DEF SayGoodbye, SendFails, Fail, AdmissionInv,
           WireInv, EndInv
      <3>3. CASE Send("goodbye") /\ hpc' = "finish_goodbye" /\ UNCHANGED result
        <4>1. ~Said("goodbye") /\ ~RejectionSaid
          BY <1>18 DEF SayGoodbye, WireInv
        <4>2. /\ \A x : Said(x)' <=> (Said(x) \/ x = "goodbye")
              /\ ResultSaid' <=> ResultSaid
          BY <3>3, <1>m, <1>t, SaidAfter DEF Send
        <4>3. HostSpeaksInOrder'
          BY <1>18, <3>3, <4>1, <1>m, <1>t, SpeaksOn DEF SayGoodbye, Send, WireInv
        <4> QED
          BY <1>18, <3>1, <3>3, <4>1, <4>2, <4>3, <1>t DEF SayGoodbye, AdmissionInv,
             WireInv, EndInv
      <3> QED
        BY <1>18, <2>1, <2>2, <3>2, <3>3 DEF SayGoodbye
    <2> QED
      BY <1>18, <2>1, <2>2 DEF SayGoodbye
  <1>19. CASE PointerShape
    <2>1. /\ video /\ established /\ ~RejectionSaid
          /\ cfg.auth => ToldOfSuccess
      BY <1>19, <1>t DEF PointerShape, AdmissionInv, WireInv
    <2>2. /\ \A x : Said(x)' <=> (Said(x) \/ x = "pointer_shape")
          /\ ResultSaid' <=> ResultSaid
      BY <1>19, <1>m, <1>t, SaidAfter DEF PointerShape, Send
    <2>3. HostSpeaksInOrder'
      BY <1>19, <2>1, <1>m, <1>t, SpeaksOn DEF PointerShape, Send, WireInv
    <2> QED
      BY <1>19, <2>1, <2>2, <2>3, <1>t DEF PointerShape, AdmissionInv, WireInv, EndInv
  <1>20. CASE Answer
    <2>1. /\ ~ResultSaid /\ cfg.auth /\ IsCredential(Head(batch)) /\ session = "active"
          /\ ~video /\ ~down /\ ServerFinished(flags) /\ established
          /\ "goodbye_sent" \notin flags
      BY <1>20, <1>t DEF Answer, AdmissionInv, WireInv
    <2>2. CASE SendFails /\ Fail("error") /\ UNCHANGED <<batch, video>>
      BY <1>20, <2>1, <2>2, <1>q, <1>t DEF Answer, SendFails, Fail, AdmissionInv,
         WireInv, EndInv
    <2>3. CASE Send(IF Head(batch) = "authenticate" THEN "auth_ok" ELSE "resume_ok")
      <3>1. PICK m \in {"auth_ok", "resume_ok"} : wire' = Append(wire, m)
        BY <2>3 DEF Send
      <3>2. (\A x : Said(x)' <=> (Said(x) \/ x = m)) /\ ResultSaid'
        BY <3>1, <1>m, <1>t, SaidAfter
      <3>3. \A x \in Results : ~Said(x)
        BY <2>1 DEF Said, ResultSaid
      <3>4. HostSpeaksInOrder'
        BY <1>20, <2>1, <3>1, <3>3, <1>m, <1>t, SpeaksOn DEF Answer, WireInv
      <3>5. UNCHANGED <<setup, flags, established, session, down, clientVars>>
            /\ hpc = "answer"
        BY <1>20 DEF Answer
      <3>6. CASE video' = wantsVideo /\ UNCHANGED result
                 /\ hpc' \in {"say_goodbye", "handshake"}
        BY <2>1, <3>1, <3>2, <3>3, <3>4, <3>5, <3>6, <1>m, <1>t
           DEF AdmissionInv, WireInv, EndInv
      <3>7. CASE Fail("error") /\ UNCHANGED <<batch, video>>
        BY <2>1, <3>1, <3>2, <3>3, <3>4, <3>5, <3>7, <1>m, <1>t
           DEF Fail, AdmissionInv, WireInv, EndInv
      <3> QED
        BY <1>20, <3>6, <3>7 DEF Answer, NextHandshake
    <2> QED
      BY <1>20, <2>2, <2>3 DEF Answer
  <1>21. CASE HandleHello
    <2> DEFINE m == Head(batch)
    <2>1. /\ hpc = "hello" /\ UNCHANGED <<cfg, down, clientVars>>
          /\ ~established /\ ~video /\ ~down /\ session = "none" /\ result = "none"
          /\ "goodbye_sent" \notin flags /\ ~ResultSaid /\ ~RejectionSaid
          /\ ~Said("goodbye") /\ (cfg.auth => ~ServerFinished(flags))
          /\ wantsVideo' \in BOOLEAN
      BY <1>21, <1>t DEF HandleHello, AdmissionInv, WireInv, EndInv, TypeOK
    <2>2. CASE ~ServerAccepts(flags, m)
      BY <1>21, <2>1, <2>2, <1>q, <1>t DEF HandleHello, Fail, AdmissionInv, WireInv,
         EndInv
    <2>3. CASE /\ SendFails /\ flags' = ServerReceive(flags, m) /\ Fail("error")
               /\ UNCHANGED <<batch, established, session, video>>
      BY <2>1, <2>3, <1>q, <1>r, <1>t DEF SendFails, Fail, AdmissionInv, WireInv, EndInv
    <2>4. CASE /\ ServerAccepts(flags, m)
               /\ IF ServerReplies(m) = << >> THEN UNCHANGED <<wire, netVars>>
                                              ELSE Send(Head(ServerReplies(m)))
               /\ \/ /\ flags' = IF cfg.auth THEN ServerReceive(flags, m)
                                             ELSE BypassAuth(ServerReceive(flags, m))
                     /\ AfterHello(wantsVideo')
                  \/ /\ flags' = ServerReceive(flags, m)
                     /\ UNCHANGED <<hpc, established, session, video, result>>
      <3>1. /\ HostSpeaksInOrder' /\ ~ResultSaid'
            /\ \A x : x # "hello_ack" => (Said(x)' <=> Said(x))
            /\ Said("hello_ack")' => "hello_received" \in ServerReceive(flags, m)
        <4>1. CASE m = "hello"
          <5>1. Send("hello_ack")
            BY <2>4, <4>1 DEF ServerReplies
          <5>2. ~Said("hello_ack")
            BY <2>4, <4>1 DEF ServerAccepts, WireInv
          <5>3. /\ \A x : Said(x)' <=> (Said(x) \/ x = "hello_ack")
                /\ ResultSaid' <=> ResultSaid
            BY <5>1, <1>m, <1>t, SaidAfter DEF Send
          <5>4. HostSpeaksInOrder'
            BY <2>1, <5>1, <5>2, <1>m, <1>t, SpeaksOn DEF Send, WireInv
          <5> QED
            BY <2>1, <4>1, <5>3, <5>4, <1>r
        <4>2. CASE m # "hello"
          <5>1. UNCHANGED wire
            BY <2>4, <4>2 DEF ServerReplies
          <5> QED
            BY <2>1, <5>1, <1>q, <1>r DEF WireInv
        <4> QED
          BY <4>1, <4>2
      <3>2. \A x \in {"auth_result_sent", "resume_result_sent", "goodbye_sent"} :
              x \in ServerReceive(flags, m) <=> x \in flags
        BY <1>r
      <3>3. CASE /\ flags' = IF cfg.auth THEN ServerReceive(flags, m)
                                         ELSE BypassAuth(ServerReceive(flags, m))
                 /\ AfterHello(wantsVideo')
        BY <2>1, <3>1, <3>2, <3>3, <1>p, <1>t DEF AfterHello, Fail, AdmissionInv,
           WireInv, EndInv
      <3>4. CASE /\ flags' = ServerReceive(flags, m)
                 /\ UNCHANGED <<hpc, established, session, video, result>>
        BY <2>1, <3>1, <3>2, <3>4, <1>r, <1>t DEF AdmissionInv, WireInv, EndInv
      <3> QED
        BY <2>4, <3>3, <3>4
    <2> QED
      BY <1>21, <2>2, <2>3, <2>4 DEF HandleHello
  <1> QED
    BY <1>1, <1>2, <1>3, <1>4, <1>5, <1>6, <1>7, <1>8, <1>9, <1>10, <1>11, <1>12, <1>13,
       <1>14, <1>15, <1>16, <1>17, <1>18, <1>19, <1>20, <1>21
       DEF Next, HostStep, Environment, PeerStep

(* A connection begins with nothing said and nobody admitted. *)
LEMMA HostInvariantInit == Init => HostInvariant
  <1> SUFFICES ASSUME Init PROVE HostInvariant
    OBVIOUS
  <1>1. (\A x : ~Said(x)) /\ ~ResultSaid /\ HostSpeaksInOrder
    BY DEF Init, Said, ResultSaid, HostSpeaksInOrder
  <1>2. TypeOK
    BY TypeInit
  <1>3. GoodbyeInv
    BY DEF Init, GoodbyeInv
  <1>4. cfg.auth \in BOOLEAN
    BY <1>2 DEF TypeOK, Configurations, AllConfigurations
  <1>5. AdmissionInv
    BY <1>1, <1>4 DEF Init, AdmissionInv, ServedWasAdmitted, Over, ServerEstablished,
       ServerFinished
  <1>6. WireInv
    BY <1>1 DEF Init, WireInv, RejectionSaid
  <1>7. EndInv
    BY DEF Init, EndInv, Over, OrderlyShutdown
  <1> QED
    BY <1>2, <1>3, <1>5, <1>6, <1>7 DEF HostInvariant

(***************************************************************************)
(* The invariant of the host's task: at every place of it the flags of the *)
(* protocol, session_established, the session and what was said agree.     *)
(***************************************************************************)
THEOREM HostInvariantHolds == Spec => []HostInvariant
  <1>1. HostInvariant /\ [Next]_vars => HostInvariant'
    BY TypeNext, GoodbyeNext, StateNext DEF HostInvariant
  <1> QED
    BY HostInvariantInit, <1>1, PTL DEF Spec

(***************************************************************************)
(* Whatever a read holds, and wherever pointer shapes fall, the host       *)
(* acknowledges one hello, answers one handshake, and says nothing behind  *)
(* a rejection and only shapes behind its goodbye.                         *)
(***************************************************************************)
THEOREM HostIsOrderly == Spec => []HostSpeaksInOrder
  <1>1. HostInvariant => HostSpeaksInOrder
    BY DEF HostInvariant, WireInv
  <1> QED
    BY HostInvariantHolds, <1>1, PTL

(***************************************************************************)
(* Input and video are served only for a session that was admitted and     *)
(* announced.                                                              *)
(***************************************************************************)
THEOREM NothingServedUnadmitted == Spec => []ServedWasAdmitted
  <1>1. HostInvariant => ServedWasAdmitted
    BY DEF HostInvariant, AdmissionInv
  <1> QED
    BY HostInvariantHolds, <1>1, PTL

(***************************************************************************)
(* A session is terminated only for a goodbye and held only without one.   *)
(***************************************************************************)
THEOREM GoodbyeDecides == Spec => []FateFollowsGoodbye
  <1>1. HostInvariant => FateFollowsGoodbye
    BY DEF HostInvariant, EndInv, WireInv, FateFollowsGoodbye, OrderlyShutdown
  <1> QED
    BY HostInvariantHolds, <1>1, PTL

(***************************************************************************)
(* A task that returns Ok has settled its session, stopped its worker and  *)
(* released what was held down.                                            *)
(***************************************************************************)
THEOREM OkIsClean == Spec => []ReturnsClean
  <1>1. HostInvariant => ReturnsClean
    BY DEF HostInvariant, EndInv, ReturnsClean
  <1> QED
    BY HostInvariantHolds, <1>1, PTL

-----------------------------------------------------------------------------
(* Conforming clients.                                                     *)

\* The inductive invariant relates what a client has sent, and the host has not
\* handled, to what each side knows of the other.

\* What the host has still to handle: the rest of the last read, and behind it
\* what it has not read.
InHand == CASE hpc \in {"hello", "handshake", "main"} -> batch
            [] hpc = "answer" -> Tail(batch)
            [] OTHER -> << >>
Pending == InHand \o toHost

\* The messages of a conforming client that the host can take as things stand.
Expected ==
  {m \in PeerMessages :
     \/ m = "hello" /\ "hello_received" \notin flags
     \/ m = cfg.credential /\ IsCredential(m) /\ "hello_received" \in flags /\ ~Asked
     \/ m = "input" /\ established
     \/ m = "goodbye"}

\* What is pending can be taken, now and after what is before it: nothing is
\* pending twice that is taken once, and no client sends a message before it knows
\* that the host is ready for it.
ScriptInv ==
  Conforming /\ ~Over =>
    /\ \A i \in 1 .. Len(Pending) : Pending[i] \in Expected
    /\ \A i, j \in 1 .. Len(Pending) :
         Pending[i] = Pending[j] /\ i # j => Pending[i] \in {"input", "goodbye"}
    /\ cpc = "start" => Pending = << >> /\ "hello_received" \notin flags
    /\ cpc = "await_ack" => \A i \in 1 .. Len(Pending) : Pending[i] = "hello"
    /\ cpc \in {"start", "await_ack", "ready"} =>
         ~Asked /\ \A i \in 1 .. Len(Pending) : ~IsCredential(Pending[i])

\* What the client has heard was said.
HeardInv ==
  /\ \A i \in 1 .. Len(toClient) : Said(toClient[i])
  /\ "hello_ack_received" \in cflags => Said("hello_ack")
  /\ cfg.kind = "headset" =>
       /\ cpc \in {"ready", "await_result", "connected"} => Said("hello_ack")
       /\ cpc = "connected" /\ cfg.credential # "none" => ToldOfSuccess

\* What was said is so: a client that knows of its result is established, and so is
\* a headset without a handshake from the acknowledgement on, unless it is leaving.
ToldInv ==
  /\ ToldOfSuccess => established
  /\ ~cfg.auth /\ ~Over =>
       /\ hpc \notin {"accept", "read_hello", "hello"} => established
       /\ Conforming /\ cfg.kind = "headset" /\ ~established /\ Said("hello_ack") =>
            cpc \in {"closing", "done"}

ConformingInvariant == ConformingNeverRefused /\ ScriptInv /\ HeardInv /\ ToldInv

(* Every set of numbers that has elements has a least one. *)
LEMMA LeastElement ==
    ASSUME NEW T \in SUBSET Nat, T # {}
    PROVE  \E m \in T : \A k \in T : m <= k
  <1>1. PICK m \in T : \A k \in T : ~(<<k, m>> \in OpToRel(<, Nat))
    BY NatLessThanWellFounded, WFMin
  <1>2. \A k \in T : ~(k < m)
    BY <1>1 DEF OpToRel
  <1> QED
    BY <1>2

(* The recursion of SmokeFlags, on the first k messages of a read. *)
Folds(g, s, k) ==
  g = [i \in 0 .. k |-> IF i = 0 THEN cflags ELSE ClientReceive(g[i - 1], s[i])]

LEMMA FoldExists ==
    ASSUME NEW s, NEW n \in Nat
    PROVE  \E g : Folds(g, s, n)
  <1> DEFINE T == {k \in 0 .. n : ~\E g : Folds(g, s, k)}
  <1>1. CASE T = {}
    BY <1>1
  <1>2. CASE T # {}
    <2>0. T \in SUBSET Nat
      OBVIOUS
    <2>1. PICK m \in T : \A k \in T : m <= k
      BY <1>2, <2>0, LeastElement
    <2>2. m # 0
      <3> DEFINE g == [i \in 0 .. 0 |-> cflags]
      <3>1. g = [i \in 0 .. 0 |-> IF i = 0 THEN cflags ELSE ClientReceive(g[i - 1], s[i])]
        OBVIOUS
      <3>2. Folds(g, s, 0)
        BY <3>1 DEF Folds
      <3> QED
        BY <3>2
    <2>3. m \in Nat /\ m - 1 \in 0 .. n /\ m - 1 \notin T
      BY <2>1, <2>2
    <2>4. PICK g : Folds(g, s, m - 1)
      BY <2>3
    <2> DEFINE h == [i \in 0 .. m |-> IF i = m THEN ClientReceive(g[m - 1], s[m]) ELSE g[i]]
    <2>5. ASSUME NEW i \in 0 .. m
          PROVE  h[i] = IF i = 0 THEN cflags ELSE ClientReceive(h[i - 1], s[i])
      <3>1. CASE i = m
        BY <2>2, <2>3, <3>1
      <3>2. CASE i # m
        <4>1. i \in 0 .. m - 1
          BY <2>3, <3>2
        <4>2. g[i] = IF i = 0 THEN cflags ELSE ClientReceive(g[i - 1], s[i])
          BY <2>4, <4>1 DEF Folds
        <4>3. h[i] = g[i] /\ (i # 0 => h[i - 1] = g[i - 1])
          BY <2>3, <4>1
        <4> QED
          BY <4>2, <4>3
      <3> QED
        BY <3>1, <3>2
    <2>6. h = [i \in 0 .. m |-> IF i = 0 THEN cflags ELSE ClientReceive(h[i - 1], s[i])]
      <3> HIDE DEF h
      <3>1. h = [i \in 0 .. m |-> h[i]]
        BY DEF h
      <3> QED
        BY <2>5, <3>1
    <2>7. Folds(h, s, m)
      BY <2>6 DEF Folds
    <2> QED
      BY <2>1, <2>7
  <1> QED
    BY <1>1, <1>2

LEMMA SmokeFold ==
    ASSUME NEW s \in Seq(ControlMessages)
    PROVE  Folds(SmokeFlags(s), s, Len(s))
  <1>1. \E g : Folds(g, s, Len(s))
    BY FoldExists
  <1> QED
    BY <1>1 DEF SmokeFlags, Folds

(* A smoke client remembers an acknowledgement only if it has read one. *)
LEMMA SmokeAcknowledged ==
    ASSUME NEW s \in Seq(ControlMessages), NEW n \in 0 .. Len(s),
           "hello_ack_received" \in SmokeFlags(s)[n]
    PROVE  \/ "hello_ack_received" \in cflags
           \/ \E i \in 1 .. Len(s) : s[i] = "hello_ack"
  <1> SUFFICES ASSUME "hello_ack_received" \notin cflags,
                      \A i \in 1 .. Len(s) : s[i] # "hello_ack"
               PROVE  FALSE
    OBVIOUS
  <1>1. PICK g : g = SmokeFlags(s)
    OBVIOUS
  <1>2. \A i \in 0 .. Len(s) :
          g[i] = IF i = 0 THEN cflags ELSE ClientReceive(g[i - 1], s[i])
    BY <1>1, SmokeFold DEF Folds
  <1> DEFINE T == {k \in 0 .. Len(s) : "hello_ack_received" \in g[k]}
  <1>3. T \in SUBSET Nat /\ T # {}
    BY <1>1
  <1>4. PICK m \in T : \A k \in T : m <= k
    BY <1>3, LeastElement
  <1>5. m # 0
    BY <1>2, <1>4
  <1>6. m \in 1 .. Len(s) /\ m - 1 \in 0 .. Len(s) /\ m - 1 \notin T
    BY <1>4, <1>5
  <1>7. "hello_ack_received" \in ClientReceive(g[m - 1], s[m]) /\ s[m] # "hello_ack"
        /\ "hello_ack_received" \notin g[m - 1]
    BY <1>2, <1>4, <1>5, <1>6
  <1> QED
    BY <1>7 DEF ClientReceive, Outcome

(* A sequence in two parts: growing at the end, and taken from the front. *)
LEMMA JoinParts ==
    ASSUME NEW S, NEW s \in Seq(S), NEW t \in Seq(S)
    PROVE  /\ s \o t \in Seq(S) /\ Len(s \o t) = Len(s) + Len(t)
           /\ << >> \o t = t
           /\ \A m \in S : s \o Append(t, m) = Append(s \o t, m)
           /\ s # << >> => /\ s \o t # << >> /\ Head(s \o t) = Head(s)
                           /\ Tail(s \o t) = Tail(s) \o t
           /\ \A n \in 1 .. Len(t) : Front(t, n) \o Rest(t, n) = t
  <1>1. /\ s \o t \in Seq(S) /\ Len(s \o t) = Len(s) + Len(t)
        /\ \A i \in 1 .. Len(s) + Len(t) :
             (s \o t)[i] = IF i <= Len(s) THEN s[i] ELSE t[i - Len(s)]
    BY ConcatProperties
  <1>2. << >> \o t = t
    BY ConcatEmptySeq
  <1>3. ASSUME NEW m \in S PROVE s \o Append(t, m) = Append(s \o t, m)
    <2>1. <<m>> \in Seq(S) /\ Append(t, m) = t \o <<m>> /\ Append(s \o t, m) = (s \o t) \o <<m>>
      BY <1>1, AppendIsConcat
    <2> QED
      BY <2>1, ConcatAssociative
  <1>4. ASSUME s # << >>
        PROVE  /\ s \o t # << >> /\ Head(s \o t) = Head(s)
               /\ Tail(s \o t) = Tail(s) \o t
    <2>1. /\ Tail(s) \in Seq(S) /\ Len(Tail(s)) = Len(s) - 1 /\ Len(s) \in Nat \ {0}
          /\ \A i \in 1 .. Len(Tail(s)) : Tail(s)[i] = s[i + 1]
      BY <1>4, HeadTailProperties, EmptySeq
    <2>2. Len(s \o t) > 0 /\ Len(t) \in Nat
      BY <1>1, <2>1
    <2>3. s \o t # << >> /\ Head(s \o t) = Head(s)
      BY <1>1, <1>4, <2>1, <2>2
    <2>4. /\ Tail(s \o t) \in Seq(S) /\ Len(Tail(s \o t)) = Len(s) + Len(t) - 1
          /\ \A i \in 1 .. Len(s) + Len(t) - 1 : Tail(s \o t)[i] = (s \o t)[i + 1]
      BY <1>1, <2>3, HeadTailProperties
    <2>5. /\ Tail(s) \o t \in Seq(S) /\ Len(Tail(s) \o t) = Len(s) - 1 + Len(t)
          /\ \A i \in 1 .. Len(s) - 1 + Len(t) : (Tail(s) \o t)[i] =
               IF i <= Len(s) - 1 THEN Tail(s)[i] ELSE t[i - (Len(s) - 1)]
      BY <2>1, ConcatProperties
    <2>6. ASSUME NEW i \in 1 .. Len(s) + Len(t) - 1
          PROVE  Tail(s \o t)[i] = (Tail(s) \o t)[i]
      <3>1. i + 1 \in 1 .. Len(s) + Len(t) /\ i \in 1 .. Len(s) - 1 + Len(t)
        BY <2>1, <2>2
      <3>2. Tail(s \o t)[i] = IF i + 1 <= Len(s) THEN s[i + 1] ELSE t[i + 1 - Len(s)]
        BY <1>1, <2>4, <3>1
      <3>3. CASE i + 1 <= Len(s)
        <4>1. i \in 1 .. Len(Tail(s)) /\ i <= Len(s) - 1
          BY <2>1, <3>3
        <4> QED
          BY <2>1, <2>5, <3>1, <3>2, <3>3, <4>1
      <3>4. CASE ~(i + 1 <= Len(s))
        <4>1. ~(i <= Len(s) - 1) /\ i + 1 - Len(s) = i - (Len(s) - 1)
          BY <2>1, <3>4
        <4> QED
          BY <2>5, <3>1, <3>2, <3>4, <4>1
      <3> QED
        BY <3>3, <3>4
    <2>7. Len(s) + Len(t) - 1 = Len(s) - 1 + Len(t)
      BY <2>1, <2>2
    <2>8. Tail(s \o t) = Tail(s) \o t
      BY <2>4, <2>5, <2>6, <2>7, SeqEqual
    <2> QED
      BY <2>3, <2>8
  <1>5. ASSUME NEW n \in 1 .. Len(t) PROVE Front(t, n) \o Rest(t, n) = t
    <2>1. /\ 1 \in 1 .. Len(t) + 1 /\ n \in 1 - 1 .. Len(t) /\ Len(t) \in n .. Len(t)
      OBVIOUS
    <2>2. SubSeq(t, 1, n) \o SubSeq(t, n + 1, Len(t)) = SubSeq(t, 1, Len(t))
      BY <2>1, ConcatAdjacentSubSeq
    <2> QED
      BY <2>2, SubSeqFull DEF Front, Rest
  <1> QED
    BY <1>1, <1>2, <1>3, <1>4, <1>5

(* What is pending is a sequence, in two parts. *)
LEMMA PendingType ==
    ASSUME TypeOK
    PROVE  /\ InHand \in Seq(PeerMessages) /\ toHost \in Seq(PeerMessages)
           /\ Pending \in Seq(PeerMessages) /\ Len(Pending) \in Nat
  <1>1. batch \in Seq(PeerMessages) /\ toHost \in Seq(PeerMessages)
    BY SeqMonotonic DEF TypeOK, PeerMessages
  <1>2. hpc = "answer" => Tail(batch) \in Seq(PeerMessages)
    BY <1>1 DEF TypeOK
  <1>3. InHand \in Seq(PeerMessages)
    BY <1>1, <1>2 DEF InHand
  <1> QED
    BY <1>1, <1>3, JoinParts DEF Pending

\* What the script knows of the host's flags stays.
FlagsKept ==
  /\ "hello_received" \in flags' <=> "hello_received" \in flags
  /\ Asked' <=> Asked

\* What the script knows of them after message m.
FlagsTake(m) ==
  /\ "hello_received" \in flags' <=> "hello_received" \in flags \/ m = "hello"
  /\ Asked' <=> Asked \/ IsCredential(m)

(* Nothing is handled: the same messages are pending, or the first of them. *)
LEMMA ScriptKept ==
    ASSUME TypeOK, TypeOK', ScriptInv, ~Over, UNCHANGED cfg,
           Len(Pending') <= Len(Pending),
           \A i \in 1 .. Len(Pending') : Pending'[i] = Pending[i],
           FlagsKept, established => established',
           cpc' = "start" => cpc = "start",
           cpc' = "await_ack" => cpc = "await_ack",
           cpc' = "ready" => cpc \in {"ready", "await_ack"}
    PROVE  ScriptInv'
  <1> SUFFICES ASSUME Conforming, Conforming' PROVE ScriptInv'
    BY DEF ScriptInv, Conforming
  <1>1. Len(Pending) \in Nat /\ Len(Pending') \in Nat /\ Pending' \in Seq(PeerMessages)
    <2>1. Pending \in Seq(PeerMessages)
      BY PendingType
    <2>2. (InHand \in Seq(PeerMessages))' /\ (toHost \in Seq(PeerMessages))'
      <3>1. batch' \in Seq(PeerMessages) /\ toHost' \in Seq(PeerMessages)
        BY SeqMonotonic DEF TypeOK, PeerMessages
      <3>2. hpc' = "answer" => Tail(batch') \in Seq(PeerMessages)
        BY <3>1 DEF TypeOK
      <3> QED
        BY <3>1, <3>2 DEF InHand
    <2>3. Pending' \in Seq(PeerMessages)
      BY <2>2, JoinParts DEF Pending
    <2> QED
      BY <2>1, <2>3
  <1>2. \A i \in 1 .. Len(Pending') : i \in 1 .. Len(Pending)
    BY <1>1
  <1>3. \A i \in 1 .. Len(Pending) : Pending[i] \in Expected
    BY DEF ScriptInv
  <1>4. \A m : m \in Expected => m \in Expected'
    BY DEF Expected, FlagsKept
  <1>5. \A i \in 1 .. Len(Pending') : Pending'[i] \in Expected'
    <2> SUFFICES ASSUME NEW i \in 1 .. Len(Pending'), NEW m, m = Pending'[i]
                 PROVE  m \in Expected'
      OBVIOUS
    <2> QED
      BY <1>2, <1>3, <1>4
  <1>6. \A i, j \in 1 .. Len(Pending') :
          Pending'[i] = Pending'[j] /\ i # j => Pending'[i] \in {"input", "goodbye"}
    BY <1>2 DEF ScriptInv
  <1>7. cpc' = "start" => Pending' = << >> /\ "hello_received" \notin flags'
    <2> SUFFICES ASSUME cpc' = "start" PROVE Pending' = << >> /\ "hello_received" \notin flags'
      OBVIOUS
    <2>1. Pending = << >> /\ "hello_received" \notin flags
      BY DEF ScriptInv
    <2>2. Len(Pending') = 0
      BY <1>1, <2>1
    <2> QED
      BY <1>1, <2>1, <2>2, EmptySeq DEF FlagsKept
  <1>8. cpc' = "await_ack" => \A i \in 1 .. Len(Pending') : Pending'[i] = "hello"
    BY <1>2 DEF ScriptInv
  <1>9. cpc' \in {"start", "await_ack", "ready"} =>
          ~Asked' /\ \A i \in 1 .. Len(Pending') : ~IsCredential(Pending'[i])
    BY <1>2 DEF ScriptInv, FlagsKept
  <1> QED
    BY <1>5, <1>6, <1>7, <1>8, <1>9 DEF ScriptInv, IsCredential

(* The first of them is handled, which is one the host can take. *)
LEMMA ScriptTaken ==
    ASSUME TypeOK, ScriptInv, Conforming, ~Over, UNCHANGED <<cfg, cpc>>,
           Pending # << >>, Pending' = Tail(Pending), FlagsTake(Head(Pending)),
           established => established'
    PROVE  ScriptInv'
  <1>1. /\ Pending \in Seq(PeerMessages) /\ Len(Pending) \in Nat \ {0}
        /\ Head(Pending) = Pending[1] /\ Len(Pending') = Len(Pending) - 1
        /\ \A i \in 1 .. Len(Pending') : Pending'[i] = Pending[i + 1]
    BY PendingType, HeadTailProperties, EmptySeq
  <1>2. PICK m : m = Head(Pending)
    OBVIOUS
  <1>3. 1 \in 1 .. Len(Pending) /\ \A i \in 1 .. Len(Pending') :
          i + 1 \in 1 .. Len(Pending) /\ i + 1 # 1
    BY <1>1
  <1>4. m \in Expected /\ \A i \in 1 .. Len(Pending) : Pending[i] \in Expected
    BY <1>1, <1>2, <1>3 DEF ScriptInv
  <1>5. FlagsTake(m)
    BY <1>2
  <1>6. ASSUME NEW i \in 1 .. Len(Pending')
        PROVE  Pending'[i] = m => m \in {"input", "goodbye"}
    BY <1>1, <1>2, <1>3 DEF ScriptInv
  <1>7. ASSUME NEW i \in 1 .. Len(Pending'), NEW x, x = Pending'[i]
        PROVE  x \in Expected'
    <2>1. x \in Expected
      BY <1>1, <1>3, <1>4, <1>7
    <2>2. x = m => m \in {"input", "goodbye"}
      BY <1>6, <1>7
    <2>3. IsCredential(m) => m = cfg.credential
      BY <1>4 DEF Expected, IsCredential
    <2> QED
      BY <1>5, <2>1, <2>2, <2>3 DEF Expected, FlagsTake, IsCredential
  <1>8. \A i, j \in 1 .. Len(Pending') :
          Pending'[i] = Pending'[j] /\ i # j => Pending'[i] \in {"input", "goodbye"}
    <2> SUFFICES ASSUME NEW i \in 1 .. Len(Pending'), NEW j \in 1 .. Len(Pending'),
                        Pending'[i] = Pending'[j], i # j
                 PROVE  Pending'[i] \in {"input", "goodbye"}
      OBVIOUS
    <2>1. i + 1 # j + 1 /\ Pending[i + 1] = Pending[j + 1]
      BY <1>1
    <2> QED
      BY <1>1, <1>3, <2>1 DEF ScriptInv
  <1>9. cpc # "start"
    BY DEF ScriptInv
  <1>10. cpc = "await_ack" => m = "hello" /\ \A i \in 1 .. Len(Pending') : Pending'[i] = "hello"
    BY <1>1, <1>2, <1>3 DEF ScriptInv
  <1>11. cpc \in {"await_ack", "ready"} =>
           ~Asked' /\ \A i \in 1 .. Len(Pending') : ~IsCredential(Pending'[i])
    <2>1. cpc \in {"await_ack", "ready"} =>
            ~Asked /\ \A i \in 1 .. Len(Pending) : ~IsCredential(Pending[i])
      BY DEF ScriptInv
    <2> QED
      BY <1>1, <1>2, <1>3, <1>5, <2>1 DEF FlagsTake
  <1>12. \A i \in 1 .. Len(Pending') : Pending'[i] \in Expected'
    BY <1>7
  <1> QED
    BY <1>8, <1>9, <1>10, <1>11, <1>12 DEF ScriptInv, IsCredential

(* A client sends a message that the host can take and that is not pending. *)
LEMMA ScriptSent ==
    ASSUME TypeOK, ScriptInv, Conforming, ~Over, UNCHANGED <<cfg, flags, established>>,
           NEW m \in PeerMessages, Pending' = Append(Pending, m), m \in Expected,
           m \in {"input", "goodbye"} \/ \A i \in 1 .. Len(Pending) : Pending[i] # m,
           cpc' \notin {"start", "ready"},
           cpc' = "await_ack" => cpc = "start" /\ m = "hello"
    PROVE  ScriptInv'
  <1>1. /\ Pending \in Seq(PeerMessages) /\ Len(Pending) \in Nat
        /\ Len(Pending') = Len(Pending) + 1 /\ Pending'[Len(Pending) + 1] = m
        /\ \A i \in 1 .. Len(Pending) : Pending'[i] = Pending[i]
    BY PendingType, AppendProperties
  <1>2. \A i \in 1 .. Len(Pending') : i \in 1 .. Len(Pending) \/ i = Len(Pending) + 1
    BY <1>1
  <1>3. \A x : x \in Expected' <=> x \in Expected
    BY DEF Expected, Asked
  <1>4. \A i \in 1 .. Len(Pending) : Pending[i] \in Expected
    BY DEF ScriptInv
  <1>5. ASSUME NEW i \in 1 .. Len(Pending'), NEW x, x = Pending'[i]
        PROVE  x \in Expected'
    BY <1>1, <1>2, <1>3, <1>4, <1>5
  <1>6. \A i, j \in 1 .. Len(Pending') :
          Pending'[i] = Pending'[j] /\ i # j => Pending'[i] \in {"input", "goodbye"}
    BY <1>1, <1>2 DEF ScriptInv
  <1>7. cpc' = "await_ack" =>
          /\ \A i \in 1 .. Len(Pending') : Pending'[i] = "hello"
          /\ ~Asked' /\ \A i \in 1 .. Len(Pending') : ~IsCredential(Pending'[i])
    <2> SUFFICES ASSUME cpc' = "await_ack"
                 PROVE  ~Asked /\ \A i \in 1 .. Len(Pending') : Pending'[i] = "hello"
      BY DEF Asked, IsCredential
    <2>1. Pending = << >> /\ ~Asked /\ m = "hello"
      BY DEF ScriptInv
    <2> QED
      BY <1>1, <2>1
  <1>8. \A i \in 1 .. Len(Pending') : Pending'[i] \in Expected'
    BY <1>5
  <1> QED
    BY <1>6, <1>7, <1>8 DEF ScriptInv, IsCredential

(* What a step of the host's task, or of the sender of shapes, does to what is
   pending: nothing, or it takes the first message, which it accepts. *)
LEMMA HostPending ==
    ASSUME TypeOK, TypeOK', HostStep \/ PointerShape, ~Over',
           \A i \in 1 .. Len(toHost) : toHost[i] # Undecodable
    PROVE  /\ ~Over
           /\ \/ Pending' = Pending /\ FlagsKept
              \/ /\ Pending # << >> /\ Pending' = Tail(Pending)
                 /\ FlagsTake(Head(Pending))
  <1> USE DEF setup, netVars, Asked
  <1>t. /\ batch \in Seq(PeerMessages) /\ toHost \in Seq(PeerMessages)
        /\ hpc \in HostStates /\ cfg.auth \in BOOLEAN
        /\ hpc \in {"hello", "handshake", "answer", "main"} => batch # << >>
    BY SeqMonotonic DEF TypeOK, PeerMessages, Configurations, AllConfigurations
  <1>h. hpc \in {"hello", "handshake", "main"} =>
          /\ Pending # << >> /\ Head(Pending) = Head(batch)
          /\ Tail(Pending) = Tail(batch) \o toHost
    <2>1. batch # << >> => /\ batch \o toHost # << >> /\ Head(batch \o toHost) = Head(batch)
                           /\ Tail(batch \o toHost) = Tail(batch) \o toHost
      BY <1>t, JoinParts
    <2>2. hpc \in {"hello", "handshake", "main"} => Pending = batch \o toHost
      BY DEF Pending, InHand
    <2> QED
      BY <1>t, <2>1, <2>2
  <1>e. Tail(batch) = << >> => Tail(batch) \o toHost = << >> \o toHost
    OBVIOUS
  <1>r. \A n \in 1 .. Len(toHost) : ReadsMessages(n) =>
          batch' \o toHost' = << >> \o toHost /\ UNCHANGED <<finC, toClient, finH, link>>
    <2>1. << >> \o toHost = toHost /\ \A n \in 1 .. Len(toHost) :
            Front(toHost, n) \o Rest(toHost, n) = toHost
      BY <1>t, JoinParts
    <2> QED
      BY <2>1 DEF ReadsMessages, Read
  <1>f. \A f, m, x : x \in ServerReceive(f, m) <=>
                \/ x \in f \/ (m = "hello" /\ x = "hello_received")
                \/ m = "authenticate" /\ x = "auth_received"
                \/ m = "resume_session" /\ x = "resume_received"
                \/ m = "goodbye" /\ x = "goodbye_received"
    BY FlagMembers
  <1>p. \A f, x : x \in BypassAuth(f) <=> \/ x \in f /\ x # "auth_failure"
                                          \/ x = "auth_success"
                                          \/ x = "auth_result_sent"
    BY FlagMembers
  <1>g. \A f, x : x \in InitiateGoodbye(f) <=> x \in f \/ x = "goodbye_sent"
    BY FlagMembers
  <1>1. CASE AcceptStream
    BY <1>1 DEF AcceptStream, Pending, InHand, FlagsKept, Over
  <1>2. CASE AcceptFails \/ HostCloses \/ Finish \/ AdmitFails \/ Reject
    BY <1>2 DEF AcceptFails, HostCloses, Finish, AdmitFails, Reject, Fail, Over
  <1>3. CASE ReadHello
    <2>1. CASE \E n \in 1 .. Len(toHost) : ReadsMessages(n) /\ hpc' = "hello"
      BY <1>3, <1>r, <2>1 DEF ReadHello, Pending, InHand, FlagsKept, Over, ReadsEnd,
         ReadsError, Fail, AfterHello
    <2>2. CASE /\ ReadsEnd /\ AfterHello(wantsVideo)
               /\ flags' = IF cfg.auth THEN flags ELSE BypassAuth(flags)
      <3>1. FlagsKept
        BY <1>p, <2>2 DEF FlagsKept
      <3>2. hpc = "read_hello" /\ hpc' \in {"read_handshake", "say_goodbye"}
        BY <1>3, <2>2 DEF ReadHello, AfterHello, Fail, Over
      <3> QED
        BY <2>2, <3>1, <3>2 DEF ReadsEnd, Pending, InHand, Over
    <2> QED
      BY <1>3, <2>1, <2>2 DEF ReadHello, Fail, Over
  <1>4. CASE ReadHandshake
    <2>1. UNCHANGED flags /\ hpc = "read_handshake"
      BY <1>4 DEF ReadHandshake
    <2>2. CASE \E n \in 1 .. Len(toHost) : ReadsMessages(n) /\ hpc' = "handshake"
      BY <1>r, <2>1, <2>2 DEF Pending, InHand, FlagsKept, Over
    <2>3. CASE ReadsEnd /\ hpc' = "say_goodbye"
      BY <2>1, <2>3 DEF ReadsEnd, Pending, InHand, FlagsKept, Over
    <2> QED
      BY <1>4, <2>2, <2>3 DEF ReadHandshake, Fail, Over
  <1>5. CASE ReadMain
    <2>1. UNCHANGED flags /\ hpc = "read_main"
      BY <1>5 DEF ReadMain
    <2>2. CASE \E n \in 1 .. Len(toHost) : ReadsMessages(n) /\ hpc' = "main"
      BY <1>r, <2>1, <2>2 DEF Pending, InHand, FlagsKept, Over
    <2>3. CASE UNCHANGED netVars /\ hpc' \in {"settle_hold", "settle_end"}
      BY <2>1, <2>3 DEF Pending, InHand, FlagsKept, Over
    <2>4. ReadsError => UNCHANGED netVars
      BY DEF ReadsError
    <2> QED
      BY <1>5, <2>2, <2>3, <2>4 DEF ReadMain, ReadsEnd, Fail, Over
  <1>6. CASE /\ hpc \in {"hello", "handshake", "main"} /\ UNCHANGED toHost
             /\ batch' = Tail(batch) /\ FlagsTake(Head(batch))
             /\ hpc' # hpc => batch' = << >> /\ hpc' \notin {"hello", "handshake", "main", "answer"}
    <2>1. Pending' = Tail(batch) \o toHost
      BY <1>6, <1>e DEF Pending, InHand
    <2> QED
      BY <1>6, <1>h, <2>1 DEF Over
  <1>7. CASE HandleHello
    <2>1. CASE hpc' \in {"closing", "done"}
      BY <2>1 DEF Over
    <2>2. CASE ~(hpc' \in {"closing", "done"})
      <3>1. /\ hpc = "hello" /\ UNCHANGED toHost /\ batch' = Tail(batch)
            /\ hpc' # hpc => batch' = << >> /\ hpc' \in {"read_handshake", "say_goodbye"}
            /\ flags' \in {ServerReceive(flags, Head(batch)),
                           BypassAuth(ServerReceive(flags, Head(batch)))}
        BY <1>7, <2>2 DEF HandleHello, AfterHello, Fail, Send
      <3>2. FlagsTake(Head(batch))
        BY <3>1, <1>f, <1>p DEF FlagsTake, IsCredential
      <3> QED
        BY <1>6, <3>1, <3>2
    <2> QED
      BY <2>1, <2>2
  <1>8. CASE HandleHandshake \/ HandleMain
    <2>1. CASE hpc' = "closing"
      BY <2>1 DEF Over
    <2>2. CASE hpc' # "closing"
      <3>1. /\ hpc \in {"handshake", "main"} /\ UNCHANGED toHost /\ batch' = Tail(batch)
            /\ hpc' # hpc => batch' = << >>
                             /\ hpc' \in {"say_goodbye", "settle_end", "read_main"}
            /\ flags' = ServerReceive(flags, Head(batch))
        BY <1>8, <2>2 DEF HandleHandshake, HandleMain, NextHandshake, Fail
      <3>2. FlagsTake(Head(batch))
        BY <3>1, <1>f DEF FlagsTake, IsCredential
      <3> QED
        BY <1>6, <3>1, <3>2
    <2> QED
      BY <2>1, <2>2
  <1>9. CASE Admit
    <2>1. /\ hpc = "handshake" /\ hpc' = "answer" /\ UNCHANGED <<batch, toHost>>
          /\ IsCredential(Head(batch))
          /\ flags' = Record(ServerReceive(flags, Head(batch)), Head(batch), TRUE)
      BY <1>9 DEF Admit
    <2>2. FlagsTake(Head(batch))
      <3>1. \A f, x : /\ x \in RecordAuthResult(f, TRUE) <=>
                           \/ x \in f /\ x # "auth_failure"
                           \/ x = "auth_success" \/ x = "auth_result_sent"
                      /\ x \in RecordResumeResult(f, TRUE) <=>
                           \/ x \in f /\ x # "auth_failure"
                           \/ x = "auth_success" \/ x = "resume_result_sent"
        BY FlagMembers
      <3> QED
        BY <2>1, <3>1, <1>f DEF Record, FlagsTake, IsCredential
    <2>3. Pending' = Tail(batch) \o toHost
      BY <2>1 DEF Pending, InHand
    <2> QED
      BY <1>h, <2>1, <2>2, <2>3 DEF Over
  <1>10. CASE Answer
    <2>1. CASE hpc' = "closing"
      BY <2>1 DEF Over
    <2>2. CASE hpc' # "closing"
      <3>1. /\ hpc = "answer" /\ batch' = Tail(batch) /\ UNCHANGED <<flags, toHost>>
            /\ hpc' = IF batch' = << >> THEN "say_goodbye" ELSE "handshake"
        BY <1>10, <2>2 DEF Answer, NextHandshake, Send, Fail
      <3> QED
        BY <3>1, <1>e DEF Pending, InHand, FlagsKept, Over
    <2> QED
      BY <2>1, <2>2
  <1>11. CASE SayGoodbye
    <2>1. CASE hpc' = "closing"
      BY <2>1 DEF Over
    <2>2. CASE hpc' # "closing"
      <3>1. /\ hpc = "say_goodbye" /\ hpc' \in {"finish_goodbye", "read_main"}
            /\ UNCHANGED toHost /\ flags' \in {flags, InitiateGoodbye(flags)}
        BY <1>11, <2>2 DEF SayGoodbye, Send, Fail
      <3>2. FlagsKept
        BY <3>1, <1>g DEF FlagsKept
      <3> QED
        BY <3>1, <3>2 DEF Pending, InHand, Over
    <2> QED
      BY <2>1, <2>2
  <1>12. CASE FinishGoodbye \/ Settle \/ CleanUp
    BY <1>12 DEF FinishGoodbye, Settle, CleanUp, Pending, InHand, FlagsKept, Over
  <1>13. CASE PointerShape
    BY <1>13 DEF PointerShape, Send, Pending, InHand, FlagsKept, Over
  <1> QED
    BY <1>1, <1>2, <1>3, <1>4, <1>5, <1>7, <1>8, <1>9, <1>10, <1>11, <1>12, <1>13
       DEF HostStep

(* A conforming client leaves nothing undecodable on the stream. *)
LEMMA NothingUndecodable ==
    ASSUME TypeOK, ScriptInv, Conforming, ~Over
    PROVE  \A i \in 1 .. Len(toHost) : toHost[i] # Undecodable
  <1>1. /\ InHand \in Seq(PeerMessages) /\ toHost \in Seq(PeerMessages)
        /\ Len(InHand) \in Nat /\ Len(toHost) \in Nat
    BY PendingType, LenProperties
  <1>2. /\ Len(Pending) = Len(InHand) + Len(toHost)
        /\ \A i \in 1 .. Len(InHand) + Len(toHost) :
             Pending[i] = IF i <= Len(InHand) THEN InHand[i] ELSE toHost[i - Len(InHand)]
    BY <1>1, ConcatProperties DEF Pending
  <1> SUFFICES ASSUME NEW i \in 1 .. Len(toHost) PROVE toHost[i] # Undecodable
    OBVIOUS
  <1>3. /\ Len(InHand) + i \in 1 .. Len(InHand) + Len(toHost)
        /\ ~(Len(InHand) + i <= Len(InHand)) /\ Len(InHand) + i - Len(InHand) = i
    BY <1>1
  <1>4. Pending[Len(InHand) + i] = toHost[i]
    BY <1>2, <1>3
  <1>5. Pending[Len(InHand) + i] \in Expected
    BY <1>2, <1>3 DEF ScriptInv
  <1> QED
    BY <1>4, <1>5 DEF Expected, IsCredential, Undecodable

(* What is expected is accepted. *)
LEMMA ExpectedAccepted ==
    ASSUME AdmissionInv, NEW m \in Expected
    PROVE  ServerAccepts(flags, m)
  BY DEF AdmissionInv, Expected, IsCredential, Asked, ServerAccepts

(* The host refuses no message of a conforming client. *)
LEMMA HostAccepts ==
    ASSUME TypeOK, AdmissionInv, ScriptInv, ConformingNeverRefused,
           HostStep \/ PointerShape
    PROVE  ConformingNeverRefused'
  <1> SUFFICES ASSUME Conforming, result # "protocol", result' = "protocol"
               PROVE  FALSE
    <2>1. UNCHANGED cfg
      BY DEF HostStep, PointerShape, setup, AcceptStream, AcceptFails, ReadHello,
         HandleHello, ReadHandshake, Admit, Answer, Reject, AdmitFails,
         HandleHandshake, SayGoodbye, FinishGoodbye, ReadMain, HandleMain, Settle,
         CleanUp, Finish, HostCloses
    <2> QED
      BY <2>1 DEF ConformingNeverRefused, Conforming
  <1>1. HandleHello \/ HandleHandshake \/ HandleMain
    BY DEF HostStep, PointerShape, AcceptStream, AcceptFails, ReadHello, ReadHandshake,
       Admit, Answer, Reject, AdmitFails, SayGoodbye, FinishGoodbye, ReadMain, Settle,
       CleanUp, Finish, HostCloses, Fail, AfterHello
  <1>2. hpc \in {"hello", "handshake", "main"} /\ ~ServerAccepts(flags, Head(batch))
    BY <1>1 DEF HandleHello, HandleHandshake, HandleMain, Fail, AfterHello
  <1>3. batch \in Seq(PeerMessages) /\ batch # << >> /\ toHost \in Seq(PeerMessages)
    BY <1>2, SeqMonotonic DEF TypeOK, PeerMessages
  <1>4. Pending = batch \o toHost
    BY <1>2 DEF Pending, InHand
  <1>5. Pending # << >> /\ Head(Pending) = Head(batch) /\ Pending \in Seq(PeerMessages)
    BY <1>3, <1>4, JoinParts
  <1>6. 1 \in 1 .. Len(Pending) /\ Head(Pending) = Pending[1]
    BY <1>5
  <1>7. Head(batch) \in Expected
    BY <1>2, <1>5, <1>6 DEF ScriptInv, Over
  <1> QED
    BY <1>2, <1>7, ExpectedAccepted

(* The host keeps the script. *)
LEMMA HostScript ==
    ASSUME TypeOK, TypeOK', AdmissionInv, ScriptInv, HostStep \/ PointerShape
    PROVE  ScriptInv'
  <1>1. UNCHANGED <<cfg, clientVars>>
    BY DEF HostStep, PointerShape, setup, AcceptStream, AcceptFails, ReadHello,
       HandleHello, ReadHandshake, Admit, Answer, Reject, AdmitFails,
       HandleHandshake, SayGoodbye, FinishGoodbye, ReadMain, HandleMain, Settle,
       CleanUp, Finish, HostCloses
  <1>e. established => established'
    <2>1. CASE ReadHello \/ HandleHello
      BY <2>1 DEF ReadHello, HandleHello, AfterHello, Fail
    <2>2. CASE Admit
      BY <2>2 DEF Admit
    <2>3. CASE ~(ReadHello \/ HandleHello \/ Admit)
      <3>1. UNCHANGED established
        BY <2>3 DEF HostStep, PointerShape, AcceptStream, AcceptFails, ReadHandshake,
           Answer, Reject, AdmitFails, HandleHandshake, SayGoodbye, FinishGoodbye,
           ReadMain, HandleMain, Settle, CleanUp, Finish, HostCloses
      <3> QED
        BY <3>1
    <2> QED
      BY <2>1, <2>2, <2>3
  <1> SUFFICES ASSUME Conforming, ~Over' PROVE ScriptInv'
    BY <1>1 DEF ScriptInv, Conforming
  <1>2. ~Over
    BY DEF HostStep, PointerShape, AcceptStream, AcceptFails, ReadHello, HandleHello,
       ReadHandshake, Admit, Answer, Reject, AdmitFails, HandleHandshake, SayGoodbye,
       FinishGoodbye, ReadMain, HandleMain, Settle, CleanUp, Finish, HostCloses, Over
  <1>3. \/ Pending' = Pending /\ FlagsKept
        \/ /\ Pending # << >> /\ Pending' = Tail(Pending) /\ FlagsTake(Head(Pending))
    BY <1>2, NothingUndecodable, HostPending
  <1>4. CASE Pending' = Pending /\ FlagsKept
    <2>1. Len(Pending') <= Len(Pending)
      BY <1>4, PendingType
    <2> QED
      BY <1>1, <1>e, <1>2, <1>4, <2>1, ScriptKept DEF clientVars
  <1>5. CASE Pending # << >> /\ Pending' = Tail(Pending) /\ FlagsTake(Head(Pending))
    BY <1>1, <1>e, <1>2, <1>5, ScriptTaken DEF clientVars
  <1> QED
    BY <1>3, <1>4, <1>5

(* The host says things, and what the client has still to hear is of them. *)
LEMMA HostSays ==
    ASSUME TypeOK, HostStep \/ PointerShape
    PROVE  \/ /\ UNCHANGED wire
              /\ \A i \in 1 .. Len(toClient') :
                   i \in 1 .. Len(toClient) /\ toClient'[i] = toClient[i]
           \/ \E m \in ControlMessages :
                /\ wire' = Append(wire, m) /\ toClient' = Append(toClient, m)
                /\ m \in {"auth_ok", "resume_ok"} => hpc = "answer"
                /\ m = "hello_ack" => hpc = "hello"
  <1> USE DEF netVars
  <1>t. toClient \in Seq(ControlMessages) /\ finH \in BOOLEAN
    BY DEF TypeOK
  <1>m. {"auth_ok", "resume_ok", "auth_no", "resume_no", "hello_ack", "goodbye",
         "pointer_shape"} \subseteq ControlMessages
    BY DEF ControlMessages, Results, AuthResults, ResumeResults
  <1>1. CASE AcceptFails \/ HostCloses
    BY <1>1, <1>t, TruncateParts DEF AcceptFails, HostCloses
  <1>2. CASE UNCHANGED <<wire, toClient>>
    BY <1>2
  <1>3. CASE HandleHello
    BY <1>2, <1>3, <1>m DEF HandleHello, Send, SendFails, ServerReplies
  <1>4. CASE Answer \/ Reject \/ SayGoodbye \/ PointerShape
    BY <1>2, <1>4, <1>m DEF Answer, Reject, SayGoodbye, PointerShape, Send, SendFails
  <1>5. CASE ReadHello \/ ReadHandshake \/ ReadMain
    BY <1>2, <1>5 DEF ReadHello, ReadHandshake, ReadMain, ReadsMessages, ReadsEnd,
       ReadsError, Read
  <1>6. CASE AcceptStream \/ Admit \/ AdmitFails \/ HandleHandshake \/ FinishGoodbye
             \/ HandleMain \/ Settle \/ CleanUp \/ Finish
    BY <1>2, <1>6 DEF AcceptStream, Admit, AdmitFails, HandleHandshake, FinishGoodbye,
       HandleMain, Settle, CleanUp, Finish
  <1> QED
    BY <1>1, <1>3, <1>4, <1>5, <1>6 DEF HostStep

(* So the client hears nothing that was not said. *)
LEMMA HostHeard ==
    ASSUME TypeOK, HeardInv, HostStep \/ PointerShape
    PROVE  HeardInv'
  <1>1. UNCHANGED <<cfg, clientVars>>
    BY DEF HostStep, PointerShape, setup, AcceptStream, AcceptFails, ReadHello,
       HandleHello, ReadHandshake, Admit, Answer, Reject, AdmitFails,
       HandleHandshake, SayGoodbye, FinishGoodbye, ReadMain, HandleMain, Settle,
       CleanUp, Finish, HostCloses
  <1>2. wire \in Seq(ControlMessages) /\ toClient \in Seq(ControlMessages)
    BY DEF TypeOK
  <1>3. CASE /\ UNCHANGED wire
             /\ \A i \in 1 .. Len(toClient') :
                  i \in 1 .. Len(toClient) /\ toClient'[i] = toClient[i]
    BY <1>1, <1>3 DEF HeardInv, Said, ToldOfSuccess, clientVars
  <1>4. ASSUME NEW m \in ControlMessages, wire' = Append(wire, m),
               toClient' = Append(toClient, m)
        PROVE  HeardInv'
    <2>1. /\ Len(wire') = Len(wire) + 1 /\ wire'[Len(wire) + 1] = m /\ Len(wire) \in Nat
          /\ \A i \in 1 .. Len(wire) : wire'[i] = wire[i]
      BY <1>2, <1>4
    <2>2. /\ Len(toClient') = Len(toClient) + 1 /\ toClient'[Len(toClient) + 1] = m
          /\ \A i \in 1 .. Len(toClient) : toClient'[i] = toClient[i]
      BY <1>2, <1>4
    <2>3. \A x : (\E i \in 1 .. Len(wire) : wire[i] = x) \/ x = m =>
                 \E i \in 1 .. Len(wire') : wire'[i] = x
      BY <2>1
    <2>4. \A i \in 1 .. Len(toClient') : \/ i \in 1 .. Len(toClient)
                                         \/ toClient'[i] = m
      BY <1>2, <2>2
    <2> QED
      BY <1>1, <2>2, <2>3, <2>4 DEF HeardInv, Said, ToldOfSuccess, clientVars
  <1> QED
    BY <1>3, <1>4, HostSays

(* Whoever was told of success is established, and without a handshake so is
   everyone behind the first read. *)
LEMMA HostTold ==
    ASSUME TypeOK, TypeOK', AdmissionInv, WireInv, ScriptInv, HeardInv, ToldInv,
           HostStep \/ PointerShape
    PROVE  ToldInv'
  <1>t. /\ batch \in Seq(PeerMessages) /\ toHost \in Seq(PeerMessages)
        /\ wire \in Seq(ControlMessages) /\ cpc \in ClientStates /\ hpc \in HostStates
        /\ established \in BOOLEAN /\ cfg.auth \in BOOLEAN /\ Len(wire) \in Nat
    BY SeqMonotonic DEF TypeOK, PeerMessages, Configurations, AllConfigurations
  <1>1. UNCHANGED <<cfg, clientVars>>
    BY DEF HostStep, PointerShape, setup, AcceptStream, AcceptFails, ReadHello,
       HandleHello, ReadHandshake, Admit, Answer, Reject, AdmitFails,
       HandleHandshake, SayGoodbye, FinishGoodbye, ReadMain, HandleMain, Settle,
       CleanUp, Finish, HostCloses
  <1>2. \/ established' = TRUE \/ UNCHANGED established
    BY DEF HostStep, PointerShape, AcceptStream, AcceptFails, ReadHello, HandleHello,
       ReadHandshake, Admit, Answer, Reject, AdmitFails, HandleHandshake, SayGoodbye,
       FinishGoodbye, ReadMain, HandleMain, Settle, CleanUp, Finish, HostCloses,
       AfterHello, Fail
  <1>3. established => established'
    BY <1>2
  <1>4. ASSUME NEW x, Said(x)', ~Said(x)
        PROVE  /\ x \in {"auth_ok", "resume_ok"} => hpc = "answer"
               /\ x = "hello_ack" => hpc = "hello"
    <2>1. ~UNCHANGED wire
      BY <1>4, SaidStill
    <2>2. PICK m \in ControlMessages :
            /\ wire' = Append(wire, m)
            /\ m \in {"auth_ok", "resume_ok"} => hpc = "answer"
            /\ m = "hello_ack" => hpc = "hello"
      BY <2>1, HostSays
    <2>3. x = m
      BY <1>4, <1>t, <2>2, SaidAfter
    <2> QED
      BY <2>2, <2>3
  <1>5. hpc = "answer" => established
    BY <1>t DEF AdmissionInv
  <1>6. (ToldOfSuccess => established)'
    BY <1>3, <1>4, <1>5 DEF ToldInv, ToldOfSuccess
  <1>7. ~cfg.auth /\ hpc' \notin {"accept", "read_hello", "hello"} /\ ~Over' =>
          established'
    <2> SUFFICES ASSUME ~cfg.auth, hpc' \notin {"accept", "read_hello", "hello"}, ~Over'
                 PROVE  established'
      OBVIOUS
    <2>1. CASE hpc \notin {"accept", "read_hello", "hello"}
      <3>1. ~Over
        BY DEF HostStep, PointerShape, AcceptStream, AcceptFails, ReadHello,
           HandleHello, ReadHandshake, Admit, Answer, Reject, AdmitFails,
           HandleHandshake, SayGoodbye, FinishGoodbye, ReadMain, HandleMain, Settle,
           CleanUp, Finish, HostCloses, Over
      <3> QED
        BY <1>3, <2>1, <3>1 DEF ToldInv
    <2>2. CASE hpc \in {"accept", "read_hello", "hello"}
      <3>1. ReadHello \/ HandleHello
        BY <2>2 DEF HostStep, PointerShape, AcceptStream, AcceptFails, ReadHandshake,
           Admit, Answer, Reject, AdmitFails, HandleHandshake, SayGoodbye,
           FinishGoodbye, ReadMain, HandleMain, Settle, CleanUp, Finish, HostCloses,
           Over
      <3> QED
        BY <3>1 DEF ReadHello, HandleHello, AfterHello, Fail, Over
    <2> QED
      BY <2>1, <2>2
  <1>8. ASSUME ~cfg.auth, ~Over', Conforming, cfg.kind = "headset", ~established',
               Said("hello_ack")'
        PROVE  cpc \in {"closing", "done"}
    <2>1. hpc' \in {"accept", "read_hello", "hello"} /\ ~established
      BY <1>3, <1>7, <1>8
    <2>2. hpc \in {"accept", "read_hello", "hello"}
      <3>1. ~PointerShape
        BY <2>1 DEF PointerShape, AdmissionInv
      <3> QED
        BY <2>1, <3>1 DEF HostStep, AcceptStream, AcceptFails, ReadHello, HandleHello,
           ReadHandshake, Admit, Answer, Reject, AdmitFails, HandleHandshake,
           NextHandshake, SayGoodbye, FinishGoodbye, ReadMain, HandleMain, Settle,
           CleanUp, Finish, HostCloses, Fail
    <2>3. CASE Said("hello_ack")
      BY <1>8, <2>1, <2>2, <2>3 DEF ToldInv, Over
    <2>4. CASE ~Said("hello_ack")
      <3>1. hpc = "hello" /\ HandleHello
        <4>1. hpc = "hello"
          BY <1>4, <1>8, <2>4
        <4>2. ~PointerShape
          BY <2>1 DEF PointerShape, AdmissionInv
        <4> QED
          BY <4>1, <4>2 DEF HostStep, AcceptStream, AcceptFails, ReadHello,
             ReadHandshake, Admit, Answer, Reject, AdmitFails, HandleHandshake,
             SayGoodbye, FinishGoodbye, ReadMain, HandleMain, Settle, CleanUp, Finish,
             HostCloses
      <3>2. /\ ServerAccepts(flags, Head(batch)) /\ batch' = Tail(batch)
            /\ batch' # << >> /\ Head(batch) = "hello"
        <4>1. UNCHANGED wire => FALSE
          BY <1>8, <2>4, SaidStill
        <4> QED
          BY <2>1, <3>1, <4>1 DEF HandleHello, AfterHello, Fail, ServerReplies, SendFails
      <3>3. "hello_received" \notin flags
        BY <3>2 DEF ServerAccepts
      <3>4. batch # << >> /\ Tail(batch) # << >>
        BY <3>1, <3>2 DEF TypeOK
      <3>5. Len(batch) \in Nat /\ Len(batch) >= 2 /\ batch[1] = "hello"
        BY <1>t, <3>2, <3>4
      <3>6. /\ Pending = batch \o toHost /\ Len(toHost) \in Nat
            /\ Len(Pending) = Len(batch) + Len(toHost)
            /\ \A i \in 1 .. Len(batch) + Len(toHost) :
                 Pending[i] = IF i <= Len(batch) THEN batch[i] ELSE toHost[i - Len(batch)]
        BY <1>t, <3>1, ConcatProperties DEF Pending, InHand
      <3>7. 1 \in 1 .. Len(Pending) /\ 2 \in 1 .. Len(Pending) /\ Pending[1] = "hello"
        BY <3>5, <3>6
      <3>8. cpc # "start"
        BY <1>8, <3>1, <3>5, <3>6 DEF ScriptInv, Over
      <3>9. cpc # "await_ack"
        BY <1>8, <3>1, <3>7 DEF ScriptInv, Over
      <3>10. cpc \notin {"ready", "await_result", "connected"}
        BY <1>8, <2>4 DEF HeardInv
      <3> QED
        BY <1>t, <3>8, <3>9, <3>10 DEF ClientStates
    <2> QED
      BY <2>3, <2>4
  <1> QED
    BY <1>1, <1>6, <1>7, <1>8 DEF ToldInv, Conforming, clientVars

(* The clients keep the script. *)
LEMMA PeerScript ==
    ASSUME TypeOK, TypeOK', GoodbyeInv, AdmissionInv, WireInv, ScriptInv, HeardInv,
           ToldInv, PeerStep
    PROVE  ScriptInv'
  <1>1. UNCHANGED <<cfg, hostVars>>
    BY PeerSteps
  <1> SUFFICES ASSUME Conforming, ~Over PROVE ScriptInv'
    BY <1>1 DEF ScriptInv, Conforming, Over, hostVars
  <1>2. UNCHANGED InHand /\ FlagsKept /\ UNCHANGED <<flags, established>>
    BY <1>1 DEF hostVars, InHand, FlagsKept, Asked
  <1>t. /\ InHand \in Seq(PeerMessages) /\ toHost \in Seq(PeerMessages)
        /\ Pending \in Seq(PeerMessages) /\ Len(Pending) \in Nat
        /\ toHost' \in Seq(PeerMessages) /\ finC \in BOOLEAN
        /\ Len(InHand) \in Nat /\ Len(toHost) \in Nat /\ Len(toHost') \in Nat
    BY PendingType, LenProperties DEF TypeOK
  <1>3. /\ Len(Pending) = Len(InHand) + Len(toHost)
        /\ \A i \in 1 .. Len(InHand) + Len(toHost) :
             Pending[i] = IF i <= Len(InHand) THEN InHand[i] ELSE toHost[i - Len(InHand)]
    BY <1>t, ConcatProperties DEF Pending
  <1>4. /\ Pending' = InHand \o toHost'
        /\ Len(Pending') = Len(InHand) + Len(toHost')
        /\ \A i \in 1 .. Len(InHand) + Len(toHost') :
             Pending'[i] = IF i <= Len(InHand) THEN InHand[i] ELSE toHost'[i - Len(InHand)]
    BY <1>2, <1>t, ConcatProperties DEF Pending
  <1>5. ASSUME Truncate(toHost, finC, toHost', finC'), cpc' \in {cpc, "done"}
        PROVE  ScriptInv'
    <2>1. \A i \in 1 .. Len(toHost') : toHost'[i] = toHost[i] /\ i \in 1 .. Len(toHost)
      BY <1>5, <1>t, TruncateParts
    <2>2. Len(toHost') <= Len(toHost)
      <3>1. Len(toHost') > 0 => Len(toHost') \in 1 .. Len(toHost')
        BY <1>t
      <3> QED
        BY <1>t, <2>1, <3>1
    <2>3. Len(Pending') <= Len(Pending)
      BY <1>t, <1>3, <1>4, <2>2
    <2>4. ASSUME NEW i \in 1 .. Len(Pending') PROVE Pending'[i] = Pending[i]
      <3>1. i \in 1 .. Len(InHand) + Len(toHost) /\ i \in 1 .. Len(InHand) + Len(toHost')
        BY <1>t, <1>3, <1>4, <2>2
      <3>2. ~(i <= Len(InHand)) => i - Len(InHand) \in 1 .. Len(toHost')
        BY <1>t, <3>1
      <3> QED
        BY <1>3, <1>4, <2>1, <3>1, <3>2
    <2> QED
      BY <1>1, <1>2, <1>5, <2>3, <2>4, ScriptKept
  <1>6. ASSUME UNCHANGED toHost, cpc' # "start",
               cpc' = "await_ack" => cpc = "await_ack",
               cpc' = "ready" => cpc \in {"ready", "await_ack"}
        PROVE  ScriptInv'
    <2>1. Pending' = Pending
      BY <1>4, <1>6 DEF Pending
    <2> QED
      BY <1>1, <1>2, <1>6, <1>t, <2>1, ScriptKept
  <1>7. ASSUME NEW m \in Expected, toHost' = Append(toHost, m),
               m \in {"input", "goodbye"} \/ \A i \in 1 .. Len(Pending) : Pending[i] # m,
               cpc' \notin {"start", "ready"},
               cpc' = "await_ack" => cpc = "start" /\ m = "hello"
        PROVE  ScriptInv'
    <2>1. m \in PeerMessages
      BY DEF Expected
    <2>2. Pending' = Append(Pending, m)
      BY <1>4, <1>7, <1>t, <2>1, JoinParts DEF Pending
    <2> QED
      BY <1>1, <1>2, <1>7, <2>1, <2>2, ScriptSent
  <1>m. /\ {"hello", "input", "goodbye", "authenticate", "resume_session"}
             \subseteq PeerMessages
        /\ cfg.credential # "none" => IsCredential(cfg.credential)
        /\ cfg.credential # "hello" /\ cfg.kind # "other"
        /\ "goodbye" \in Expected
    BY DEF TypeOK, Configurations, AllConfigurations, Credentials, ControlMessages,
       PeerMessages, IsCredential, Expected, Conforming
  <1>8. CASE LoseConnection \/ ClientCloses
    BY <1>5, <1>8 DEF LoseConnection, ClientCloses, clientVars
  <1>9. CASE OtherSends \/ OtherFinishes
    BY <1>9, <1>m DEF OtherSends, OtherFinishes
  <1>10. CASE HeadsetDrop \/ HeadsetReadAck \/ HeadsetReadResult \/ HeadsetListen
    BY <1>6, <1>10 DEF HeadsetDrop, HeadsetReadAck, HeadsetReadResult, HeadsetListen,
       ClientGets, HeadsetGone, netVars
  <1>11. CASE SmokeReadAck \/ SmokeReadResult \/ SmokeListen
    <2>1. UNCHANGED toHost
      BY <1>11 DEF SmokeReadAck, SmokeReadResult, SmokeListen, SmokeRead, ClientGets,
         ClientGetsEnd, ClientGetsError, netVars
    <2>2. cpc' \in {"closing", "connected"} \/ (cpc = "await_ack" /\ cpc' = "ready")
      BY <1>11 DEF SmokeReadAck, SmokeReadResult, SmokeListen, SmokeRead, AfterSmokeRead
    <2> QED
      BY <1>6, <2>1, <2>2
  <1>12. CASE ClientHello
    <2>1. CASE UNCHANGED toHost /\ cpc' = "closing"
      BY <1>6, <2>1
    <2>2. CASE toHost' = Append(toHost, "hello") /\ cpc' = "await_ack"
      <3>1. cpc = "start" /\ Pending = << >> /\ "hello_received" \notin flags
        BY <1>12 DEF ClientHello, ScriptInv
      <3>2. "hello" \in Expected
        BY <1>m, <3>1 DEF Expected
      <3>3. \A i \in 1 .. Len(Pending) : FALSE
        BY <3>1
      <3> QED
        BY <1>7, <2>2, <3>1, <3>2, <3>3
    <2> QED
      BY <1>12, <2>1, <2>2 DEF ClientHello, ClientSend, ClientSendFails, netVars
  <1>13. CASE HeadsetAsk \/ SmokeAsk
    <2>1. CASE UNCHANGED toHost /\ cpc' \in {"closing", "connected"}
      BY <1>6, <2>1
    <2>2. CASE ~(UNCHANGED toHost /\ cpc' \in {"closing", "connected"})
      <3>1. /\ cpc = "ready" /\ cpc' = "await_result" /\ cfg.credential # "none"
            /\ toHost' = Append(toHost, cfg.credential) /\ Said("hello_ack")
        BY <1>13, <2>2 DEF HeadsetAsk, SmokeAsk, ClientSend, ClientSendFails, HeardInv,
           netVars
      <3>2. /\ ~Asked /\ "hello_received" \in flags
            /\ \A i \in 1 .. Len(Pending) : Pending[i] # cfg.credential
        BY <1>m, <3>1 DEF ScriptInv, WireInv
      <3>3. cfg.credential \in Expected
        BY <1>m, <3>1, <3>2 DEF Expected, IsCredential
      <3> QED
        BY <1>7, <3>1, <3>2, <3>3
    <2> QED
      BY <2>1, <2>2
  <1>14. CASE HeadsetInput
    <2>1. /\ cpc = "connected" /\ cfg.kind = "headset" /\ UNCHANGED cpc
          /\ toHost' = Append(toHost, "input")
      BY <1>14 DEF HeadsetInput, ClientSend
    <2>2. established
      <3>1. Said("hello_ack") /\ (cfg.credential # "none" => ToldOfSuccess)
        BY <2>1 DEF HeardInv
      <3> QED
        BY <2>1, <3>1 DEF ToldInv, Conforming
    <2>3. "input" \in Expected
      BY <1>m, <2>2 DEF Expected
    <2> QED
      BY <1>7, <2>1, <2>3
  <1>15. CASE HeadsetDisconnect \/ SmokeGoodbye
    <2>1. cpc' = "closing" /\ (UNCHANGED toHost \/ toHost' = Append(toHost, "goodbye"))
      BY <1>15 DEF HeadsetDisconnect, SmokeGoodbye, ClientSend, ClientSendFails, netVars
    <2> QED
      BY <1>6, <1>7, <1>m, <2>1
  <1> QED
    BY <1>8, <1>9, <1>10, <1>11, <1>12, <1>13, <1>14, <1>15 DEF PeerStep, ClientStep

(* A client hears only what was said, and what it does next is known to the
   host: the rest of the invariant, for the steps of the clients. *)
LEMMA PeerHeard ==
    ASSUME TypeOK, TypeOK', GoodbyeInv, HeardInv, ToldInv, PeerStep
    PROVE  HeardInv' /\ ToldInv'
  <1>1. UNCHANGED <<cfg, hostVars>>
    BY PeerSteps
  <1>2. /\ \A x : Said(x)' <=> Said(x)
        /\ ToldOfSuccess' <=> ToldOfSuccess
    BY <1>1, SaidStill DEF hostVars, ToldOfSuccess
  <1>t. toClient \in Seq(ControlMessages) /\ finH \in BOOLEAN
        /\ toClient' \in Seq(ControlMessages) /\ cfg.kind \in {"smoke", "headset", "other"}
    BY DEF TypeOK, Configurations, AllConfigurations
  <1>3. \A i \in 1 .. Len(toClient') : Said(toClient'[i])
    <2>1. CASE UNCHANGED toClient
      BY <2>1 DEF HeardInv
    <2>2. CASE Truncate(toClient, finH, toClient', finH')
      BY <1>t, <2>2, TruncateParts DEF HeardInv
    <2>3. CASE \E n \in 1 .. Len(toClient) : ClientGets(n)
      <3>1. PICK n \in 1 .. Len(toClient) : toClient' = Rest(toClient, n)
        BY <2>3 DEF ClientGets
      <3>2. /\ Len(toClient') = Len(toClient) - n
            /\ \A i \in 1 .. Len(toClient) - n : toClient'[i] = toClient[n + i]
        <4>1. n \in 0 .. Len(toClient)
          OBVIOUS
        <4> QED
          BY <1>t, <3>1, <4>1, ReadParts
      <3>3. \A i \in 1 .. Len(toClient') : n + i \in 1 .. Len(toClient)
        BY <1>t, <3>2
      <3> QED
        BY <3>2, <3>3 DEF HeardInv
    <2>4. CASE toClient' = << >>
      BY <2>4
    <2>5. CASE LoseConnection \/ ClientCloses
      BY <2>2, <2>4, <2>5 DEF LoseConnection, ClientCloses
    <2>6. CASE HeadsetReadAck \/ HeadsetReadResult \/ HeadsetListen
      <3>1. UNCHANGED toClient \/ ClientGets(1)
        BY <2>6 DEF HeadsetReadAck, HeadsetReadResult, HeadsetListen, HeadsetGone, netVars
      <3>2. ClientGets(1) => 1 \in 1 .. Len(toClient)
        BY DEF ClientGets
      <3> QED
        BY <2>1, <2>3, <3>1, <3>2
    <2>7. CASE SmokeReadAck \/ SmokeReadResult \/ SmokeListen
      BY <2>1, <2>3, <2>7 DEF SmokeReadAck, SmokeReadResult, SmokeListen, SmokeRead,
         ClientGetsEnd, ClientGetsError, netVars
    <2>8. CASE \/ HeadsetInput \/ HeadsetDisconnect \/ HeadsetDrop \/ OtherSends
               \/ OtherFinishes \/ ClientHello \/ SmokeAsk \/ SmokeGoodbye \/ HeadsetAsk
      BY <2>1, <2>8 DEF HeadsetInput, HeadsetDisconnect, HeadsetDrop, OtherSends,
         OtherFinishes, ClientHello, SmokeAsk, SmokeGoodbye, HeadsetAsk, ClientSend,
         ClientSendFails, netVars
    <2> QED
      BY <2>5, <2>6, <2>7, <2>8 DEF PeerStep, ClientStep
  <1>4. "hello_ack_received" \in cflags' => Said("hello_ack")
    <2>1. CASE UNCHANGED cflags
      BY <2>1 DEF HeardInv
    <2>2. CASE SmokeReadAck \/ SmokeReadResult \/ SmokeListen
      <3>1. CASE UNCHANGED cflags
        BY <2>1, <3>1
      <3>2. CASE ~UNCHANGED cflags
        <4>1. PICK n \in 1 .. Len(toClient) : cflags' = SmokeFlags(Front(toClient, n))[n]
          BY <2>2, <3>2 DEF SmokeReadAck, SmokeReadResult, SmokeListen, SmokeRead
        <4>2. /\ Front(toClient, n) \in Seq(ControlMessages) /\ Len(Front(toClient, n)) = n
              /\ \A i \in 1 .. n : Front(toClient, n)[i] = toClient[i]
              /\ n \in 0 .. n
            BY <1>t, ReadParts
        <4>3. "hello_ack_received" \in cflags' =>
                \/ "hello_ack_received" \in cflags
                \/ \E i \in 1 .. n : toClient[i] = "hello_ack"
          BY <4>1, <4>2, SmokeAcknowledged
        <4>4. \A i \in 1 .. n : i \in 1 .. Len(toClient)
          OBVIOUS
        <4> QED
          BY <4>3, <4>4 DEF HeardInv
      <3> QED
        BY <3>1, <3>2
    <2>3. CASE SmokeGoodbye
      <3>1. UNCHANGED cflags \/ cflags' = InitiateGoodbye(cflags)
        BY <2>3 DEF SmokeGoodbye, ClientSendFails
      <3>2. \A x : x \in InitiateGoodbye(cflags) <=> x \in cflags \/ x = "goodbye_sent"
        BY FlagMembers
      <3> QED
        BY <2>1, <3>1, <3>2 DEF HeardInv
    <2> QED
      BY <2>1, <2>2, <2>3 DEF PeerStep, ClientStep, LoseConnection, ClientHello, SmokeAsk,
         HeadsetReadAck, HeadsetAsk, HeadsetReadResult, HeadsetListen, ClientCloses,
         HeadsetInput, HeadsetDisconnect, HeadsetDrop, OtherSends, OtherFinishes,
         clientVars
  <1>5. cfg.kind = "headset" =>
          /\ cpc' \in {"ready", "await_result", "connected"} => Said("hello_ack")
          /\ cpc' = "connected" /\ cfg.credential # "none" => ToldOfSuccess
    <2> SUFFICES ASSUME cfg.kind = "headset"
                 PROVE  /\ cpc' \in {"ready", "await_result", "connected"} => Said("hello_ack")
                        /\ cpc' = "connected" /\ cfg.credential # "none" => ToldOfSuccess
      OBVIOUS
    <2>1. ClientGets(1) => Said(Head(toClient))
      BY <1>t DEF ClientGets, HeardInv
    <2>2. CASE HeadsetReadAck
      BY <2>1, <2>2 DEF HeadsetReadAck
    <2>3. CASE HeadsetReadResult
      BY <2>1, <2>3 DEF HeadsetReadResult, HeardInv, ToldOfSuccess
    <2>4. CASE HeadsetListen
      BY <2>4 DEF HeadsetListen, HeardInv
    <2>5. CASE HeadsetAsk
      BY <2>5 DEF HeadsetAsk, HeardInv
    <2>6. CASE UNCHANGED cpc \/ cpc' \in {"closing", "done"}
      BY <2>6 DEF HeardInv
    <2> QED
      BY <2>2, <2>3, <2>4, <2>5, <2>6 DEF PeerStep, ClientStep, LoseConnection,
         ClientHello, SmokeReadAck, SmokeAsk, SmokeReadResult, SmokeListen, SmokeRead,
         SmokeGoodbye, ClientCloses, HeadsetInput, HeadsetDisconnect, HeadsetDrop,
         OtherSends, OtherFinishes, clientVars
  <1>6. cfg.kind = "headset" /\ cpc \in {"closing", "done"} => cpc' \in {"closing", "done"}
    BY DEF PeerStep, ClientStep, LoseConnection, ClientHello, SmokeReadAck, SmokeAsk,
       SmokeReadResult, SmokeListen, SmokeRead, SmokeGoodbye, ClientCloses,
       HeadsetReadAck, HeadsetAsk, HeadsetReadResult, HeadsetListen, HeadsetInput,
       HeadsetDisconnect, HeadsetDrop, OtherSends, OtherFinishes, clientVars
  <1>7. HeardInv'
    <2>1. (\A i \in 1 .. Len(toClient) : Said(toClient[i]))'
      BY <1>1, <1>3 DEF Said, hostVars
    <2> QED
      BY <1>1, <1>2, <1>4, <1>5, <2>1 DEF HeardInv
  <1>8. ToldInv'
    BY <1>1, <1>2, <1>6 DEF ToldInv, hostVars, Over, Conforming
  <1> QED
    BY <1>7, <1>8

(* A connection begins with nothing sent. *)
LEMMA ConformingInit == Init => ConformingInvariant
  <1> SUFFICES ASSUME Init PROVE ConformingInvariant
    OBVIOUS
  <1>1. (\A x : ~Said(x)) /\ TypeOK
    BY TypeInit DEF Init, Said
  <1>2. Pending = << >>
    <2>1. InHand = << >> /\ toHost = << >>
      BY DEF Init, InHand
    <2> QED
      BY <2>1, <1>1, JoinParts DEF Pending, TypeOK
  <1> QED
    BY <1>1, <1>2 DEF Init, ConformingInvariant, ConformingNeverRefused, ScriptInv,
       HeardInv, ToldInv, ToldOfSuccess, Asked

(* Every step of host, client and network keeps it, where the host's own
   invariant holds. *)
LEMMA ConformingNext ==
    ASSUME HostInvariant, HostInvariant', ConformingInvariant, [Next]_vars
    PROVE  ConformingInvariant'
  <1> USE DEF HostInvariant, ConformingInvariant
  <1>1. CASE HostStep \/ PointerShape
    BY <1>1, HostAccepts, HostScript, HostHeard, HostTold
  <1>2. CASE PeerStep
    <2>1. ConformingNeverRefused'
      BY <1>2, PeerSteps DEF ConformingNeverRefused, Conforming, hostVars
    <2> QED
      BY <1>2, <2>1, PeerScript, PeerHeard
  <1>3. CASE UNCHANGED vars
    <2>1. ScriptInv'
      <3>1. UNCHANGED <<cfg, hpc, cpc, flags>>
        BY <1>3 DEF vars, hostVars, clientVars
      <3>2. UNCHANGED Pending
        BY <1>3 DEF vars, hostVars, netVars, Pending, InHand
      <3>3. UNCHANGED Expected
        BY <1>3 DEF vars, hostVars, Expected, Asked
      <3> QED
        BY <3>1, <3>2, <3>3 DEF ScriptInv, Conforming, Over, Asked
    <2>2. HeardInv' /\ ToldInv' /\ ConformingNeverRefused'
      BY <1>3 DEF vars, hostVars, netVars, clientVars, HeardInv, ToldInv, ToldOfSuccess,
         Said, ConformingNeverRefused, Conforming, Over
    <2> QED
      BY <2>1, <2>2
  <1> QED
    BY <1>1, <1>2, <1>3 DEF Next, Environment, PeerStep

(***************************************************************************)
(* The host takes every message that a client of this repository sends,    *)
(* when it sends it: no timing of reads, losses and goodbyes makes a       *)
(* protocol error of a conversation between the two.                       *)
(***************************************************************************)
THEOREM ConformingClientIsHeard == Spec => []ConformingNeverRefused
  <1>1. HostInvariant /\ HostInvariant' /\ ConformingInvariant /\ [Next]_vars
          => ConformingInvariant'
    BY ConformingNext
  <1>2. Spec => []ConformingInvariant
    BY ConformingInit, HostInvariantHolds, <1>1, PTL DEF Spec
  <1>3. ConformingInvariant => ConformingNeverRefused
    BY DEF ConformingInvariant
  <1> QED
    BY <1>2, <1>3, PTL
=============================================================================
