-------------------------- MODULE ControlConnection --------------------------
(***************************************************************************)
(* The state machine of the control stream, host/transport/src/            *)
(* connection.rs: which message each side takes in which state, what it    *)
(* remembers of it and what it answers.  The boolean fields of             *)
(* ControlConnection that are true make a set; auth_success, which is      *)
(* Some(true), Some(false) or None, is "auth_success" or "auth_failure" in *)
(* that set, or neither.  The module has no variables: ControlStream runs  *)
(* one such machine at each end of a stream.                               *)
(***************************************************************************)
EXTENDS Sequences

\* The kinds of control messages; a result carries whether it is a success.
\* The four kinds of input (pointer_button, pointer_wheel, keyboard_key and
\* input_focus) are treated alike here and are one kind.
AuthResults == {"auth_ok", "auth_no"}
ResumeResults == {"resume_ok", "resume_no"}
Results == AuthResults \cup ResumeResults
ControlMessages == {"hello", "hello_ack", "authenticate", "resume_session",
                    "pointer_shape", "input", "goodbye"} \cup Results

ServerFlags == {"hello_received", "goodbye_sent", "goodbye_received",
                "auth_received", "resume_received", "auth_result_sent",
                "resume_result_sent", "auth_success", "auth_failure"}

\* auth_success = Some(success).
Outcome(flags, success) ==
  (flags \ {"auth_success", "auth_failure"})
    \cup {IF success THEN "auth_success" ELSE "auth_failure"}

ServerFinished(flags) == "auth_result_sent" \in flags \/ "resume_result_sent" \in flags
ServerEstablished(flags) == ServerFinished(flags) /\ "auth_success" \in flags

ClientFinished(flags) ==
  "auth_result_received" \in flags \/ "resume_result_received" \in flags
ClientEstablished(flags) == ClientFinished(flags) /\ "auth_success" \in flags

OrderlyShutdown(flags) == "goodbye_sent" \in flags \/ "goodbye_received" \in flags

\* Mutant: no-auth mode forgets to mark the session.
BypassForgotten(flags) == flags

\* No-auth mode: the session counts as established without a handshake.
BypassAuth(flags) == Outcome(flags, TRUE) \cup {"auth_result_sent"}

RecordAuthResult(flags, success) == Outcome(flags, success) \cup {"auth_result_sent"}
RecordResumeResult(flags, success) ==
  Outcome(flags, success) \cup {"resume_result_sent"}

InitiateGoodbye(flags) == flags \cup {"goodbye_sent"}

-----------------------------------------------------------------------------
\* Mutant: input is taken before there is a session.
ServerAcceptsEarlyInput(flags, m) ==
  \/ m = "hello" /\ "hello_received" \notin flags
  \/ /\ m \in {"authenticate", "resume_session"}
     /\ "hello_received" \in flags
     /\ "auth_received" \notin flags /\ "resume_received" \notin flags
  \/ m \in {"input", "goodbye"}

\* on_receive_as_server: the messages it takes; it answers the others with an
\* error.
ServerAccepts(flags, m) ==
  \/ m = "hello" /\ "hello_received" \notin flags
  \/ /\ m \in {"authenticate", "resume_session"}
     /\ "hello_received" \in flags
     /\ "auth_received" \notin flags /\ "resume_received" \notin flags
  \/ m = "input" /\ ServerEstablished(flags)
  \/ m = "goodbye"

ServerReceive(flags, m) ==
  flags \cup CASE m = "hello" -> {"hello_received"}
               [] m = "authenticate" -> {"auth_received"}
               [] m = "resume_session" -> {"resume_received"}
               [] m = "goodbye" -> {"goodbye_received"}
               [] OTHER -> {}

\* Mutant: a hello is taken and not acknowledged.
ServerRepliesNothing(m) == << >>

ServerReplies(m) == IF m = "hello" THEN <<"hello_ack">> ELSE << >>

\* on_receive_as_client.
ClientAccepts(flags, m) ==
  \/ m = "hello_ack" /\ "hello_ack_received" \notin flags
  \/ m \in AuthResults /\ "auth_result_received" \notin flags
  \/ m \in ResumeResults /\ "resume_result_received" \notin flags
  \/ m \in {"pointer_shape", "input", "goodbye"}

ClientReceive(flags, m) ==
  CASE m = "hello_ack" -> flags \cup {"hello_ack_received"}
    [] m \in AuthResults ->
         Outcome(flags, m = "auth_ok") \cup {"auth_result_received"}
    [] m \in ResumeResults ->
         Outcome(flags, m = "resume_ok") \cup {"resume_result_received"}
    [] m = "goodbye" -> flags \cup {"goodbye_received"}
    [] OTHER -> flags
=============================================================================
