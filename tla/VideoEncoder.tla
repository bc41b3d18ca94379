---------------------------- MODULE VideoEncoder ----------------------------
(***************************************************************************)
(* What an encoder promises the video worker (the trait VideoEncoder of    *)
(* host/encode/src/lib.rs and its abort handle): a call takes a frame of   *)
(* the encoder's size, may run for any time, or for ever, and ends with    *)
(* access units, with none, or with an error.  Another thread may abort an *)
(* encoder at any moment, during a call too.                               *)
(***************************************************************************)
EXTENDS Integers

CONSTANTS
    Sizes,          \* frame sizes
    MaxEncoders     \* bound on encoders that are created

ASSUME MaxEncodersAssumption == MaxEncoders \in Nat

VARIABLES
    encoder,        \* gen: which encoder this is, 0 before the first; config.width and height
    input,          \* the frame encode was called with: its size, whether it has a texture
    call,           \* none, busy, or how the call ended: ok, err
    encoded,        \* the call has access units to return
    aborted         \* encoders that were told to flush and to end streaming

encoderVars == <<encoder, input, call, encoded, aborted>>

NoEncoder == [gen |-> 0, size |-> CHOOSE s \in Sizes : TRUE]
NoInput == [size |-> NoEncoder.size, texture |-> FALSE]

EncoderInit ==
    /\ encoder = NoEncoder
    /\ input = NoInput
    /\ call = "none"
    /\ encoded = FALSE
    /\ aborted = {}

-----------------------------------------------------------------------------
NewEncoder(size) ==
    /\ call = "none"
    /\ encoder.gen < MaxEncoders
    /\ encoder' = [gen |-> encoder.gen + 1, size |-> size]
    /\ UNCHANGED <<input, call, encoded, aborted>>

(* encode refuses a frame of another size or without a texture. *)
Encode(size, texture) ==
    /\ call = "none"
    /\ input' = [size |-> size, texture |-> texture]
    /\ call' = IF size = encoder.size /\ texture THEN "busy" ELSE "err"
    /\ encoded' = FALSE
    /\ UNCHANGED <<encoder, aborted>>

Output ==
    /\ call = "busy"
    /\ encoded' = TRUE
    /\ UNCHANGED <<encoder, input, call, aborted>>

Finish ==
    /\ call = "busy"
    /\ call' \in {"ok", "err"}
    /\ UNCHANGED <<encoder, input, encoded, aborted>>

(* The caller is done with what the call returned. *)
Return ==
    /\ call \in {"ok", "err"}
    /\ call' = "none"
    /\ input' = NoInput
    /\ encoded' = FALSE
    /\ UNCHANGED <<encoder, aborted>>

(* EncoderAbortHandle::abort, and what Drop sends before it shuts down. *)
Abort(e) ==
    /\ e \in 1..encoder.gen
    /\ aborted' = aborted \cup {e}
    /\ UNCHANGED <<encoder, input, call, encoded>>

EncoderNext ==
    \/ \E s \in Sizes : NewEncoder(s)
    \/ \E s \in Sizes, texture \in BOOLEAN : Encode(s, texture)
    \/ Output \/ Finish \/ Return
    \/ \E e \in 1..encoder.gen : Abort(e)

EncoderSpec == EncoderInit /\ [][EncoderNext]_encoderVars
=============================================================================
