---------------------------- MODULE H264Encoder ----------------------------
(***************************************************************************)
(* MfH264Encoder (host/encode/src/windows_backend.rs): one call of encode, *)
(* on the thread of the video worker, against a Media Foundation transform *)
(* that works on its own.                                                  *)
(*                                                                         *)
(* An asynchronous transform announces every output with an event.  The    *)
(* encoder keeps one flag for the announcements it has read, so two that   *)
(* are read together count as one.  `call` is where encode is.  Left out:  *)
(* timestamps, the codec settings, and flush, which no host calls.         *)
(***************************************************************************)
EXTENDS H264Bitstream

CONSTANTS
    Sizes,          \* frame sizes
    Headers,        \* sequence headers a transform may have: [bytes, nals]
    Samples,        \* what it may output: [nals, format, key]
    Capacity,       \* frames a transform takes before it refuses input
    MaxEncoders     \* bound on encoders that are created

ASSUME EncoderAssumption == Sizes # {} /\ Capacity \in Nat \ {0} /\ MaxEncoders \in Nat

(* A header is parameter sets with start codes, in an AVCC record, or behind lengths.
   Those are told apart by what they begin with, and the size of a length by the
   longest that fits: the last two conditions say that neither is fooled. *)
IsHeader(h) ==
    LET count == Len(h.nals) IN
    /\ h.nals \in Seq(Seq(Byte)) \ {<<>>}
    /\ \A i \in 1..count : IsUnit(h.nals[i]) /\ NalType(h.nals[i][1]) \in ParameterSets
    /\ \/ \E code \in StartCodes : h.bytes = AnnexB(h.nals, code)
       \/ \E n \in 1..4, k \in 0..count :
             /\ k < 32 /\ count - k < 256
             /\ \A i \in 1..count : IsShort(Len(h.nals[i]), 2)
             /\ h.bytes = AvccRecord(SubSeq(h.nals, 1, k), SubSeq(h.nals, k + 1, count), n)
       \/ \E n \in 1..4 :
             /\ \A i \in 1..count : IsShort(Len(h.nals[i]), n)
             /\ h.bytes = LengthPrefixed(h.nals, n)
             /\ ~LooksLikeAnnexB(h.bytes) /\ h.bytes[1] # 1
             /\ \A m \in (n + 1)..4 : ~Fits(h.bytes, m)

(* A sample is NAL units, whose lengths the length fields can say.  One with
   length fields may have empty ones. *)
IsSample(s) ==
    /\ s \in [nals : Seq(Seq(Byte)), format : {"annex_b", "short", "length"}, key : BOOLEAN]
    /\ \A i \in 1..Len(s.nals) : IsUnit(s.nals[i]) \/ (s.format = "length" /\ s.nals[i] = <<>>)
    /\ s.format = "length" =>
          \A h \in Headers, i \in 1..Len(s.nals) :
             IsShort(Len(s.nals[i]), SequenceHeader(h.bytes).size)

ASSUME HeadersAssumption == \A h \in Headers : IsHeader(h)
ASSUME SamplesAssumption == \A s \in Samples : IsSample(s)

VARIABLES
    encoder,         \* gen: which encoder this is, 0 before the first; config.width and height
    input,           \* the frame encode was called with: its size, whether it has a texture
    call,            \* where encode is
    refill,          \* input was refused: this drain is to make room
    drained,         \* that drain has returned something
    encoded,         \* the call has access units to return
    output_pending,  \* a METransformHaveOutput has been read
    header,          \* what read_sequence_header found
    unit,            \* the access unit just made, with its sample (history variable)
    mft,             \* the newest transform
    aborted          \* encoders that were told to flush and to end streaming

encodeVars == <<encoder, input, call, refill, drained, encoded, output_pending, header, unit>>
encoderVars == <<encodeVars, mft, aborted>>

Calls == {"none", "convert", "input", "poll", "drain", "output", "ok", "err"}
Working == {"convert", "input", "poll", "drain", "output"}

NoEncoder == [gen |-> 0, size |-> CHOOSE s \in Sizes : TRUE]
NoInput == [size |-> NoEncoder.size, texture |-> FALSE]
NoUnit == [sample |-> {}, data |-> <<>>]

(* work: frames inside; ready: finished and not collected; have: announcements
   nobody has read.  A synchronous transform announces nothing. *)
Mft(async, work, ready, have) == [async |-> async, work |-> work, ready |-> ready, have |-> have]
NewMft(async) == Mft(async, 0, 0, 0)
Counts(work, ready, have) == Mft(mft.async, work, ready, have)
Announce == IF mft.async THEN mft.have + 1 ELSE mft.have
Full == mft.work + mft.ready >= Capacity
Aborted == encoder.gen \in aborted

EncoderInit ==
    /\ encoder = NoEncoder
    /\ input = NoInput
    /\ call = "none"
    /\ refill = FALSE
    /\ drained = FALSE
    /\ encoded = FALSE
    /\ output_pending = FALSE
    /\ header = NoHeader
    /\ unit = NoUnit
    /\ mft = NewMft(TRUE)
    /\ aborted = {}

-----------------------------------------------------------------------------
(* The transform finishes a frame. *)
MftProduces ==
    /\ mft.work > 0
    /\ mft' = Counts(mft.work - 1, mft.ready + 1, Announce)
    /\ UNCHANGED <<encodeVars, aborted>>

(* FLUSH, END_OF_STREAM and END_STREAMING to the transform of encoder e: from
   an abort handle on any thread, and from Drop. *)
Abort(e) ==
    /\ aborted' = aborted \cup {e}
    /\ mft' = IF e = encoder.gen THEN NewMft(mft.async) ELSE mft
    /\ UNCHANGED encodeVars

(* MfH264Encoder::new, for frames of a size. *)
NewEncoder(size) ==
    /\ call = "none"
    /\ encoder.gen < MaxEncoders
    /\ encoder' = [gen |-> encoder.gen + 1, size |-> size]
    /\ \E h \in Headers : header' = SequenceHeader(h.bytes)
    /\ header'.ok
    /\ \E async \in BOOLEAN : mft' = NewMft(async)
    /\ output_pending' = FALSE
    /\ UNCHANGED <<input, call, refill, drained, encoded, unit, aborted>>

-----------------------------------------------------------------------------
(* pump_events: reads every announcement that is there. *)
Pumped == output_pending \/ mft.have > 0
Pump ==
    /\ output_pending' = Pumped
    /\ mft' = Counts(mft.work, mft.ready, 0)

Goto(c) == call' = c

(* encode refuses a frame of another size or without a texture. *)
EncodeAnySize(size, texture) ==
    /\ call = "none"
    /\ input' = [size |-> size, texture |-> texture]
    /\ Goto(IF texture THEN "convert" ELSE "err")
    /\ Pump
    /\ encoded' = FALSE
    /\ UNCHANGED <<encoder, refill, drained, header, unit, aborted>>

Encode(size, texture) ==
    /\ call = "none"
    /\ input' = [size |-> size, texture |-> texture]
    /\ IF size # encoder.size THEN Goto("err") /\ UNCHANGED <<output_pending, mft>>
                              ELSE Goto(IF texture THEN "convert" ELSE "err") /\ Pump
    /\ encoded' = FALSE
    /\ UNCHANGED <<encoder, refill, drained, header, unit, aborted>>

(* The colour converter, and the sample around its texture. *)
Convert ==
    /\ call = "convert"
    /\ Goto("input")
    /\ UNCHANGED <<encoder, input, refill, drained, encoded, output_pending, header, unit, mft, aborted>>

(* ProcessInput takes the frame, and encode drains what there is by now; or it
   answers NOTACCEPTING, and encode drains to make room, behind
   wait_for_output_event unless an announcement was read before. *)
ProcessInputAlwaysPolls ==
    /\ call = "input"
    /\ IF Full
       THEN Goto("poll") /\ refill' = TRUE /\ drained' = FALSE /\ UNCHANGED mft
       ELSE Goto("drain") /\ refill' = FALSE /\ mft' = Counts(mft.work + 1, mft.ready, mft.have) /\ UNCHANGED drained
    /\ UNCHANGED <<encoder, input, encoded, output_pending, header, unit, aborted>>

ProcessInput ==
    /\ call = "input"
    /\ IF Full
       THEN /\ Goto(IF mft.async /\ ~output_pending THEN "poll" ELSE "drain")
            /\ refill' = TRUE
            /\ drained' = FALSE
            /\ UNCHANGED mft
       ELSE /\ Goto("drain")
            /\ refill' = FALSE
            /\ mft' = Counts(mft.work + 1, mft.ready, mft.have)
            /\ UNCHANGED drained
    /\ UNCHANGED <<encoder, input, encoded, output_pending, header, unit, aborted>>

(* wait_for_output_event reads one announcement ... *)
OutputEvent ==
    /\ call = "poll"
    /\ mft.have > 0
    /\ mft' = Counts(mft.work, mft.ready, mft.have - 1)
    /\ output_pending' = TRUE
    /\ Goto("drain")
    /\ UNCHANGED <<encoder, input, refill, drained, encoded, header, unit, aborted>>

(* ... or gives up after two seconds without one. *)
OutputTimeout ==
    /\ call = "poll"
    /\ mft.have = 0
    /\ Goto("err")
    /\ UNCHANGED <<encoder, input, refill, drained, encoded, output_pending, header, unit, mft, aborted>>

(* drain_available_output: at the top of its loop ... *)
ExitDrainRetries == Goto(IF ~refill THEN "ok" ELSE "input")

ExitDrain == Goto(IF ~refill THEN "ok" ELSE IF drained THEN "input" ELSE "err")

DrainForced ==
    /\ call = "drain"
    /\ Pump
    /\ IF mft.async /\ ~Pumped /\ ~refill THEN ExitDrain ELSE Goto("output")
    /\ unit' = NoUnit
    /\ UNCHANGED <<encoder, input, refill, drained, encoded, header, aborted>>

Drain ==
    /\ call = "drain"
    /\ Pump
    /\ IF mft.async /\ ~Pumped THEN ExitDrain ELSE Goto("output")
    /\ unit' = NoUnit
    /\ UNCHANGED <<encoder, input, refill, drained, encoded, header, aborted>>

(* ... and process_output_once.  The bytes of a sample in its format: *)
Payload(s) == CASE s.format = "annex_b" -> AnnexB(s.nals, StartCode)
                [] s.format = "short" -> AnnexB(s.nals, <<0, 0, 1>>)
                [] s.format = "length" -> LengthPrefixed(s.nals, header.size)

UnitFor(s) == AccessUnit(Payload(s), header.data, header.size, s.key)

ProcessOutput(s) ==
    /\ call = "output"
    /\ mft.ready > 0
    /\ UnitFor(s).ok
    /\ mft' = Counts(mft.work, mft.ready - 1, mft.have)
    /\ unit' = [sample |-> {s}, data |-> UnitFor(s).data]
    /\ output_pending' = FALSE
    /\ drained' = TRUE
    /\ encoded' = TRUE
    /\ Goto("drain")
    /\ UNCHANGED <<encoder, input, refill, header, aborted>>

(* An empty sample ends the drain; so does NEED_MORE_INPUT, which only a
   synchronous transform answers. *)
NoOutput ==
    /\ call = "output"
    /\ \/ mft.ready > 0 /\ mft' = Counts(mft.work, mft.ready - 1, mft.have)
       \/ mft.ready = 0 /\ (~mft.async \/ Aborted) /\ UNCHANGED mft
    /\ output_pending' = FALSE
    /\ ExitDrain
    /\ UNCHANGED <<encoder, input, refill, drained, encoded, header, unit, aborted>>

(* STREAM_CHANGE: the header is read again.  The output stays, and the
   transform announces it once more. *)
StreamChangeKeepsHeader ==
    /\ call = "output"
    /\ mft.ready > 0
    /\ \E h \in Headers : SequenceHeader(h.bytes).ok /\ header' = [SequenceHeader(h.bytes) EXCEPT !.data = header.data]
    /\ header' # header
    /\ mft' = Counts(mft.work, mft.ready, Announce)
    /\ output_pending' = FALSE
    /\ ExitDrain
    /\ UNCHANGED <<encoder, input, refill, drained, encoded, unit, aborted>>

StreamChange ==
    /\ call = "output"
    /\ mft.ready > 0
    /\ \E h \in Headers : header' = SequenceHeader(h.bytes)
    /\ header'.ok
    /\ header' # header
    /\ mft' = Counts(mft.work, mft.ready, Announce)
    /\ output_pending' = FALSE
    /\ ExitDrain
    /\ UNCHANGED <<encoder, input, refill, drained, encoded, unit, aborted>>

(* Any call into the system may fail, and encode with it. *)
EncodeFails ==
    /\ call \in Working
    /\ Goto("err")
    /\ UNCHANGED <<encoder, input, refill, drained, encoded, output_pending, header, unit, mft, aborted>>

EncodeStep ==
    \/ Convert \/ ProcessInput \/ OutputEvent \/ OutputTimeout
    \/ Drain \/ NoOutput \/ StreamChange \/ EncodeFails
    \/ \E s \in Samples : ProcessOutput(s)

(* encode returns, and its units go on. *)
Return ==
    /\ call \in {"ok", "err"}
    /\ call' = "none"
    /\ input' = NoInput
    /\ encoded' = FALSE
    /\ unit' = NoUnit
    /\ UNCHANGED <<encoder, refill, drained, output_pending, header, mft, aborted>>

Next ==
    \/ MftProduces
    \/ EncodeStep
    \/ Return
    \/ \E size \in Sizes : NewEncoder(size)
    \/ encoder.gen > 0 /\ \E size \in Sizes, texture \in BOOLEAN : Encode(size, texture)
    \/ \E e \in 1..encoder.gen : Abort(e)

(* The thread of the worker runs on, and so does the transform. *)
Spec == EncoderInit /\ [][Next]_encoderVars /\ WF_encoderVars(EncodeStep) /\ WF_encoderVars(MftProduces)

-----------------------------------------------------------------------------
(* Types of the encoder and its transform.  Only encoders that exist are aborted. *)
TypeOK ==
    /\ encoder \in [gen : 0..MaxEncoders, size : Sizes]
    /\ input \in [size : Sizes, texture : BOOLEAN]
    /\ call \in Calls
    /\ refill \in BOOLEAN
    /\ drained \in BOOLEAN
    /\ encoded \in BOOLEAN
    /\ output_pending \in BOOLEAN
    /\ unit.sample \subseteq Samples
    /\ mft \in [async : BOOLEAN, work : Nat, ready : Nat, have : Nat]
    /\ aborted \subseteq 1..encoder.gen

(* "ProcessOutput is now always gated on METransformHaveOutput events for
   hardware encoders" (docs/Status.md): an asynchronous transform is asked for
   output only while it holds some, however announcements and outputs
   interleave with the drain, unless it was flushed behind the encoder's back. *)
OutputOnlyWhenAnnounced ==
    call = "output" /\ mft.async /\ ~Aborted => mft.ready > 0

(* wait_for_output_event never waits for an announcement that was already read:
   two announcements merged into one flag leave outputs behind, but never so
   many that the transform is full of them, so there is an announcement to read
   or a frame inside that will bring one. *)
WaitsForSomething ==
    call = "poll" /\ ~Aborted => mft.have > 0 \/ mft.work > 0

(* The loop around ProcessInput ends: refused input, drains that yield nothing
   and format changes never send a call of encode round for ever, whatever the
   transform answers and whoever aborts it. *)
EncodeEnds == call \in Working ~> call \in {"ok", "err"}

(* The units of an access unit are the units of the sample, in order, behind the
   parameter sets in force when it is a key frame that does not start with its
   own.  A length-prefixed sample that begins like a start code (a first unit of
   one byte, or of 256 to 511) is taken for Annex B. *)
Ambiguous(s) == s.format = "length" /\ LooksLikeAnnexB(Payload(s))
Expected(s, h) ==
    LET nals == NonEmpty(s.nals)
    IN  IF s.key /\ NalType(Head(Head(nals))) \notin ParameterSets THEN h.nals \o nals ELSE nals
UnitIsSample ==
    \A s \in unit.sample : ~Ambiguous(s) =>
        \E h \in Headers : SequenceHeader(h.bytes) = header /\ UnitsOf(unit.data) = Expected(s, h)

(* The encoder does what the video worker relies on (VideoEncoder): only a frame
   of its own size with a texture is worked on, and a call says ok only after
   that work. *)
Contract == INSTANCE VideoEncoder WITH call <- IF call \in Working THEN "busy" ELSE call
ImplementsVideoEncoder == Contract!EncoderSpec
=============================================================================
