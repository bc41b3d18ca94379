------------------------- MODULE H264EncoderProofs -------------------------
(***************************************************************************)
(* Proofs about H264Encoder, for transforms of any capacity, any number of *)
(* encoders, and headers and samples of any length: the output gate, the   *)
(* wait for room, the contract of VideoEncoder, and the units of every     *)
(* access unit.                                                            *)
(*                                                                         *)
(* The first argument is about announcements.  The transform announces     *)
(* each of its outputs once, and the encoder remembers at most one.  What  *)
(* is announced is there (AnnouncedIsReady), so the gate is safe; and a    *)
(* transform that is full of finished frames has an announcement left      *)
(* (FullIsAnnounced), so the wait is not in vain.                          *)
(*                                                                         *)
(* The second is about bytes.  Every conversion yields a stream (IsStream):*)
(* units behind start codes, each in a known place.  In a stream of units  *)
(* a decoder finds the units again (UnitsOfStream), streams behind each    *)
(* other are streams (StreamConcat), and length fields are read back       *)
(* (BigEndianBytes), so lengths and AVCC records become streams of their   *)
(* units.  The recursive functions of the model are unfolded from the set  *)
(* of all functions of their type (UpRecursion, DownRecursion), and        *)
(* induction is over sets of numbers, for operators cannot be passed.      *)
(***************************************************************************)
EXTENDS H264Encoder, WellFoundedInduction, SequenceTheorems, TLAPS

Shape ==
    /\ encoder \in [gen : Nat, size : Sizes]
    /\ call \in Calls
    /\ output_pending \in BOOLEAN
    /\ mft \in [async : BOOLEAN, work : Nat, ready : Nat, have : Nat]

Bounded == mft.work + mft.ready <= Capacity

Async == mft.async /\ ~Aborted

AnnouncedIsReady ==
    Async => /\ mft.have <= mft.ready
             /\ output_pending => mft.have < mft.ready

FullIsAnnounced == Async => output_pending \/ mft.have > 0 \/ mft.ready < Capacity

Gate == call = "output" /\ mft.async => output_pending

Wait ==
    /\ call = "poll" => mft.async
    /\ WaitsForSomething

EncoderInvariant == Shape /\ Bounded /\ AnnouncedIsReady /\ FullIsAnnounced /\ Gate /\ Wait

-----------------------------------------------------------------------------
(* The fields of a transform whose counts change. *)
LEMMA CountsFacts ==
    ASSUME Shape, NEW w \in Nat, NEW r \in Nat, NEW h \in Nat, mft' = Counts(w, r, h)
    PROVE  /\ mft' \in [async : BOOLEAN, work : Nat, ready : Nat, have : Nat]
           /\ mft'.async = mft.async
           /\ mft'.work = w /\ mft'.ready = r /\ mft'.have = h
  <1>1. mft.async \in BOOLEAN
    BY DEF Shape
  <1>2. mft' = [async |-> mft.async, work |-> w, ready |-> r, have |-> h]
    BY Zenon DEF Counts, Mft
  <1>3. mft' \in [async : BOOLEAN, work : Nat, ready : Nat, have : Nat]
    BY <1>1, <1>2
  <1>4. mft'.async = mft.async /\ mft'.work = w /\ mft'.ready = r /\ mft'.have = h
    BY <1>2
  <1> QED
    BY <1>3, <1>4

(* An announcement counts for an asynchronous transform. *)
LEMMA AnnounceFacts ==
    ASSUME Shape
    PROVE  Announce \in Nat /\ (mft.async => Announce = mft.have + 1)
  BY DEF Shape, Announce

(* An encoder that is not there yet satisfies the invariant. *)
LEMMA InvariantInit == EncoderInit => EncoderInvariant
  <1> SUFFICES ASSUME EncoderInit PROVE EncoderInvariant
    OBVIOUS
  <1>1. 0 < Capacity /\ Capacity \in Nat
    BY EncoderAssumption
  <1>2. NoEncoder \in [gen : Nat, size : Sizes]
    BY EncoderAssumption DEF NoEncoder
  <1>3. /\ mft \in [async : BOOLEAN, work : Nat, ready : Nat, have : Nat]
        /\ mft.work = 0 /\ mft.ready = 0 /\ mft.have = 0
    <2>1. mft = [async |-> TRUE, work |-> 0, ready |-> 0, have |-> 0]
      BY Zenon DEF EncoderInit, NewMft, Mft
    <2>2. mft \in [async : BOOLEAN, work : Nat, ready : Nat, have : Nat]
      BY <2>1
    <2> QED
      BY <2>1, <2>2, Zenon
  <1>4. Shape
    BY <1>2, <1>3 DEF EncoderInit, Shape, Calls
  <1>5. Bounded /\ FullIsAnnounced
    BY <1>1, <1>3 DEF Bounded, FullIsAnnounced
  <1>6. AnnouncedIsReady /\ Gate /\ Wait
    <2>1. ~output_pending /\ call = "none"
      BY DEF EncoderInit
    <2> QED
      BY <1>3, <2>1 DEF AnnouncedIsReady, Gate, Wait, WaitsForSomething
  <1> QED
    BY <1>4, <1>5, <1>6 DEF EncoderInvariant

(* The transform finishes a frame: one output more, one announcement more. *)
LEMMA InvariantMftProduces == EncoderInvariant /\ MftProduces => EncoderInvariant'
  <1> SUFFICES ASSUME EncoderInvariant, MftProduces PROVE EncoderInvariant'
    OBVIOUS
  <1> USE DEF EncoderInvariant, Shape
  <1>1. UNCHANGED <<encoder, call, output_pending, aborted>> /\ (Aborted' <=> Aborted)
    BY DEF MftProduces, encodeVars, Aborted
  <1>a. Announce \in Nat /\ (mft.async => Announce = mft.have + 1)
    BY AnnounceFacts
  <1>2. /\ mft' = Counts(mft.work - 1, mft.ready + 1, Announce)
        /\ mft.work > 0 /\ mft.work - 1 \in Nat /\ mft.ready + 1 \in Nat /\ mft.async \in BOOLEAN
    BY DEF MftProduces
  <1>b. /\ mft' \in [async : BOOLEAN, work : Nat, ready : Nat, have : Nat]
        /\ mft'.async = mft.async
        /\ mft'.work = mft.work - 1 /\ mft'.ready = mft.ready + 1
        /\ mft.async => mft'.have = mft.have + 1
    <2>1. mft'.have = Announce
      BY <1>a, <1>2, CountsFacts
    <2> QED
      BY <1>a, <1>2, <2>1, CountsFacts
  <1>3. Shape' /\ Bounded' /\ Gate'
    BY <1>1, <1>2, <1>b, EncoderAssumption DEF Bounded, Gate
  <1>4. AnnouncedIsReady' /\ FullIsAnnounced'
    BY <1>1, <1>2, <1>b DEF AnnouncedIsReady, FullIsAnnounced, Async
  <1>5. Wait'
    BY <1>1, <1>2, <1>b DEF Wait, WaitsForSomething
  <1> QED
    BY <1>3, <1>4, <1>5

(* Reading the announcements turns them into the flag. *)
LEMMA InvariantPump ==
    ASSUME EncoderInvariant, Pump, UNCHANGED <<encoder, aborted>>, call' \in Calls \ {"poll"},
           call' = "output" /\ mft.async => Pumped
    PROVE  EncoderInvariant'
  <1> USE DEF EncoderInvariant, Shape
  <1>1. Aborted' <=> Aborted
    BY DEF Aborted
  <1>2. /\ mft' \in [async : BOOLEAN, work : Nat, ready : Nat, have : Nat]
        /\ mft'.async = mft.async
        /\ mft'.work = mft.work /\ mft'.ready = mft.ready /\ mft'.have = 0
    BY CountsFacts DEF Pump
  <1>3. /\ output_pending' \in BOOLEAN
        /\ output_pending' <=> output_pending \/ mft.have > 0
    BY DEF Pump, Pumped
  <1>4. Shape' /\ Bounded' /\ Gate'
    BY <1>2, <1>3 DEF Bounded, Gate, Pumped
  <1>5. AnnouncedIsReady' /\ FullIsAnnounced'
    BY <1>1, <1>2, <1>3, EncoderAssumption DEF AnnouncedIsReady, FullIsAnnounced, Async
  <1>6. Wait'
    BY DEF Wait, WaitsForSomething
  <1> QED
    BY <1>4, <1>5, <1>6

(* A step that leaves transform and flag alone, and does not begin to wait or
   to ask for output. *)
LEMMA InvariantElsewhere ==
    ASSUME EncoderInvariant, UNCHANGED <<encoder, output_pending, mft, aborted>>,
           call' \in Calls \ {"poll", "output"}
    PROVE  EncoderInvariant'
  BY DEF EncoderInvariant, Shape, Bounded, Async, Aborted, AnnouncedIsReady, FullIsAnnounced, Gate, Wait,
         WaitsForSomething

(* ProcessInput: a transform that takes the frame was not full; one that does
   not, and has no announcement read, has one to come. *)
LEMMA InvariantProcessInput == EncoderInvariant /\ ProcessInput => EncoderInvariant'
  <1> SUFFICES ASSUME EncoderInvariant, ProcessInput PROVE EncoderInvariant'
    OBVIOUS
  <1>0. UNCHANGED <<encoder, output_pending, aborted>>
    BY DEF ProcessInput
  <1>1. CASE Full
    <2>1. UNCHANGED mft /\ call' = IF mft.async /\ ~output_pending THEN "poll" ELSE "drain"
      BY <1>1 DEF ProcessInput, Goto
    <2>2. CASE mft.async /\ ~output_pending
      <3>1. call' = "poll"
        BY <2>1, <2>2
      <3>2. mft.have > 0 \/ mft.work > 0 \/ Aborted
        BY <1>1, <2>2, EncoderAssumption DEF EncoderInvariant, Shape, Full, FullIsAnnounced, Async
      <3> QED
        BY <1>0, <2>1, <2>2, <3>1, <3>2
        DEF EncoderInvariant, Shape, Calls, Bounded, Async, Aborted, AnnouncedIsReady, FullIsAnnounced, Gate,
            Wait, WaitsForSomething
    <2>3. CASE ~(mft.async /\ ~output_pending)
      BY <1>0, <2>1, <2>3, InvariantElsewhere DEF Calls
    <2> QED
      BY <2>2, <2>3
  <1>2. CASE ~Full
    <2> USE DEF EncoderInvariant, Shape
    <2>1. mft' = Counts(mft.work + 1, mft.ready, mft.have) /\ call' = "drain"
      BY <1>2 DEF ProcessInput, Goto
    <2>2. /\ mft' \in [async : BOOLEAN, work : Nat, ready : Nat, have : Nat]
          /\ mft'.async = mft.async
          /\ mft'.work = mft.work + 1 /\ mft'.ready = mft.ready /\ mft'.have = mft.have
      <3>1. mft.work + 1 \in Nat /\ mft.ready \in Nat /\ mft.have \in Nat
        OBVIOUS
      <3> QED
        BY <2>1, <3>1, CountsFacts
    <2>3. mft.work + mft.ready < Capacity
      BY <1>2, EncoderAssumption DEF Full
    <2>4. Aborted' <=> Aborted
      BY <1>0 DEF Aborted
    <2>5. Shape' /\ Bounded' /\ Gate' /\ Wait'
      BY <1>0, <2>1, <2>2, <2>3, EncoderAssumption DEF Calls, Bounded, Gate, Wait, WaitsForSomething
    <2>6. AnnouncedIsReady' /\ FullIsAnnounced'
      BY <1>0, <2>2, <2>4 DEF AnnouncedIsReady, FullIsAnnounced, Async
    <2> QED
      BY <2>5, <2>6
  <1> QED
    BY <1>1, <1>2

(* An announcement that is read while waiting becomes the flag. *)
LEMMA InvariantOutputEvent == EncoderInvariant /\ OutputEvent => EncoderInvariant'
  <1> SUFFICES ASSUME EncoderInvariant, OutputEvent PROVE EncoderInvariant'
    OBVIOUS
  <1> USE DEF EncoderInvariant, Shape
  <1>1. UNCHANGED <<encoder, aborted>> /\ (Aborted' <=> Aborted) /\ output_pending' = TRUE /\ call' = "drain"
    BY DEF OutputEvent, Goto, Aborted
  <1>2. /\ mft' \in [async : BOOLEAN, work : Nat, ready : Nat, have : Nat]
        /\ mft'.async = mft.async /\ mft.have > 0
        /\ mft'.work = mft.work /\ mft'.ready = mft.ready /\ mft'.have = mft.have - 1
    <2>1. mft.have > 0 /\ mft.work \in Nat /\ mft.ready \in Nat /\ mft.have - 1 \in Nat
      BY DEF OutputEvent
    <2> QED
      BY <2>1, CountsFacts DEF OutputEvent
  <1>3. Shape' /\ Bounded' /\ Gate' /\ Wait'
    BY <1>1, <1>2 DEF Calls, Bounded, Gate, Wait, WaitsForSomething
  <1>4. AnnouncedIsReady' /\ FullIsAnnounced'
    BY <1>1, <1>2 DEF AnnouncedIsReady, FullIsAnnounced, Async
  <1> QED
    BY <1>3, <1>4

(* An output is taken for the flag: the other announcements stay true. *)
LEMMA InvariantCollect ==
    ASSUME EncoderInvariant, UNCHANGED <<encoder, aborted>>, call = "output", output_pending' = FALSE,
           mft.ready > 0, mft' = Counts(mft.work, mft.ready - 1, mft.have),
           call' \in Calls \ {"poll", "output"}
    PROVE  EncoderInvariant'
  <1> USE DEF EncoderInvariant, Shape
  <1>1. Aborted' <=> Aborted
    BY DEF Aborted
  <1>2. /\ mft' \in [async : BOOLEAN, work : Nat, ready : Nat, have : Nat]
        /\ mft'.async = mft.async
        /\ mft'.work = mft.work /\ mft'.ready = mft.ready - 1 /\ mft'.have = mft.have
    <2>1. mft.work \in Nat /\ mft.ready - 1 \in Nat /\ mft.have \in Nat
      OBVIOUS
    <2> QED
      BY <2>1, CountsFacts
  <1>3. Shape' /\ Bounded' /\ Gate' /\ Wait'
    <2>1. Shape'
      BY <1>2
    <2>2. Bounded'
      BY <1>2, EncoderAssumption DEF Bounded
    <2>3. Gate' /\ Wait'
      BY DEF Gate, Wait, WaitsForSomething
    <2> QED
      BY <2>1, <2>2, <2>3
  <1>4. AnnouncedIsReady'
    BY <1>1, <1>2 DEF AnnouncedIsReady, Async, Gate
  <1>5. FullIsAnnounced'
    BY <1>1, <1>2, EncoderAssumption DEF FullIsAnnounced, Async, Bounded
  <1> QED
    BY <1>3, <1>4, <1>5

(* Where a drain ends. *)
LEMMA ExitDrainFacts == ExitDrain => call' \in Calls \ {"poll", "output"}
  BY DEF ExitDrain, Goto, Calls

(* No output: an empty sample was taken, or there was nothing to take. *)
LEMMA InvariantNoOutput == EncoderInvariant /\ NoOutput => EncoderInvariant'
  <1> SUFFICES ASSUME EncoderInvariant, NoOutput PROVE EncoderInvariant'
    OBVIOUS
  <1>1. /\ UNCHANGED <<encoder, aborted>> /\ call = "output" /\ output_pending' = FALSE
        /\ call' \in Calls \ {"poll", "output"}
    BY ExitDrainFacts DEF NoOutput
  <1>2. CASE mft.ready > 0 /\ mft' = Counts(mft.work, mft.ready - 1, mft.have)
    BY <1>1, <1>2, InvariantCollect
  <1>3. CASE mft.ready = 0 /\ (~mft.async \/ Aborted) /\ UNCHANGED mft
    <2>1. (Aborted' <=> Aborted) /\ ~Async'
      BY <1>1, <1>3 DEF Aborted, Async
    <2> QED
      BY <1>1, <1>3, <2>1
      DEF EncoderInvariant, Shape, Bounded, AnnouncedIsReady, FullIsAnnounced, Gate, Wait, WaitsForSomething
  <1> QED
    BY <1>2, <1>3 DEF NoOutput

(* A change of format gives the announcement back. *)
LEMMA InvariantStreamChange == EncoderInvariant /\ StreamChange => EncoderInvariant'
  <1> SUFFICES ASSUME EncoderInvariant, StreamChange PROVE EncoderInvariant'
    OBVIOUS
  <1> USE DEF EncoderInvariant, Shape
  <1>1. /\ UNCHANGED <<encoder, aborted>> /\ (Aborted' <=> Aborted)
        /\ call = "output" /\ output_pending' = FALSE /\ mft.ready > 0
        /\ mft' = Counts(mft.work, mft.ready, Announce)
        /\ call' \in Calls \ {"poll", "output"}
    BY ExitDrainFacts DEF StreamChange, Aborted
  <1>2. Announce \in Nat /\ (mft.async => Announce = mft.have + 1)
    BY AnnounceFacts
  <1>3. /\ mft' \in [async : BOOLEAN, work : Nat, ready : Nat, have : Nat]
        /\ mft'.async = mft.async
        /\ mft'.work = mft.work /\ mft'.ready = mft.ready /\ mft'.have = Announce
    <2>1. mft.work \in Nat /\ mft.ready \in Nat
      OBVIOUS
    <2> QED
      BY <1>1, <1>2, <2>1, CountsFacts
  <1>4. Shape' /\ Bounded' /\ Gate' /\ Wait'
    BY <1>1, <1>3 DEF Bounded, Gate, Wait, WaitsForSomething
  <1>5. AnnouncedIsReady' /\ FullIsAnnounced'
    BY <1>1, <1>2, <1>3 DEF AnnouncedIsReady, FullIsAnnounced, Async, Gate
  <1> QED
    BY <1>4, <1>5

(* An abort empties the transform of this encoder, and nothing is claimed of it
   from then on. *)
LEMMA InvariantAbort ==
    ASSUME EncoderInvariant, NEW e \in Nat, Abort(e)
    PROVE  EncoderInvariant'
  <1> USE DEF EncoderInvariant, Shape
  <1>1. UNCHANGED <<encoder, call, output_pending>> /\ aborted' = aborted \cup {e}
    BY DEF Abort, encodeVars
  <1>2. CASE e = encoder.gen
    <2>1. mft' = Counts(0, 0, 0)
      BY <1>2 DEF Abort, NewMft, Counts
    <2>2. /\ mft' \in [async : BOOLEAN, work : Nat, ready : Nat, have : Nat]
          /\ mft'.async = mft.async
          /\ mft'.work = 0 /\ mft'.ready = 0 /\ mft'.have = 0
      BY <2>1, CountsFacts
    <2>3. Aborted' /\ ~Async'
      BY <1>1, <1>2 DEF Aborted, Async
    <2> QED
      BY <1>1, <2>2, <2>3, EncoderAssumption
      DEF Bounded, AnnouncedIsReady, FullIsAnnounced, Gate, Wait, WaitsForSomething
  <1>3. CASE e # encoder.gen
    <2>1. UNCHANGED mft /\ (Aborted' <=> Aborted)
      BY <1>1, <1>3 DEF Abort, Aborted
    <2> QED
      BY <1>1, <2>1 DEF Bounded, Async, AnnouncedIsReady, FullIsAnnounced, Gate, Wait, WaitsForSomething
  <1> QED
    BY <1>2, <1>3

(* A new encoder has a new transform. *)
LEMMA InvariantNewEncoder ==
    ASSUME EncoderInvariant, NEW size \in Sizes, NewEncoder(size)
    PROVE  EncoderInvariant'
  <1>1. PICK a \in BOOLEAN : mft' = NewMft(a)
    BY DEF NewEncoder
  <1>2. mft' = [async |-> a, work |-> 0, ready |-> 0, have |-> 0]
    BY <1>1, Zenon DEF NewMft, Mft
  <1>3. /\ mft' \in [async : BOOLEAN, work : Nat, ready : Nat, have : Nat]
        /\ mft'.work = 0 /\ mft'.ready = 0 /\ mft'.have = 0
    BY <1>2
  <1>4. encoder' \in [gen : Nat, size : Sizes]
    BY DEF NewEncoder, EncoderInvariant, Shape
  <1>5. call = "none" /\ call' = "none" /\ output_pending' = FALSE
    BY DEF NewEncoder
  <1>6. Shape'
    BY <1>3, <1>4, <1>5 DEF Shape, Calls
  <1>7. Bounded' /\ FullIsAnnounced' /\ AnnouncedIsReady'
    BY <1>3, <1>5, EncoderAssumption DEF Bounded, FullIsAnnounced, AnnouncedIsReady
  <1>8. Gate' /\ Wait'
    BY <1>5 DEF Gate, Wait, WaitsForSomething
  <1> QED
    BY <1>6, <1>7, <1>8 DEF EncoderInvariant

(* Every step keeps the invariant. *)
LEMMA InvariantNext == EncoderInvariant /\ [Next]_encoderVars => EncoderInvariant'
  <1> SUFFICES ASSUME EncoderInvariant, [Next]_encoderVars PROVE EncoderInvariant'
    OBVIOUS
  <1>1. CASE MftProduces
    BY <1>1, InvariantMftProduces
  <1>2. CASE EncodeStep
    <2>1. CASE Convert
      <3>1. UNCHANGED <<encoder, output_pending, mft, aborted>> /\ call' = "input"
        BY <2>1 DEF Convert, Goto
      <3> QED
        BY <3>1, InvariantElsewhere DEF Calls
    <2>2. CASE ProcessInput
      BY <2>2, InvariantProcessInput
    <2>3. CASE OutputEvent
      BY <2>3, InvariantOutputEvent
    <2>4. CASE OutputTimeout \/ EncodeFails
      <3>1. UNCHANGED <<encoder, output_pending, mft, aborted>> /\ call' = "err"
        BY <2>4 DEF OutputTimeout, EncodeFails, Goto
      <3> QED
        BY <3>1, InvariantElsewhere DEF Calls
    <2>5. CASE Drain
      <3>1. Pump /\ UNCHANGED <<encoder, aborted>>
        BY <2>5 DEF Drain
      <3>2. CASE mft.async /\ ~Pumped
        <4>1. call' \in Calls \ {"poll", "output"}
          BY <2>5, <3>2, ExitDrainFacts DEF Drain
        <4> QED
          BY <3>1, <4>1, InvariantPump
      <3>3. CASE ~(mft.async /\ ~Pumped)
        <4>1. call' = "output"
          BY <2>5, <3>3 DEF Drain, Goto
        <4> QED
          BY <3>1, <3>3, <4>1, InvariantPump DEF Calls
      <3> QED
        BY <3>2, <3>3
    <2>6. CASE NoOutput
      BY <2>6, InvariantNoOutput
    <2>7. CASE StreamChange
      BY <2>7, InvariantStreamChange
    <2>8. ASSUME NEW s \in Samples, ProcessOutput(s)
          PROVE  EncoderInvariant'
      <3>1. /\ UNCHANGED <<encoder, aborted>> /\ call = "output" /\ output_pending' = FALSE
            /\ mft.ready > 0 /\ mft' = Counts(mft.work, mft.ready - 1, mft.have)
            /\ call' = "drain"
        BY <2>8 DEF ProcessOutput, Goto
      <3> QED
        BY <3>1, InvariantCollect DEF Calls
    <2> QED
      BY <1>2, <2>1, <2>2, <2>3, <2>4, <2>5, <2>6, <2>7, <2>8 DEF EncodeStep
  <1>3. CASE Return
    <2>1. UNCHANGED <<encoder, output_pending, mft, aborted>> /\ call' = "none"
      BY <1>3 DEF Return
    <2> QED
      BY <2>1, InvariantElsewhere DEF Calls
  <1>4. ASSUME NEW size \in Sizes, NewEncoder(size)
        PROVE  EncoderInvariant'
    BY <1>4, InvariantNewEncoder
  <1>5. ASSUME NEW size \in Sizes, NEW texture \in BOOLEAN, Encode(size, texture)
        PROVE  EncoderInvariant'
    <2>1. UNCHANGED <<encoder, aborted>>
      BY <1>5 DEF Encode
    <2>2. CASE size # encoder.size
      <3>1. call' = "err" /\ UNCHANGED <<output_pending, mft>>
        BY <1>5, <2>2 DEF Encode, Goto
      <3> QED
        BY <2>1, <3>1, InvariantElsewhere DEF Calls
    <2>3. CASE size = encoder.size
      <3>1. Pump /\ call' \in {"convert", "err"}
        BY <1>5, <2>3 DEF Encode, Goto
      <3> QED
        BY <2>1, <3>1, InvariantPump DEF Calls
    <2> QED
      BY <2>2, <2>3
  <1>6. ASSUME NEW e \in 1..encoder.gen, Abort(e)
        PROVE  EncoderInvariant'
    <2>1. e \in Nat
      BY DEF EncoderInvariant, Shape
    <2> QED
      BY <1>6, <2>1, InvariantAbort
  <1>7. CASE UNCHANGED encoderVars
    BY <1>7 DEF encoderVars, encodeVars, EncoderInvariant, Shape, Bounded, Async, Aborted, AnnouncedIsReady,
                FullIsAnnounced, Gate, Wait, WaitsForSomething
  <1> QED
    BY <1>1, <1>2, <1>3, <1>4, <1>5, <1>6, <1>7 DEF Next

-----------------------------------------------------------------------------
(* The inductive invariant of the encoder holds whatever the transform answers
   and whoever aborts it. *)
THEOREM EncoderInvariantHolds == Spec => []EncoderInvariant
  BY InvariantInit, InvariantNext, PTL DEF Spec

(* What EncoderInvariant leaves out of the types. *)
OtherTypes ==
    /\ encoder \in [gen : 0..MaxEncoders, size : Sizes]
    /\ input \in [size : Sizes, texture : BOOLEAN]
    /\ refill \in BOOLEAN
    /\ drained \in BOOLEAN
    /\ encoded \in BOOLEAN
    /\ unit.sample \subseteq Samples
    /\ aborted \subseteq 1..encoder.gen

(* The call before the first. *)
LEMMA OtherTypesInit == EncoderInit => OtherTypes
  <1> SUFFICES ASSUME EncoderInit PROVE OtherTypes
    OBVIOUS
  <1>1. (CHOOSE s \in Sizes : TRUE) \in Sizes
    BY EncoderAssumption
  <1>2. NoEncoder \in [gen : 0..MaxEncoders, size : Sizes]
    BY <1>1, EncoderAssumption DEF NoEncoder
  <1>3. NoInput \in [size : Sizes, texture : BOOLEAN] /\ NoUnit.sample = {}
    BY <1>1 DEF NoInput, NoEncoder, NoUnit
  <1> QED
    BY <1>2, <1>3 DEF EncoderInit, OtherTypes

(* Every step keeps them. *)
LEMMA OtherTypesNext == OtherTypes /\ [Next]_encoderVars => OtherTypes'
  <1> SUFFICES ASSUME OtherTypes, [Next]_encoderVars PROVE OtherTypes'
    OBVIOUS
  <1> USE DEF OtherTypes
  <1>0. NoInput \in [size : Sizes, texture : BOOLEAN] /\ NoUnit.sample = {}
    <2>1. (CHOOSE s \in Sizes : TRUE) \in Sizes
      BY EncoderAssumption
    <2> QED
      BY <2>1 DEF NoInput, NoEncoder, NoUnit
  <1>1. CASE MftProduces \/ UNCHANGED encoderVars
    BY <1>1 DEF MftProduces, encodeVars, encoderVars
  <1>2. CASE Convert \/ OutputEvent \/ OutputTimeout \/ EncodeFails
    BY <1>2 DEF Convert, OutputEvent, OutputTimeout, EncodeFails
  <1>3. CASE ProcessInput
    BY <1>3 DEF ProcessInput
  <1>4. CASE Drain \/ NoOutput \/ StreamChange
    BY <1>0, <1>4 DEF Drain, NoOutput, StreamChange
  <1>5. CASE \E s \in Samples : ProcessOutput(s)
    <2>1. PICK s \in Samples : ProcessOutput(s)
      BY <1>5
    <2>2. unit'.sample = {s}
      BY <2>1 DEF ProcessOutput
    <2> QED
      BY <2>1, <2>2 DEF ProcessOutput
  <1>6. CASE Return
    BY <1>0, <1>6 DEF Return
  <1>7. CASE \E size \in Sizes : NewEncoder(size)
    <2>1. PICK size \in Sizes : NewEncoder(size)
      BY <1>7
    <2>2. encoder' \in [gen : 0..MaxEncoders, size : Sizes] /\ encoder'.gen = encoder.gen + 1
      BY <2>1, EncoderAssumption DEF NewEncoder
    <2>3. aborted' \subseteq 1..encoder'.gen
      <3>1. aborted' = aborted /\ encoder.gen \in Nat
        BY <2>1 DEF NewEncoder
      <3> QED
        BY <2>2, <3>1
    <2>4. UNCHANGED <<input, refill, drained, encoded, unit>>
      BY <2>1 DEF NewEncoder
    <2> QED
      BY <2>2, <2>3, <2>4
  <1>8. CASE \E size \in Sizes, texture \in BOOLEAN : Encode(size, texture)
    <2>1. PICK size \in Sizes, texture \in BOOLEAN : Encode(size, texture)
      BY <1>8
    <2>2. input' = [size |-> size, texture |-> texture]
      BY <2>1 DEF Encode
    <2>3. encoded' = FALSE /\ UNCHANGED <<encoder, refill, drained, unit, aborted>>
      BY <2>1, Zenon DEF Encode
    <2> QED
      BY <2>2, <2>3
  <1>9. CASE \E e \in 1..encoder.gen : Abort(e)
    BY <1>9 DEF Abort, encodeVars
  <1> QED
    BY <1>1, <1>2, <1>3, <1>4, <1>5, <1>6, <1>7, <1>8, <1>9 DEF Next, EncodeStep

(* Types of the encoder and its transform, for transforms of any capacity. *)
THEOREM EncoderTypeCorrect == Spec => []TypeOK
  <1>1. EncoderInvariant /\ OtherTypes => TypeOK
    BY DEF EncoderInvariant, Shape, OtherTypes, TypeOK
  <1> QED
    BY <1>1, EncoderInvariantHolds, OtherTypesInit, OtherTypesNext, PTL DEF Spec

(* drain_available_output asks an asynchronous transform for output only while
   it holds some. *)
THEOREM OutputIsGated == Spec => []OutputOnlyWhenAnnounced
  <1>1. EncoderInvariant => OutputOnlyWhenAnnounced
    BY DEF EncoderInvariant, Shape, Gate, AnnouncedIsReady, Async, OutputOnlyWhenAnnounced
  <1> QED
    BY <1>1, EncoderInvariantHolds, PTL

(* wait_for_output_event waits only for what can come. *)
THEOREM WaitIsNotInVain == Spec => []WaitsForSomething
  <1>1. EncoderInvariant => WaitsForSomething
    BY DEF EncoderInvariant, Wait
  <1> QED
    BY <1>1, EncoderInvariantHolds, PTL

-----------------------------------------------------------------------------
(* The contract of VideoEncoder begins where the encoder begins ... *)
LEMMA ContractInit == EncoderInit => Contract!EncoderInit
  BY DEF EncoderInit, Contract!EncoderInit, NoEncoder, Contract!NoEncoder, NoInput, Contract!NoInput, Working

(* ... and allows every step of it, or sees none. *)
LEMMA ContractNext ==
    Shape /\ [Next]_encoderVars => [Contract!EncoderNext]_Contract!encoderVars
  <1> SUFFICES ASSUME Shape, [Next]_encoderVars
               PROVE  Contract!EncoderNext \/ UNCHANGED Contract!encoderVars
    OBVIOUS
  <1>1. CASE MftProduces \/ UNCHANGED encoderVars
    BY <1>1 DEF MftProduces, encoderVars, encodeVars, Contract!encoderVars
  <1>2. CASE EncodeStep
    <2>1. call \in Working /\ UNCHANGED <<encoder, input, aborted>> /\ call' \in Working \cup {"ok", "err"}
      BY <1>2 DEF EncodeStep, Convert, ProcessInput, OutputEvent, OutputTimeout, Drain, NoOutput, StreamChange,
                  EncodeFails, ProcessOutput, ExitDrain, Goto, Working
    <2>2. encoded' = encoded \/ (encoded' = TRUE /\ call' = "drain")
      BY <1>2 DEF EncodeStep, Convert, ProcessInput, OutputEvent, OutputTimeout, Drain, NoOutput, StreamChange,
                  EncodeFails, ProcessOutput, Goto
    <2>3. CASE encoded' = TRUE /\ call' = "drain"
      <3>1. Contract!Output
        BY <2>1, <2>3 DEF Contract!Output, Working
      <3> QED
        BY <3>1 DEF Contract!EncoderNext
    <2>4. CASE encoded' = encoded /\ call' \in Working
      BY <2>1, <2>4 DEF Contract!encoderVars
    <2>5. CASE encoded' = encoded /\ call' \in {"ok", "err"}
      <3>1. Contract!Finish
        BY <2>1, <2>5 DEF Contract!Finish, Working
      <3> QED
        BY <3>1 DEF Contract!EncoderNext
    <2> QED
      BY <2>1, <2>2, <2>3, <2>4, <2>5
  <1>3. CASE Return
    <2>1. Contract!Return
      BY <1>3 DEF Return, Contract!Return, NoInput, Contract!NoInput, NoEncoder, Contract!NoEncoder, Working
    <2> QED
      BY <2>1 DEF Contract!EncoderNext
  <1>4. ASSUME NEW size \in Sizes, NewEncoder(size)
        PROVE  Contract!EncoderNext
    <2>1. Contract!NewEncoder(size)
      BY <1>4 DEF NewEncoder, Contract!NewEncoder, Working
    <2> QED
      BY <2>1 DEF Contract!EncoderNext
  <1>5. ASSUME NEW size \in Sizes, NEW texture \in BOOLEAN, Encode(size, texture)
        PROVE  Contract!EncoderNext
    <2>1. Contract!Encode(size, texture)
      BY <1>5 DEF Encode, Contract!Encode, Goto, Working
    <2> QED
      BY <2>1 DEF Contract!EncoderNext
  <1>6. ASSUME NEW e \in 1..encoder.gen, Abort(e)
        PROVE  Contract!EncoderNext
    <2>1. Contract!Abort(e)
      BY <1>6 DEF Abort, encodeVars, Contract!Abort, Working
    <2> QED
      BY <2>1 DEF Contract!EncoderNext
  <1> QED
    BY <1>1, <1>2, <1>3, <1>4, <1>5, <1>6 DEF Next

(* MfH264Encoder implements what the video worker relies on. *)
THEOREM EncoderImplementsContract == Spec => ImplementsVideoEncoder
  <1>1. EncoderInvariant => Shape
    BY DEF EncoderInvariant
  <1> QED
    BY <1>1, EncoderInvariantHolds, ContractInit, ContractNext, PTL
    DEF Spec, ImplementsVideoEncoder, Contract!EncoderSpec

-----------------------------------------------------------------------------
(* Induction and recursion over the offsets of a payload. *)

(* A set of numbers has a least one. *)
LEMMA LeastElement ==
    ASSUME NEW T \in SUBSET Nat, T # {}
    PROVE  \E m \in T : \A k \in T : m <= k
  <1>1. PICK m \in T : \A k \in T : ~(<<k, m>> \in OpToRel(<, Nat))
    BY NatLessThanWellFounded, WFMin
  <1>2. \A k \in T : ~(k < m)
    BY <1>1 DEF OpToRel
  <1> QED
    BY <1>2

(* Induction, for a set of numbers. *)
LEMMA SetInduction ==
    ASSUME NEW S, 0 \in S, \A n \in Nat : n \in S => n + 1 \in S
    PROVE  \A n \in Nat : n \in S
  <1> DEFINE T == {n \in Nat : n \notin S}
  <1>1. CASE T = {}
    BY <1>1
  <1>2. CASE T # {}
    <2>1. PICK m \in T : \A k \in T : m <= k
      BY <1>2, LeastElement
    <2>2. m \in Nat /\ m # 0 /\ m - 1 \in Nat /\ m - 1 \notin T
      BY <2>1
    <2>3. m - 1 \in S /\ (m - 1) + 1 = m
      BY <2>2
    <2> QED
      BY <2>1, <2>2, <2>3
  <1> QED
    BY <1>1, <1>2

(* Induction from a bound down to 0. *)
LEMMA DownInduction ==
    ASSUME NEW S, NEW n \in Nat, n \in S, \A o \in 0..(n - 1) : o + 1 \in S => o \in S
    PROVE  \A o \in 0..n : o \in S
  <1> DEFINE T == {k \in Nat : k <= n => n - k \in S}
  <1>1. 0 \in T
    OBVIOUS
  <1>2. ASSUME NEW k \in Nat, k \in T PROVE k + 1 \in T
    <2>1. CASE k + 1 <= n
      <3>1. n - k \in S /\ n - (k + 1) \in 0..(n - 1) /\ (n - (k + 1)) + 1 = n - k
        BY <1>2, <2>1
      <3> QED
        BY <3>1
    <2> QED
      BY <2>1
  <1> HIDE DEF T
  <1>3. \A k \in Nat : k \in T
    BY <1>1, <1>2, SetInduction
  <1>4. ASSUME NEW o \in 0..n PROVE o \in S
    <2>1. n - o \in Nat /\ n - (n - o) = o
      OBVIOUS
    <2> QED
      BY <1>3, <2>1 DEF T
  <1> QED
    BY <1>4

(* A function whose values come from those at smaller arguments exists ... *)
RunsUp(n, V, v, step) ==
    \E g \in [0..n -> V] : \A i \in 0..n : g[i] = IF i = 0 THEN v ELSE step[<<g[i - 1], i>>]

(* A function on 0..n whose value follows from the one before exists. *)
LEMMA UpRecursion ==
    ASSUME NEW n \in Nat, NEW V, NEW v \in V, NEW step \in [V \X (1..n) -> V]
    PROVE  RunsUp(n, V, v, step)
  <1> DEFINE Solves(g, k) ==
                 \A i \in 0..n : i <= k => g[i] = IF i = 0 THEN v ELSE step[<<g[i - 1], i>>]
             T == {k \in Nat : \E g \in [0..n -> V] : Solves(g, k)}
  <1>1. 0 \in T
    <2> DEFINE g == [i \in 0..n |-> v]
    <2>1. g \in [0..n -> V] /\ Solves(g, 0)
      OBVIOUS
    <2> HIDE DEF g, Solves
    <2> QED
      BY <2>1
  <1>2. ASSUME NEW k \in Nat, k \in T PROVE k + 1 \in T
    <2>1. PICK g \in [0..n -> V] : Solves(g, k)
      BY <1>2
    <2>2. CASE k + 1 > n
      <3>1. Solves(g, k + 1)
        BY <2>1, <2>2
      <3> HIDE DEF Solves
      <3> QED
        BY <3>1
    <2>3. CASE k + 1 <= n
      <3> DEFINE w == step[<<g[k], k + 1>>]
                 h == [g EXCEPT ![k + 1] = w]
      <3>1. k + 1 \in 1..n /\ k \in 0..n
        BY <2>3
      <3>2. w \in V
        BY <3>1
      <3> HIDE DEF w
      <3>3. h \in [0..n -> V]
        BY <3>2
      <3>4. ASSUME NEW i \in 0..n, i <= k + 1
            PROVE  h[i] = IF i = 0 THEN v ELSE step[<<h[i - 1], i>>]
        <4>1. CASE i = k + 1
          <5>1. h[i] = w /\ i - 1 = k /\ h[k] = g[k] /\ i # 0
            BY <3>1, <4>1
          <5> QED
            BY <4>1, <5>1 DEF w
        <4>2. CASE i <= k
          <5>1. h[i] = g[i] /\ (i # 0 => h[i - 1] = g[i - 1])
            BY <4>2
          <5> QED
            BY <2>1, <4>2, <5>1
        <4> QED
          BY <3>4, <4>1, <4>2
      <3>5. Solves(h, k + 1)
        BY <3>4
      <3> HIDE DEF h, Solves
      <3> QED
        BY <3>3, <3>5
    <2> QED
      BY <2>2, <2>3
  <1>3. n \in T
    <2> HIDE DEF T
    <2> QED
      BY <1>1, <1>2, SetInduction
  <1>4. PICK g \in [0..n -> V] : Solves(g, n)
    <2> HIDE DEF Solves
    <2> QED
      BY <1>3
  <1> QED
    BY <1>4 DEF RunsUp

(* ... and so does one whose values come from those at larger arguments. *)
RunsDown(n, V, step) ==
    \E g \in [0..n -> V] : \A o \in 0..n : g[o] = step[<<o, g>>]

(* A function on 0..n whose value follows from those behind exists. *)
LEMMA DownRecursion ==
    ASSUME NEW n \in Nat, NEW V, V # {}, NEW step \in [(0..n) \X [0..n -> V] -> V],
           \A o \in 0..n : \A g, h \in [0..n -> V] :
               (\A j \in 0..n : j > o => g[j] = h[j]) => step[<<o, g>>] = step[<<o, h>>]
    PROVE  RunsDown(n, V, step)
  <1> DEFINE Solves(g, k) == \A o \in 0..n : o >= k => g[o] = step[<<o, g>>]
             S == {k \in 0..(n + 1) : \E g \in [0..n -> V] : Solves(g, k)}
  <1>1. n + 1 \in S
    <2>1. PICK v : v \in V
      OBVIOUS
    <2> DEFINE g == [o \in 0..n |-> v]
    <2>2. g \in [0..n -> V] /\ Solves(g, n + 1)
      BY <2>1
    <2> HIDE DEF g, Solves
    <2> QED
      BY <2>2
  <1>2. ASSUME NEW k \in 0..n, k + 1 \in S PROVE k \in S
    <2>1. PICK g \in [0..n -> V] : Solves(g, k + 1)
      BY <1>2
    <2> DEFINE w == step[<<k, g>>]
               h == [g EXCEPT ![k] = w]
    <2>2. w \in V
      OBVIOUS
    <2> HIDE DEF w
    <2>3. h \in [0..n -> V]
      BY <2>2
    <2>4. ASSUME NEW o \in 0..n, o >= k PROVE h[o] = step[<<o, h>>]
      <3>1. \A j \in 0..n : j > o => g[j] = h[j]
        BY <2>4
      <3>2. step[<<o, g>>] = step[<<o, h>>]
        BY <2>3, <3>1
      <3>3. CASE o = k
        BY <3>2, <3>3 DEF w
      <3>4. CASE o # k
        <4>1. o >= k + 1 /\ h[o] = g[o]
          BY <2>4, <3>4
        <4>2. g[o] = step[<<o, g>>]
          BY <2>1, <4>1
        <4> QED
          BY <3>2, <4>1, <4>2
      <3> QED
        BY <3>3, <3>4
    <2>5. Solves(h, k)
      <3> HIDE DEF h
      <3> QED
        BY <2>4
    <2> HIDE DEF h, Solves
    <2> QED
      BY <2>3, <2>5
  <1>3. 0 \in S
    <2> HIDE DEF S
    <2>1. \A k \in 0..((n + 1) - 1) : k + 1 \in S => k \in S
      BY <1>2
    <2> QED
      BY <1>1, <2>1, DownInduction
  <1>4. PICK g \in [0..n -> V] : Solves(g, 0)
    <2> HIDE DEF Solves
    <2> QED
      BY <1>3
  <1> QED
    BY <1>4 DEF RunsDown

-----------------------------------------------------------------------------
(* FlattenSeq, part by part. *)

(* The recursion of FlattenSeq. *)
Flattens(g, s) == g = [i \in 1..Len(s) |-> IF i = 1 THEN s[i] ELSE g[i - 1] \o s[i]]

(* FlattenSeq is the last of the running concatenations. *)
LEMMA FlattenUnfold ==
    ASSUME NEW V, NEW s \in Seq(Seq(V)), s # <<>>
    PROVE  \E g \in [1..Len(s) -> Seq(V)] : Flattens(g, s) /\ FlattenSeq(s) = g[Len(s)]
  <1> DEFINE n == Len(s)
             step == [p \in Seq(V) \X (1..n) |-> p[1] \o s[p[2]]]
  <1>1. n \in Nat /\ n # 0 /\ <<>> \in Seq(V)
    OBVIOUS
  <1>2. ASSUME NEW t \in Seq(V), NEW i \in 1..n
        PROVE  step[<<t, i>>] = t \o s[i] /\ t \o s[i] \in Seq(V)
    <2>1. s[i] \in Seq(V)
      OBVIOUS
    <2>2. <<t, i>> \in Seq(V) \X (1..n)
      OBVIOUS
    <2>3. step[<<t, i>>] = t \o s[i]
      BY <2>2
    <2> QED
      BY <2>1, <2>3, ConcatProperties
  <1>3. step \in [Seq(V) \X (1..n) -> Seq(V)]
    <2>1. ASSUME NEW p \in Seq(V) \X (1..n) PROVE p[1] \o s[p[2]] \in Seq(V)
      <3>1. p[1] \in Seq(V) /\ p[2] \in 1..n /\ s[p[2]] \in Seq(V)
        OBVIOUS
      <3> QED
        BY <3>1, ConcatProperties
    <2> QED
      BY <2>1
  <1> DEFINE none == <<>>
  <1> HIDE DEF step, none
  <1>4. PICK f \in [0..n -> Seq(V)] :
            \A i \in 0..n : f[i] = IF i = 0 THEN none ELSE step[<<f[i - 1], i>>]
    <2> HIDE DEF n
    <2>1. RunsUp(n, Seq(V), none, step)
      BY <1>1, <1>3, UpRecursion DEF none
    <2> QED
      BY <2>1 DEF RunsUp
  <1>5. f[0] = none
    <2> HIDE DEF n
    <2>1. 0 \in 0..n
      BY <1>1
    <2> QED
      BY <1>4, <2>1, Zenon
  <1> DEFINE g == [i \in 1..n |-> f[i]]
  <1>6. g \in [1..n -> Seq(V)]
    OBVIOUS
  <1>7. ASSUME NEW i \in 1..n PROVE g[i] = IF i = 1 THEN s[i] ELSE g[i - 1] \o s[i]
    <2>1. i \in 0..n /\ i - 1 \in 0..n /\ i # 0 /\ g[i] = f[i] /\ f[i - 1] \in Seq(V) /\ s[i] \in Seq(V)
      BY <1>1
    <2>2. f[i] = f[i - 1] \o s[i]
      BY <1>2, <1>4, <2>1
    <2>3. CASE i = 1
      <3>1. f[0] = none /\ i - 1 = 0
        BY <1>5, <2>3
      <3> QED
        BY <2>1, <2>2, <2>3, <3>1, ConcatEmptySeq DEF none
    <2>4. CASE i # 1
      <3>1. g[i - 1] = f[i - 1]
        BY <2>4
      <3> QED
        BY <2>1, <2>2, <2>4, <3>1
    <2> QED
      BY <2>3, <2>4
  <1>8. Flattens(g, s)
    <2> HIDE DEF g
    <2>1. g = [i \in 1..n |-> g[i]]
      BY <1>6
    <2> QED
      BY <1>7, <2>1 DEF Flattens
  <1> DEFINE G == CHOOSE h : Flattens(h, s)
  <1>9. Flattens(G, s)
    BY <1>8
  <1>10. FlattenSeq(s) = G[n]
    BY <1>1 DEF FlattenSeq, Flattens
  <1>11. G \in [1..n -> Seq(V)]
    <2> HIDE DEF G, g
    <2> DEFINE T == {k \in Nat : k + 1 <= n => G[k + 1] = g[k + 1]}
    <2>1. \A i \in 1..n : G[i] = IF i = 1 THEN s[i] ELSE G[i - 1] \o s[i]
      BY <1>9 DEF Flattens
    <2>2. 0 \in T
      BY <1>1, <1>7, <2>1
    <2>3. ASSUME NEW k \in Nat, k \in T PROVE k + 1 \in T
      <3>1. CASE k + 2 <= n
        <4>1. k + 2 \in 1..n /\ k + 2 # 1 /\ (k + 2) - 1 = k + 1 /\ G[k + 1] = g[k + 1]
          BY <2>3, <3>1
        <4>2. G[k + 2] = G[k + 1] \o s[k + 2] /\ g[k + 2] = g[k + 1] \o s[k + 2]
          BY <1>7, <2>1, <4>1
        <4>3. G[k + 2] = g[k + 2] /\ (k + 1) + 1 = k + 2
          BY <4>1, <4>2
        <4> QED
          BY <4>3
      <3> QED
        BY <3>1
    <2>4. \A k \in Nat : k \in T
      <3> HIDE DEF T
      <3> QED
        BY <2>2, <2>3, SetInduction
    <2>5. ASSUME NEW i \in 1..n PROVE G[i] = g[i]
      <3>1. i - 1 \in Nat /\ (i - 1) + 1 = i /\ i <= n
        OBVIOUS
      <3> QED
        BY <2>4, <3>1
    <2>6. G = [i \in 1..n |-> G[i]]
      BY <1>9 DEF Flattens
    <2> QED
      BY <1>6, <2>5, <2>6
  <1> QED
    BY <1>9, <1>10, <1>11

(* Where the parts of a flattened sequence are: part i is behind offset at[i - 1]. *)
Laid(F, s, at) ==
    /\ at \in [0..Len(s) -> Nat]
    /\ at[0] = 0
    /\ at[Len(s)] = Len(F)
    /\ \A i \in 1..Len(s) : /\ at[i] = at[i - 1] + Len(s[i])
                            /\ \A j \in 1..Len(s[i]) : F[at[i - 1] + j] = s[i][j]

(* A sequence of sequences, kept opaque. *)
Parts(s, V) == s \in Seq(Seq(V))

(* The parts are sequences. *)
LEMMA PartsFacts ==
    ASSUME NEW V, NEW s, Parts(s, V)
    PROVE  /\ Len(s) \in Nat
           /\ \A i \in 1..Len(s) : s[i] \in Seq(V) /\ Len(s[i]) \in Nat
  BY DEF Parts

(* The running concatenations g, with their lengths. *)
Accumulates(g, s, at) ==
    /\ at \in [0..Len(s) -> Nat]
    /\ at[0] = 0
    /\ \A i \in 1..Len(s) :
          /\ at[i] = at[i - 1] + Len(s[i])
          /\ \A p \in 1..at[i] : g[i][p] = IF p <= at[i - 1] THEN g[i - 1][p] ELSE s[i][p - at[i - 1]]

(* FlattenSeq accumulates its parts. *)
LEMMA FlattenSteps ==
    ASSUME NEW V, NEW s, Parts(s, V), s # <<>>
    PROVE  \E g, at :
              /\ Accumulates(g, s, at)
              /\ at[Len(s)] = Len(g[Len(s)])
              /\ FlattenSeq(s) = g[Len(s)]
              /\ FlattenSeq(s) \in Seq(V)
  <1> DEFINE n == Len(s)
  <1>1. n \in Nat /\ n # 0 /\ \A i \in 1..n : s[i] \in Seq(V) /\ Len(s[i]) \in Nat
    BY DEF Parts
  <1>2. PICK g : g \in [1..n -> Seq(V)] /\ Flattens(g, s) /\ FlattenSeq(s) = g[n]
    BY FlattenUnfold DEF Parts
  <1>3. /\ \A i \in 1..n : g[i] = IF i = 1 THEN s[i] ELSE g[i - 1] \o s[i]
        /\ \A i \in 1..n : g[i] \in Seq(V) /\ Len(g[i]) \in Nat
    <2>1. ASSUME NEW i \in 1..n PROVE g[i] \in Seq(V) /\ Len(g[i]) \in Nat
      <3>1. g[i] \in Seq(V)
        BY <1>2
      <3> QED
        BY <3>1
    <2> DEFINE h == [i \in 1..n |-> IF i = 1 THEN s[i] ELSE g[i - 1] \o s[i]]
    <2>2. \A i \in 1..n : h[i] = IF i = 1 THEN s[i] ELSE g[i - 1] \o s[i]
      OBVIOUS
    <2>3. g = h
      BY <1>2 DEF Flattens
    <2> HIDE DEF h
    <2> QED
      BY <2>1, <2>2, <2>3
  <1> HIDE DEF n
  <1> DEFINE at == [i \in 0..n |-> IF i = 0 THEN 0 ELSE Len(g[i])]
  <1>4. at \in [0..n -> Nat] /\ at[0] = 0 /\ \A i \in 1..n : at[i] = Len(g[i]) /\ at[i] \in Nat
    BY <1>1, <1>3
  <1> HIDE DEF at
  <1>5. ASSUME NEW i \in 1..n
        PROVE  /\ at[i] = at[i - 1] + Len(s[i])
               /\ \A p \in 1..at[i] : g[i][p] = IF p <= at[i - 1] THEN g[i - 1][p] ELSE s[i][p - at[i - 1]]
    <2>1. g[i] \in Seq(V) /\ s[i] \in Seq(V) /\ at[i] = Len(g[i])
      BY <1>1, <1>3, <1>4
    <2>2. CASE i = 1
      <3>1. g[1] = s[1] /\ at[i - 1] = 0
        BY <1>1, <1>3, <1>4, <2>2
      <3> QED
        BY <2>1, <2>2, <3>1
    <2>3. CASE i # 1
      <3>1. i - 1 \in 1..n
        BY <1>1, <2>3
      <3>2. g[i - 1] \in Seq(V) /\ at[i - 1] = Len(g[i - 1])
        BY <1>3, <1>4, <3>1
      <3>3. g[i] = g[i - 1] \o s[i]
        BY <1>3, <2>3
      <3> DEFINE a == g[i - 1]
                 b == s[i]
      <3>4. a \in Seq(V) /\ b \in Seq(V) /\ g[i] = a \o b /\ at[i - 1] = Len(a) /\ at[i] = Len(a \o b)
        BY <2>1, <3>2, <3>3
      <3> HIDE DEF a, b
      <3>5. /\ at[i] = at[i - 1] + Len(b)
            /\ \A p \in 1..at[i] : g[i][p] = IF p <= at[i - 1] THEN a[p] ELSE b[p - at[i - 1]]
        BY <3>4
      <3> QED
        BY <3>5 DEF a, b
    <2> QED
      BY <2>2, <2>3
  <1>6. at[n] = Len(g[n]) /\ g[n] \in Seq(V)
    BY <1>1, <1>3, <1>4
  <1>7. Accumulates(g, s, at)
    BY <1>4, <1>5 DEF Accumulates, n
  <1> QED
    BY <1>2, <1>6, <1>7 DEF n

(* Values that are appended stay where they are. *)
LEMMA Stays ==
    ASSUME NEW g, NEW s, NEW at, Len(s) \in Nat,
           \A i \in 1..Len(s) : Len(s[i]) \in Nat,
           Accumulates(g, s, at)
    PROVE  \A i \in 1..Len(s) : \A j \in 1..Len(s[i]) : g[Len(s)][at[i - 1] + j] = s[i][j]
  <1> DEFINE n == Len(s)
  <1>1. /\ n \in Nat
        /\ at \in [0..n -> Nat]
        /\ \A i \in 1..n : Len(s[i]) \in Nat
        /\ \A i \in 1..n :
             /\ at[i] = at[i - 1] + Len(s[i])
             /\ \A p \in 1..at[i] : g[i][p] = IF p <= at[i - 1] THEN g[i - 1][p] ELSE s[i][p - at[i - 1]]
    BY DEF Accumulates
  <1> HIDE DEF n
  <1> DEFINE Kept(k) == \A i \in 1..k : at[i] <= at[k] /\
                            \A j \in 1..Len(s[i]) : g[k][at[i - 1] + j] = s[i][j]
             T == {k \in Nat : k \in 1..n => Kept(k)}
  <1>2. 0 \in T
    OBVIOUS
  <1>3. ASSUME NEW k \in Nat, k \in T PROVE k + 1 \in T
    <2> SUFFICES ASSUME k + 1 \in 1..n, NEW i \in 1..(k + 1)
                 PROVE  /\ at[i] <= at[k + 1]
                        /\ \A j \in 1..Len(s[i]) : g[k + 1][at[i - 1] + j] = s[i][j]
      OBVIOUS
    <2>1. /\ at[k + 1] = at[k] + Len(s[k + 1])
          /\ \A p \in 1..at[k + 1] : g[k + 1][p] = IF p <= at[k] THEN g[k][p] ELSE s[k + 1][p - at[k]]
      BY <1>1
    <2>2. at[k] \in Nat /\ at[k + 1] \in Nat /\ at[i] \in Nat /\ at[i - 1] \in Nat
      BY <1>1
    <2>3. Len(s[i]) \in Nat /\ Len(s[k + 1]) \in Nat /\ at[i] = at[i - 1] + Len(s[i])
      BY <1>1
    <2>4. CASE i = k + 1
      <3>1. ASSUME NEW j \in 1..Len(s[i]) PROVE g[k + 1][at[i - 1] + j] = s[i][j]
        <4>1. at[k] + j \in 1..at[k + 1] /\ ~(at[k] + j <= at[k]) /\ (at[k] + j) - at[k] = j /\ i - 1 = k
          BY <2>1, <2>2, <2>3, <2>4
        <4> QED
          BY <2>1, <2>4, <4>1
      <3> QED
        BY <2>2, <2>4, <3>1
    <2>5. CASE i # k + 1
      <3>1. k \in 1..n /\ i \in 1..k
        BY <1>1, <2>5
      <3>2. at[i] <= at[k] /\ \A j \in 1..Len(s[i]) : g[k][at[i - 1] + j] = s[i][j]
        BY <1>3, <3>1
      <3>3. ASSUME NEW j \in 1..Len(s[i]) PROVE g[k + 1][at[i - 1] + j] = s[i][j]
        <4>1. j \in Nat /\ j >= 1 /\ j <= Len(s[i])
          BY <2>3
        <4>2. at[k] <= at[k + 1]
          BY <2>1, <2>2, <2>3
        <4> DEFINE p == at[i - 1] + j
        <4>3. p \in Nat /\ p >= 1 /\ p <= at[i]
          BY <2>2, <2>3, <4>1
        <4>4. p <= at[k] /\ g[k][p] = s[i][j]
          BY <2>2, <3>2, <4>3
        <4> HIDE DEF p
        <4>5. p \in 1..at[k + 1]
          BY <2>2, <4>2, <4>3, <4>4
        <4>6. g[k + 1][p] = s[i][j]
          BY <2>1, <4>4, <4>5
        <4> QED
          BY <4>6 DEF p
      <3> QED
        BY <2>1, <2>2, <2>3, <3>2, <3>3
    <2> QED
      BY <2>4, <2>5
  <1>4. n \in T
    <2> HIDE DEF T
    <2> QED
      BY <1>1, <1>2, <1>3, SetInduction
  <1> QED
    BY <1>1, <1>4 DEF n

(* Parts that are concatenated lie one behind the other. *)
LEMMA FlattenLayout ==
    ASSUME NEW V, NEW s, Parts(s, V)
    PROVE  FlattenSeq(s) \in Seq(V) /\ \E at : Laid(FlattenSeq(s), s, at)
  <1>1. CASE s = <<>>
    <2> DEFINE at == [i \in 0..0 |-> 0]
    <2>1. FlattenSeq(s) = <<>> /\ Len(s) = 0
      BY <1>1 DEF FlattenSeq
    <2>2. at \in [0..0 -> Nat] /\ at[0] = 0 /\ Len(<<>>) = 0
      OBVIOUS
    <2> HIDE DEF at
    <2>3. Laid(<<>>, s, at)
      BY <2>1, <2>2 DEF Laid
    <2> QED
      BY <2>1, <2>3
  <1>2. CASE s # <<>>
    <2>1. PICK g, at :
              /\ Accumulates(g, s, at)
              /\ at[Len(s)] = Len(g[Len(s)])
              /\ FlattenSeq(s) = g[Len(s)]
              /\ FlattenSeq(s) \in Seq(V)
      BY <1>2, FlattenSteps
    <2>2. Len(s) \in Nat /\ \A i \in 1..Len(s) : Len(s[i]) \in Nat
      BY PartsFacts
    <2>3. \A i \in 1..Len(s) : \A j \in 1..Len(s[i]) : g[Len(s)][at[i - 1] + j] = s[i][j]
      BY <2>1, <2>2, Stays
    <2>4. Laid(FlattenSeq(s), s, at)
      BY <2>1, <2>3 DEF Laid, Accumulates
    <2> QED
      BY <2>1, <2>4
  <1> QED
    BY <1>1, <1>2

(* Offsets grow, and every position is in a part. *)
LEMMA LaidFacts ==
    ASSUME NEW V, NEW s, Parts(s, V), NEW F \in Seq(V), NEW at, Laid(F, s, at)
    PROVE  /\ Len(s) \in Nat /\ Len(F) \in Nat
           /\ \A i \in 0..Len(s) : at[i] \in 0..Len(F)
           /\ \A k \in 0..Len(s) : \A i \in 0..k : at[i] <= at[k]
           /\ \A p \in 1..Len(F) : \E i \in 1..Len(s) : at[i - 1] < p /\ p <= at[i]
  <1> DEFINE n == Len(s)
  <1>1. n \in Nat /\ Len(F) \in Nat /\ \A i \in 1..n : Len(s[i]) \in Nat
    BY PartsFacts
  <1> HIDE DEF n
  <1>2. /\ at \in [0..n -> Nat] /\ at[0] = 0 /\ at[n] = Len(F)
        /\ \A i \in 1..n : at[i] = at[i - 1] + Len(s[i])
    BY DEF Laid, n
  <1>3. \A k \in 0..n : \A i \in 0..k : at[i] <= at[k]
    <2> DEFINE T == {k \in Nat : k \in 0..n => \A i \in 0..k : at[i] <= at[k]}
    <2>1. 0 \in T
      BY <1>1, <1>2
    <2>2. ASSUME NEW k \in Nat, k \in T PROVE k + 1 \in T
      <3> SUFFICES ASSUME k + 1 \in 0..n, NEW i \in 0..(k + 1) PROVE at[i] <= at[k + 1]
        OBVIOUS
      <3>1. k + 1 \in 1..n /\ k \in 0..n /\ i \in 0..n
        BY <1>1
      <3>2. at[k + 1] = at[k] + Len(s[k + 1]) /\ Len(s[k + 1]) \in Nat /\ at[k] \in Nat /\ at[i] \in Nat
        BY <1>1, <1>2, <3>1
      <3>3. CASE i = k + 1
        BY <3>2, <3>3
      <3>4. CASE i # k + 1
        <4>1. i \in 0..k
          BY <3>4
        <4>2. at[i] <= at[k]
          BY <2>2, <3>1, <4>1
        <4> QED
          BY <3>2, <4>2
      <3> QED
        BY <3>3, <3>4
    <2> HIDE DEF T
    <2>3. \A k \in Nat : k \in T
      BY <2>1, <2>2, SetInduction
    <2> QED
      BY <2>3 DEF T
  <1>4. \A i \in 0..n : at[i] \in 0..Len(F)
    BY <1>1, <1>2, <1>3
  <1>5. ASSUME NEW p \in 1..Len(F)
        PROVE  \E i \in 1..n : at[i - 1] < p /\ p <= at[i]
    <2> DEFINE T == {k \in 0..n : p <= at[k]}
    <2>1. T \in SUBSET Nat /\ n \in T
      BY <1>1, <1>2
    <2>2. PICK i \in T : \A k \in T : i <= k
      BY <2>1, LeastElement
    <2>3. i \in 1..n
      BY <1>2, <2>2
    <2>4. i - 1 \in 0..n /\ i - 1 \notin T
      BY <1>1, <2>2, <2>3
    <2>5. at[i - 1] < p /\ p <= at[i]
      BY <1>2, <2>2, <2>4
    <2> QED
      BY <2>3, <2>5
  <1> QED
    BY <1>1, <1>3, <1>4, <1>5 DEF n

(* Two sequences behind each other: the parts of both, in order. *)
LEMMA LaidConcat ==
    ASSUME NEW V, NEW s, NEW t, Parts(s, V), Parts(t, V),
           NEW F, NEW G, F \in Seq(V), G \in Seq(V), NEW at, NEW bt, Laid(F, s, at), Laid(G, t, bt)
    PROVE  Parts(s \o t, V) /\ \E ct : Laid(F \o G, s \o t, ct)
  <1> DEFINE m == Len(s)
             n == Len(t)
             lf == Len(F)
             lg == Len(G)
             ct == [i \in 0..(m + n) |-> IF i <= m THEN at[i] ELSE lf + bt[i - m]]
             st == s \o t
             FG == F \o G
  <1>1. m \in Nat /\ n \in Nat /\ lf \in Nat /\ lg \in Nat
    <2>1. m \in Nat /\ n \in Nat
      BY PartsFacts
    <2>2. lf \in Nat /\ lg \in Nat
      BY LenProperties
    <2> QED
      BY <2>1, <2>2
  <1>2. /\ Parts(st, V) /\ Len(st) = m + n
        /\ \A i \in 1..(m + n) : st[i] = IF i <= m THEN s[i] ELSE t[i - m]
    BY DEF Parts
  <1>3. /\ Len(FG) = lf + lg
        /\ \A p \in 1..(lf + lg) : FG[p] = IF p <= lf THEN F[p] ELSE G[p - lf]
    BY ConcatProperties
  <1>4. /\ at \in [0..m -> Nat] /\ at[0] = 0 /\ at[m] = lf
        /\ \A i \in 1..m : /\ at[i] = at[i - 1] + Len(s[i])
                           /\ \A j \in 1..Len(s[i]) : F[at[i - 1] + j] = s[i][j]
        /\ \A i \in 0..m : at[i] \in 0..lf
    <2>1. \A i \in 0..m : at[i] \in 0..lf
      BY LaidFacts
    <2> QED
      BY <2>1 DEF Laid
  <1>5. /\ bt \in [0..n -> Nat] /\ bt[0] = 0 /\ bt[n] = lg
        /\ \A i \in 1..n : /\ bt[i] = bt[i - 1] + Len(t[i])
                           /\ \A j \in 1..Len(t[i]) : G[bt[i - 1] + j] = t[i][j]
        /\ \A i \in 0..n : bt[i] \in 0..lg
    <2>1. \A i \in 0..n : bt[i] \in 0..lg
      BY LaidFacts
    <2> QED
      BY <2>1 DEF Laid
  <1>6. (\A i \in 1..m : Len(s[i]) \in Nat) /\ (\A i \in 1..n : Len(t[i]) \in Nat)
    BY PartsFacts
  <1> HIDE DEF m, n, lf, lg, st, FG
  <1>7. /\ ct \in [0..(m + n) -> Nat]
        /\ \A i \in 0..m : ct[i] = at[i]
        /\ \A i \in 0..n : ct[m + i] = lf + bt[i]
    <2>1. ASSUME NEW i \in 0..(m + n) PROVE (IF i <= m THEN at[i] ELSE lf + bt[i - m]) \in Nat
      BY <1>1, <1>4, <1>5
    <2>2. ASSUME NEW i \in 0..n PROVE ct[m + i] = lf + bt[i]
      <3>1. m + i \in 0..(m + n) /\ (m + i) - m = i
        BY <1>1
      <3>2. CASE i = 0
        BY <1>1, <1>4, <1>5, <3>1, <3>2
      <3>3. CASE i # 0
        BY <1>1, <3>1, <3>3
      <3> QED
        BY <3>2, <3>3
    <2>3. \A i \in 0..m : ct[i] = at[i]
      BY <1>1
    <2> QED
      BY <2>1, <2>2, <2>3
  <1> HIDE DEF ct
  <1>8. ASSUME NEW i \in 1..(m + n)
        PROVE  /\ ct[i] = ct[i - 1] + Len(st[i])
               /\ \A j \in 1..Len(st[i]) : FG[ct[i - 1] + j] = st[i][j]
    <2>1. CASE i <= m
      <3>1. i \in 1..m /\ i - 1 \in 0..m /\ i \in 0..m
        BY <1>1, <2>1
      <3>2. st[i] = s[i] /\ ct[i] = at[i] /\ ct[i - 1] = at[i - 1] /\ at[i] = at[i - 1] + Len(s[i])
        BY <1>2, <1>4, <1>7, <2>1, <3>1
      <3>3. at[i] \in 0..lf /\ at[i - 1] \in 0..lf /\ Len(s[i]) \in Nat
        BY <1>4, <1>6, <3>1
      <3>4. ASSUME NEW j \in 1..Len(s[i]) PROVE FG[at[i - 1] + j] = s[i][j]
        <4> DEFINE p == at[i - 1] + j
        <4>1. F[p] = s[i][j]
          BY <1>4, <3>1
        <4>2. p \in 1..(lf + lg) /\ p <= lf
          BY <1>1, <3>2, <3>3
        <4> HIDE DEF p
        <4>3. FG[p] = F[p]
          BY <1>3, <4>2
        <4> QED
          BY <4>1, <4>3 DEF p
      <3> QED
        BY <3>2, <3>4
    <2>2. CASE i > m
      <3> DEFINE k == i - m
      <3>1. k \in 1..n /\ k - 1 \in 0..n /\ k \in 0..n /\ i = m + k /\ i - 1 = m + (k - 1) /\ ~(i <= m)
        BY <1>1, <2>2
      <3>2. st[i] = t[k]
        BY <1>2, <3>1
      <3> HIDE DEF k
      <3>3. ct[i] = lf + bt[k] /\ ct[i - 1] = lf + bt[k - 1] /\ bt[k] = bt[k - 1] + Len(t[k])
        BY <1>5, <1>7, <3>1
      <3>4. bt[k] \in 0..lg /\ bt[k - 1] \in 0..lg /\ Len(t[k]) \in Nat
        BY <1>5, <1>6, <3>1
      <3>5. ASSUME NEW j \in 1..Len(t[k]) PROVE FG[(lf + bt[k - 1]) + j] = t[k][j]
        <4> DEFINE p == (lf + bt[k - 1]) + j
                   q == bt[k - 1] + j
        <4>1. G[q] = t[k][j]
          BY <1>5, <3>1
        <4>2. p \in 1..(lf + lg) /\ ~(p <= lf) /\ p - lf = q
          <5> DEFINE x == bt[k - 1]
                     l == Len(t[k])
          <5>1. x \in Nat /\ l \in Nat /\ x + l <= lg /\ j \in 1..l
            BY <1>1, <3>3, <3>4
          <5> HIDE DEF x, l
          <5>2. ((lf + x) + j) \in 1..(lf + lg) /\ ~((lf + x) + j <= lf) /\ ((lf + x) + j) - lf = x + j
            BY <1>1, <5>1
          <5> QED
            BY <5>2 DEF x
        <4> HIDE DEF p, q
        <4>3. FG[p] = G[q]
          BY <1>3, <4>2
        <4> QED
          BY <4>1, <4>3 DEF p
      <3>6. ct[i] = ct[i - 1] + Len(t[k])
        BY <1>1, <3>3, <3>4
      <3> QED
        BY <3>2, <3>3, <3>5, <3>6
    <2> QED
      BY <1>1, <2>1, <2>2
  <1>9. ct[0] = 0 /\ ct[m + n] = lf + lg
    BY <1>1, <1>4, <1>5, <1>7
  <1>10. Laid(FG, st, ct)
    BY <1>2, <1>3, <1>7, <1>8, <1>9 DEF Laid
  <1> QED
    BY <1>2, <1>10 DEF FG, st

(* No parts fill nothing. *)
LEMMA LaidEmpty ==
    ASSUME NEW V
    PROVE  Parts(<<>>, V) /\ \E at : Laid(<<>>, <<>>, at)
  <1> DEFINE at == [i \in 0..0 |-> 0]
  <1>1. at \in [0..0 -> Nat] /\ at[0] = 0 /\ Len(<<>>) = 0
    OBVIOUS
  <1> HIDE DEF at
  <1>2. Laid(<<>>, <<>>, at)
    BY <1>1 DEF Laid
  <1> QED
    BY <1>2 DEF Parts

(* One part is laid out as it is. *)
LEMMA LaidOne ==
    ASSUME NEW V, NEW p \in Seq(V)
    PROVE  Parts(<<p>>, V) /\ \E at : Laid(p, <<p>>, at)
  <1> DEFINE at == [i \in 0..1 |-> IF i = 0 THEN 0 ELSE Len(p)]
  <1>1. Len(p) \in Nat /\ Len(<<p>>) = 1 /\ <<p>>[1] = p
    OBVIOUS
  <1>2. at \in [0..1 -> Nat] /\ at[0] = 0 /\ at[1] = Len(p)
    BY <1>1
  <1> HIDE DEF at
  <1>3. \A i \in 1..Len(<<p>>) : /\ at[i] = at[i - 1] + Len(<<p>>[i])
                                 /\ \A j \in 1..Len(<<p>>[i]) : p[at[i - 1] + j] = <<p>>[i][j]
    BY <1>1, <1>2
  <1>4. Laid(p, <<p>>, at)
    BY <1>1, <1>2, <1>3 DEF Laid
  <1> QED
    BY <1>4 DEF Parts

-----------------------------------------------------------------------------
(* Annex B streams. *)

(* F is an Annex B stream of NAL units: each behind a start code of either length. *)
Coded(F, nals, s, at) ==
    /\ Parts(nals, Byte) /\ Parts(s, Byte) /\ F \in Seq(Byte)
    /\ Len(s) = Len(nals)
    /\ Laid(F, s, at)
    /\ \A i \in 1..Len(nals) : \E code \in StartCodes : s[i] = code \o nals[i]
(* F is the units nals, each behind a start code of three or four bytes. *)
IsStream(F, nals) == \E s, at : Coded(F, nals, s, at)

(* A start code is zeros and a one. *)
LEMMA CodeFacts ==
    ASSUME NEW code \in StartCodes
    PROVE  /\ code \in Seq(Byte)
           /\ Len(code) = 3 \/ Len(code) = 4
           /\ \A j \in 1..(Len(code) - 1) : code[j] = 0
           /\ code[Len(code)] = 1
  <1>1. 0 \in Byte /\ 1 \in Byte
    BY DEF Byte
  <1>2. <<0, 0, 1>> \in Seq(Byte) /\ <<0, 0, 0, 1>> \in Seq(Byte)
    BY <1>1
  <1>3. code = <<0, 0, 1>> \/ code = <<0, 0, 0, 1>>
    BY DEF StartCodes, StartCode
  <1>4. CASE code = <<0, 0, 1>>
    BY <1>2, <1>4
  <1>5. CASE code = <<0, 0, 0, 1>>
    BY <1>2, <1>5
  <1> QED
    BY <1>3, <1>4, <1>5

(* The parts of two lists are those of the first, then those of the second. *)
LEMMA ConcatParts ==
    ASSUME NEW V, NEW s, NEW t, Parts(s, V), Parts(t, V)
    PROVE  /\ Parts(s \o t, V) /\ Len(s \o t) = Len(s) + Len(t)
           /\ \A i \in 1..(Len(s) + Len(t)) :
                 (s \o t)[i] = IF i <= Len(s) THEN s[i] ELSE t[i - Len(s)]
  BY DEF Parts

(* A stream is bytes, and so are its units. *)
LEMMA StreamTypes ==
    ASSUME NEW F, NEW nals, IsStream(F, nals)
    PROVE  F \in Seq(Byte) /\ Parts(nals, Byte)
  BY DEF IsStream, Coded

(* Nothing is the stream of no units. *)
LEMMA StreamEmpty == IsStream(<<>>, <<>>)
  <1>1. PICK at : Laid(<<>>, <<>>, at)
    BY LaidEmpty
  <1>2. Parts(<<>>, Byte) /\ <<>> \in Seq(Byte) /\ \A i \in 1..Len(<<>>) : FALSE
    BY DEF Parts
  <1>3. Coded(<<>>, <<>>, <<>>, at)
    BY <1>1, <1>2 DEF Coded
  <1> QED
    BY <1>3 DEF IsStream

(* Two streams behind each other are the stream of their units. *)
LEMMA StreamConcat ==
    ASSUME NEW F, NEW G, NEW a, NEW b, IsStream(F, a), IsStream(G, b)
    PROVE  IsStream(F \o G, a \o b)
  <1>1. PICK s, at : Coded(F, a, s, at)
    BY DEF IsStream
  <1>2. PICK t, bt : Coded(G, b, t, bt)
    BY DEF IsStream
  <1>3. /\ Parts(s, Byte) /\ Parts(t, Byte) /\ F \in Seq(Byte) /\ G \in Seq(Byte)
        /\ Laid(F, s, at) /\ Laid(G, t, bt)
    BY <1>1, <1>2 DEF Coded
  <1>4. PICK ct : Laid(F \o G, s \o t, ct)
    BY <1>3, LaidConcat
  <1>5. Parts(s \o t, Byte)
    BY <1>3, LaidConcat
  <1> DEFINE m == Len(a)
             n == Len(b)
  <1>6. /\ Len(s \o t) = m + n /\ Len(a \o b) = m + n /\ m \in Nat /\ n \in Nat
        /\ \A i \in 1..(m + n) : (s \o t)[i] = IF i <= m THEN s[i] ELSE t[i - m]
        /\ \A i \in 1..(m + n) : (a \o b)[i] = IF i <= m THEN a[i] ELSE b[i - m]
        /\ Parts(a \o b, Byte)
    <2>1. Parts(a, Byte) /\ Parts(b, Byte) /\ Len(s) = m /\ Len(t) = n
      BY <1>1, <1>2 DEF Coded
    <2>2. m \in Nat /\ n \in Nat
      BY <2>1, PartsFacts
    <2>3. /\ Parts(a \o b, Byte) /\ Len(a \o b) = m + n
          /\ \A i \in 1..(m + n) : (a \o b)[i] = IF i <= m THEN a[i] ELSE b[i - m]
      BY <2>1, ConcatParts
    <2>4. /\ Len(s \o t) = m + n
          /\ \A i \in 1..(m + n) : (s \o t)[i] = IF i <= m THEN s[i] ELSE t[i - m]
      BY <1>3, <2>1, ConcatParts
    <2> QED
      BY <2>2, <2>3, <2>4
  <1>7. F \o G \in Seq(Byte)
    BY <1>3, ConcatProperties
  <1>8. ASSUME NEW i \in 1..(m + n) PROVE \E code \in StartCodes : (s \o t)[i] = code \o (a \o b)[i]
    <2>1. \A k \in 1..m : \E code \in StartCodes : s[k] = code \o a[k]
      BY <1>1 DEF Coded
    <2>2. \A k \in 1..n : \E code \in StartCodes : t[k] = code \o b[k]
      BY <1>2 DEF Coded
    <2> HIDE DEF m, n
    <2>3. CASE i <= m
      <3>1. i \in 1..m /\ (s \o t)[i] = s[i] /\ (a \o b)[i] = a[i]
        BY <1>6, <2>3
      <3> QED
        BY <2>1, <3>1
    <2>4. CASE i > m
      <3>1. i - m \in 1..n /\ (s \o t)[i] = t[i - m] /\ (a \o b)[i] = b[i - m]
        BY <1>6, <2>4
      <3> QED
        BY <2>2, <3>1
    <2>5. i \in Int /\ m \in Int
      BY <1>6
    <2>6. i <= m \/ i > m
      BY <2>5
    <2> QED
      BY <2>3, <2>4, <2>6
  <1>9. Coded(F \o G, a \o b, s \o t, ct)
    BY <1>4, <1>5, <1>6, <1>7, <1>8 DEF Coded
  <1> QED
    BY <1>9 DEF IsStream

(* A unit behind a start code is a stream. *)
LEMMA StreamOne ==
    ASSUME NEW nal \in Seq(Byte), NEW code \in StartCodes
    PROVE  IsStream(code \o nal, <<nal>>)
  <1> DEFINE p == code \o nal
  <1>1. p \in Seq(Byte)
    <2>1. code \in Seq(Byte)
      BY CodeFacts
    <2> QED
      BY <2>1, ConcatProperties
  <1>2. PICK at : Laid(p, <<p>>, at)
    BY <1>1, LaidOne
  <1>3. Parts(<<p>>, Byte) /\ Parts(<<nal>>, Byte)
    BY <1>1, LaidOne
  <1>4. Len(<<p>>) = 1 /\ Len(<<nal>>) = 1 /\ <<p>>[1] = code \o nal /\ <<nal>>[1] = nal
    OBVIOUS
  <1> HIDE DEF p
  <1>5. Coded(p, <<nal>>, <<p>>, at)
    BY <1>1, <1>2, <1>3, <1>4 DEF Coded
  <1> QED
    BY <1>5 DEF IsStream, p

(* The Annex B format gives streams. *)
LEMMA AnnexBStream ==
    ASSUME NEW nals, Parts(nals, Byte), NEW code \in StartCodes
    PROVE  IsStream(AnnexB(nals, code), nals)
  <1> DEFINE s == [i \in 1..Len(nals) |-> code \o nals[i]]
  <1>1. code \in Seq(Byte)
    BY CodeFacts
  <1>2. Len(nals) \in Nat /\ \A i \in 1..Len(nals) : nals[i] \in Seq(Byte)
    BY PartsFacts
  <1>3. Len(s) = Len(nals) /\ Parts(s, Byte) /\ \A i \in 1..Len(nals) : s[i] = code \o nals[i]
    <2>1. \A i \in 1..Len(nals) : code \o nals[i] \in Seq(Byte)
      BY <1>1, <1>2, ConcatProperties
    <2> QED
      BY <1>2, <2>1 DEF Parts
  <1>4. AnnexB(nals, code) = FlattenSeq(s)
    BY DEF AnnexB
  <1> HIDE DEF s
  <1>5. PICK at : Laid(FlattenSeq(s), s, at)
    BY <1>3, FlattenLayout
  <1>6. FlattenSeq(s) \in Seq(Byte)
    BY <1>3, FlattenLayout
  <1>7. Coded(FlattenSeq(s), nals, s, at)
    BY <1>3, <1>5, <1>6 DEF Coded
  <1> QED
    BY <1>4, <1>7 DEF IsStream

(* Where everything is in a stream: unit i is behind offset from[i], its start code
   behind at[i - 1]. *)
Placed(F, nals, at, from) ==
    /\ Len(nals) \in Nat /\ Len(F) \in Nat
    /\ at \in [0..Len(nals) -> Nat] /\ from \in [1..Len(nals) -> Nat]
    /\ at[0] = 0 /\ at[Len(nals)] = Len(F)
    /\ \A i \in 1..Len(nals) :
          /\ Len(nals[i]) \in Nat
          /\ from[i] = at[i - 1] + 3 \/ from[i] = at[i - 1] + 4
          /\ at[i] = from[i] + Len(nals[i])
          /\ \A p \in (at[i - 1] + 1)..(from[i] - 1) : F[p] = 0
          /\ F[from[i]] = 1
          /\ \A j \in 1..Len(nals[i]) : F[from[i] + j] = nals[i][j]
    /\ \A k \in 0..Len(nals) : \A i \in 0..k : at[i] <= at[k]
    /\ \A p \in 1..Len(F) : \E i \in 1..Len(nals) : at[i - 1] < p /\ p <= at[i]

(* Every unit of a stream has a place. *)
LEMMA StreamPlaced ==
    ASSUME NEW F, NEW nals, IsStream(F, nals)
    PROVE  \E at, from : Placed(F, nals, at, from)
  <1>1. PICK s, at : Coded(F, nals, s, at)
    BY DEF IsStream
  <1> DEFINE n == Len(nals)
             from == [i \in 1..n |-> at[i] - Len(nals[i])]
  <1>2. /\ n \in Nat /\ Len(F) \in Nat /\ Len(s) = n
        /\ \A i \in 1..n : nals[i] \in Seq(Byte) /\ Len(nals[i]) \in Nat
        /\ \A i \in 1..n : \E code \in StartCodes : s[i] = code \o nals[i]
        /\ Laid(F, s, at) /\ Parts(s, Byte) /\ F \in Seq(Byte)
    BY <1>1, PartsFacts DEF Coded
  <1> HIDE DEF n
  <1>3. /\ at \in [0..n -> Nat] /\ at[0] = 0 /\ at[n] = Len(F)
        /\ \A i \in 1..n : /\ at[i] = at[i - 1] + Len(s[i])
                           /\ \A j \in 1..Len(s[i]) : F[at[i - 1] + j] = s[i][j]
    BY <1>2 DEF Laid
  <1>4. /\ \A k \in 0..n : \A i \in 0..k : at[i] <= at[k]
        /\ \A p \in 1..Len(F) : \E i \in 1..n : at[i - 1] < p /\ p <= at[i]
    BY <1>2, LaidFacts
  <1>5. ASSUME NEW i \in 1..n
        PROVE  /\ from[i] \in Nat
               /\ from[i] = at[i - 1] + 3 \/ from[i] = at[i - 1] + 4
               /\ at[i] = from[i] + Len(nals[i])
               /\ \A p \in (at[i - 1] + 1)..(from[i] - 1) : F[p] = 0
               /\ F[from[i]] = 1
               /\ \A j \in 1..Len(nals[i]) : F[from[i] + j] = nals[i][j]
    <2>1. PICK code \in StartCodes : s[i] = code \o nals[i]
      BY <1>2
    <2> DEFINE w == Len(code)
               x == at[i - 1]
               l == Len(nals[i])
    <2>2. /\ w = 3 \/ w = 4
          /\ \A j \in 1..(w - 1) : code[j] = 0
          /\ code[w] = 1
          /\ code \in Seq(Byte)
      BY CodeFacts
    <2>3. /\ Len(s[i]) = w + l
          /\ \A j \in 1..(w + l) : s[i][j] = IF j <= w THEN code[j] ELSE nals[i][j - w]
      <3>1. nals[i] \in Seq(Byte)
        BY <1>2
      <3> QED
        BY <2>1, <2>2, <3>1, ConcatProperties
    <2>4. x \in Nat /\ l \in Nat /\ at[i] = x + (w + l)
      <3>1. l \in Nat
        BY <1>2
      <3>2. x \in Nat
        BY <1>2, <1>3
      <3>3. at[i] = x + Len(s[i])
        BY <1>3
      <3> QED
        BY <2>3, <3>1, <3>2, <3>3
    <2>5. \A j \in 1..(w + l) : F[x + j] = IF j <= w THEN code[j] ELSE nals[i][j - w]
      BY <1>3, <2>3
    <2>6. from[i] = at[i] - l
      OBVIOUS
    <2> DEFINE f == from[i]
    <2> HIDE DEF from, w, x, l, f
    <2>7. f = x + w
      <3>1. f = at[i] - l
        BY <2>6 DEF f
      <3> QED
        BY <2>2, <2>4, <3>1
    <2>8. \A p \in (x + 1)..(f - 1) : F[p] = 0
      <3> TAKE p \in (x + 1)..(f - 1)
      <3>1. p - x \in 1..(w - 1) /\ p - x \in 1..(w + l) /\ x + (p - x) = p /\ p - x <= w
        BY <2>2, <2>4, <2>7
      <3> QED
        BY <2>2, <2>5, <3>1
    <2>9. F[f] = 1
      <3>1. w \in 1..(w + l) /\ w <= w
        BY <2>2, <2>4
      <3> QED
        BY <2>2, <2>5, <2>7, <3>1
    <2>10. \A j \in 1..l : F[f + j] = nals[i][j]
      <3> TAKE j \in 1..l
      <3>1. w \in Nat /\ x \in Nat /\ l \in Nat /\ j \in Nat /\ 1 <= j /\ j <= l
        BY <2>2, <2>4
      <3>2. w + j \in 1..(w + l) /\ ~(w + j <= w) /\ (w + j) - w = j /\ x + (w + j) = f + j
        BY <2>7, <3>1
      <3> QED
        BY <2>5, <3>2
    <2>11. f \in Nat /\ at[i] = f + l /\ (f = x + 3 \/ f = x + 4)
      BY <2>2, <2>4, <2>7
    <2> QED
      BY <2>8, <2>9, <2>10, <2>11 DEF f, x, l
  <1>6. from \in [1..n -> Nat]
    <2>1. \A i \in 1..n : at[i] - Len(nals[i]) \in Nat
      BY <1>5
    <2> QED
      BY <2>1
  <1> HIDE DEF from
  <1>7. Placed(F, nals, at, from)
    BY <1>2, <1>3, <1>4, <1>5, <1>6 DEF Placed, n
  <1> QED
    BY <1>7

(* NAL units as H.264 has them. *)
Units(nals) == \A i \in 1..Len(nals) : IsUnit(nals[i])

(* A start code of three bytes behind offset o. *)
CodeAt(F, o) == o + 3 <= Len(F) /\ F[o + 1] = 0 /\ F[o + 2] = 0 /\ F[o + 3] = 1

(* What SubSeq takes from behind an offset. *)
LEMMA Piece ==
    ASSUME NEW V, NEW F, F \in Seq(V), NEW a \in Nat, NEW b \in Nat, b <= Len(F)
    PROVE  /\ SubSeq(F, a + 1, b) \in Seq(V)
           /\ Len(SubSeq(F, a + 1, b)) = IF a <= b THEN b - a ELSE 0
           /\ \A j \in 1..(b - a) : SubSeq(F, a + 1, b)[j] = F[a + j]
  <1>1. Len(F) \in Nat /\ \A i \in 1..Len(F) : F[i] \in V
    BY ElementOfSeq, LenProperties
  <1>2. a + 1 \in Int /\ b \in Int /\ \A i \in (a + 1)..b : F[i] \in V
    BY <1>1
  <1> DEFINE p == SubSeq(F, a + 1, b)
  <1>3. /\ p \in Seq(V) /\ Len(p) = IF a + 1 <= b THEN b - (a + 1) + 1 ELSE 0
        /\ \A i \in 1..(b - (a + 1) + 1) : p[i] = F[(a + 1) + i - 1]
    BY <1>2, SubSeqProperties
  <1> HIDE DEF p
  <1>4. Len(p) = IF a <= b THEN b - a ELSE 0
    BY <1>3
  <1>5. ASSUME NEW j \in 1..(b - a) PROVE p[j] = F[a + j]
    <2>1. j \in 1..(b - (a + 1) + 1) /\ (a + 1) + j - 1 = a + j
      OBVIOUS
    <2> QED
      BY <1>3, <2>1
  <1> QED
    BY <1>3, <1>4, <1>5 DEF p

(* The places Codes finds are those with a start code. *)
LEMMA CodesAreCodes ==
    ASSUME NEW F, F \in Seq(Byte)
    PROVE  \A o \in Nat : o \in Codes(F) <=> CodeAt(F, o)
  <1> SUFFICES ASSUME NEW o \in Nat PROVE o \in Codes(F) <=> CodeAt(F, o)
    OBVIOUS
  <1>1. Len(F) \in Nat
    BY LenProperties
  <1>2. CASE o + 3 <= Len(F)
    <2> DEFINE p == SubSeq(F, o + 1, o + 3)
    <2>1. p \in Seq(Byte) /\ Len(p) = 3 /\ p[1] = F[o + 1] /\ p[2] = F[o + 2] /\ p[3] = F[o + 3]
      BY <1>1, <1>2, Piece
    <2>2. o \in Codes(F) <=> p = <<0, 0, 1>>
      BY <1>1, <1>2 DEF Codes
    <2> HIDE DEF p
    <2>3. p = <<0, 0, 1>> <=> p[1] = 0 /\ p[2] = 0 /\ p[3] = 1
      BY <2>1
    <2> QED
      BY <1>2, <2>1, <2>2, <2>3 DEF CodeAt
  <1>3. CASE ~(o + 3 <= Len(F))
    BY <1>1, <1>3 DEF Codes, CodeAt
  <1> QED
    BY <1>2, <1>3

(* How looks_like_annex_b and AnnexBNalTypeIter see a start code. *)
LEMMA PrefixIsCode ==
    ASSUME NEW F, F \in Seq(Byte), NEW o \in Nat, o <= Len(F)
    PROVE  /\ IsPrefix(<<0, 0, 1>>, SubSeq(F, o + 1, Len(F))) <=> CodeAt(F, o)
           /\ IsPrefix(StartCode, SubSeq(F, o + 1, Len(F))) <=> CodeAt(F, o + 1) /\ F[o + 1] = 0
  <1> DEFINE t == SubSeq(F, o + 1, Len(F))
  <1>1. Len(F) \in Nat
    BY LenProperties
  <1>2. t \in Seq(Byte) /\ Len(t) = Len(F) - o /\ \A j \in 1..(Len(F) - o) : t[j] = F[o + j]
    BY <1>1, Piece
  <1> HIDE DEF t
  <1>3. IsPrefix(<<0, 0, 1>>, t) <=> CodeAt(F, o)
    <2>1. CASE o + 3 <= Len(F)
      <3> DEFINE p == SubSeq(t, 0 + 1, 3)
      <3>1. p \in Seq(Byte) /\ Len(p) = 3 /\ p[1] = t[1] /\ p[2] = t[2] /\ p[3] = t[3]
        BY <1>1, <1>2, <2>1, Piece
      <3>2. IsPrefix(<<0, 0, 1>>, t) <=> p = <<0, 0, 1>>
        <4>1. Len(<<0, 0, 1>>) = 3 /\ SubSeq(<<0, 0, 1>>, 1, 3) = <<0, 0, 1>> /\ 3 <= Len(t) /\ 0 + 1 = 1
          <5>1. <<0, 0, 1>> \in Seq(Nat) /\ Len(<<0, 0, 1>>) = 3
            OBVIOUS
          <5>2. SubSeq(<<0, 0, 1>>, 1, 3) = <<0, 0, 1>>
            BY <5>1, SubSeqFull
          <5>3. 3 <= Len(t)
            BY <1>1, <1>2, <2>1
          <5> QED
            BY <5>1, <5>2, <5>3
        <4> QED
          BY <4>1 DEF IsPrefix
      <3> HIDE DEF p
      <3>3. p = <<0, 0, 1>> <=> p[1] = 0 /\ p[2] = 0 /\ p[3] = 1
        BY <3>1
      <3>4. t[1] = F[o + 1] /\ t[2] = F[o + 2] /\ t[3] = F[o + 3]
        BY <1>1, <1>2, <2>1
      <3> QED
        BY <2>1, <3>1, <3>2, <3>3, <3>4 DEF CodeAt
    <2>2. CASE ~(o + 3 <= Len(F))
      BY <1>1, <1>2, <2>2 DEF IsPrefix, CodeAt
    <2> QED
      BY <2>1, <2>2
  <1>4. IsPrefix(StartCode, t) <=> CodeAt(F, o + 1) /\ F[o + 1] = 0
    <2>1. CASE o + 4 <= Len(F)
      <3> DEFINE p == SubSeq(t, 0 + 1, 4)
      <3>1. p \in Seq(Byte) /\ Len(p) = 4 /\ p[1] = t[1] /\ p[2] = t[2] /\ p[3] = t[3] /\ p[4] = t[4]
        BY <1>1, <1>2, <2>1, Piece
      <3>2. IsPrefix(StartCode, t) <=> p = <<0, 0, 0, 1>>
        <4>1. Len(StartCode) = 4 /\ SubSeq(StartCode, 1, 4) = <<0, 0, 0, 1>> /\ 4 <= Len(t) /\ 0 + 1 = 1
          <5>1. <<0, 0, 0, 1>> \in Seq(Nat) /\ Len(<<0, 0, 0, 1>>) = 4
            OBVIOUS
          <5>2. SubSeq(<<0, 0, 0, 1>>, 1, 4) = <<0, 0, 0, 1>>
            BY <5>1, SubSeqFull
          <5>3. 4 <= Len(t)
            BY <1>1, <1>2, <2>1
          <5> QED
            BY <5>1, <5>2, <5>3 DEF StartCode
        <4> QED
          BY <4>1 DEF IsPrefix
      <3> HIDE DEF p
      <3>3. p = <<0, 0, 0, 1>> <=> p[1] = 0 /\ p[2] = 0 /\ p[3] = 0 /\ p[4] = 1
        BY <3>1
      <3>4. t[1] = F[o + 1] /\ t[2] = F[o + 2] /\ t[3] = F[o + 3] /\ t[4] = F[o + 4]
        BY <1>1, <1>2, <2>1
      <3>5. (o + 1) + 3 = o + 4 /\ (o + 1) + 1 = o + 2 /\ (o + 1) + 2 = o + 3
        OBVIOUS
      <3> QED
        BY <2>1, <3>1, <3>2, <3>3, <3>4, <3>5 DEF CodeAt
    <2>2. CASE ~(o + 4 <= Len(F))
      <3>1. Len(StartCode) = 4 /\ ~(4 <= Len(t)) /\ ~((o + 1) + 3 <= Len(F))
        BY <1>1, <1>2, <2>2 DEF StartCode
      <3> QED
        BY <3>1 DEF IsPrefix, CodeAt
    <2> QED
      BY <2>1, <2>2
  <1> QED
    BY <1>3, <1>4 DEF t

(* A unit is not empty, does not end in a zero and holds no start code. *)
LEMMA UnitFacts ==
    ASSUME NEW nal, IsUnit(nal)
    PROVE  /\ nal \in Seq(Byte) /\ nal # <<>> /\ Len(nal) \in Nat /\ Len(nal) >= 1
           /\ nal[Len(nal)] # 0
           /\ \A i \in 1..(Len(nal) - 2) : ~(nal[i] = 0 /\ nal[i + 1] = 0 /\ nal[i + 2] = 1)
  <1>1. nal \in Seq(Byte) /\ nal # <<>>
    BY DEF IsUnit
  <1>2. Len(nal) \in Nat \ {0}
    BY <1>1, EmptySeq
  <1>3. \A i \in 1..(Len(nal) - 2) : ~(nal[i] = 0 /\ nal[i + 1] = 0 /\ nal[i + 2] = 1)
    BY <1>2 DEF IsUnit
  <1> QED
    BY <1>1, <1>2, <1>3 DEF IsUnit

(* The numbers of a place. *)
LEMMA PlacedFacts ==
    ASSUME NEW F, NEW nals, NEW at, NEW from, Placed(F, nals, at, from),
           NEW i \in 1..Len(nals)
    PROVE  /\ i - 1 \in 0..Len(nals) /\ i \in 0..Len(nals) /\ Len(nals) \in Nat /\ Len(F) \in Nat
           /\ at[i - 1] \in Nat /\ at[i] \in Nat /\ from[i] \in Nat /\ Len(nals[i]) \in Nat
           /\ from[i] = at[i - 1] + 3 \/ from[i] = at[i - 1] + 4
           /\ at[i] = from[i] + Len(nals[i])
           /\ at[i] <= Len(F)
  <1>1. Len(nals) \in Nat /\ at \in [0..Len(nals) -> Nat] /\ from \in [1..Len(nals) -> Nat] /\ Len(F) \in Nat
    BY DEF Placed
  <1>2. i - 1 \in 0..Len(nals) /\ i \in 0..Len(nals) /\ Len(nals) \in 0..Len(nals)
    BY <1>1
  <1>3. at[i - 1] \in Nat /\ at[i] \in Nat /\ from[i] \in Nat
    BY <1>1, <1>2
  <1>4. at[i] <= at[Len(nals)] /\ at[Len(nals)] = Len(F)
    BY <1>2 DEF Placed
  <1>5. /\ from[i] = at[i - 1] + 3 \/ from[i] = at[i - 1] + 4
        /\ at[i] = from[i] + Len(nals[i]) /\ Len(nals[i]) \in Nat
    BY DEF Placed
  <1> QED
    BY <1>1, <1>2, <1>3, <1>4, <1>5

(* The start codes of a stream of units are those in front of its units. *)
LEMMA CodePlaces ==
    ASSUME NEW F, NEW nals, NEW at, NEW from, Placed(F, nals, at, from), Units(nals),
           NEW o \in Nat, CodeAt(F, o)
    PROVE  \E i \in 1..Len(nals) : from[i] = o + 3
  <1>1. o + 3 <= Len(F) /\ F[o + 1] = 0 /\ F[o + 2] = 0 /\ F[o + 3] = 1 /\ Len(F) \in Nat
    BY DEF CodeAt, Placed
  <1>2. o + 3 \in 1..Len(F)
    BY <1>1
  <1>3. PICK i \in 1..Len(nals) : at[i - 1] < o + 3 /\ o + 3 <= at[i]
    BY <1>2 DEF Placed
  <1> DEFINE x == at[i - 1]
             f == from[i]
             nal == nals[i]
  <1>4. /\ Len(nal) \in Nat
        /\ f = x + 3 \/ f = x + 4
        /\ at[i] = f + Len(nal)
        /\ \A p \in (x + 1)..(f - 1) : F[p] = 0
        /\ F[f] = 1
        /\ \A j \in 1..Len(nal) : F[f + j] = nal[j]
    BY DEF Placed
  <1>5. x \in Nat /\ f \in Nat
    BY PlacedFacts
  <1>6. \A k \in 1..(Len(nal) - 2) : ~(nal[k] = 0 /\ nal[k + 1] = 0 /\ nal[k + 2] = 1)
    BY UnitFacts DEF Units
  <1>7. x < o + 3 /\ o + 3 <= f + Len(nal)
    BY <1>3, <1>4
  <1> HIDE DEF x, f, nal
  <1>8. CASE o + 3 < f
    <2>1. o + 3 \in (x + 1)..(f - 1)
      BY <1>5, <1>7, <1>8
    <2> QED
      BY <1>1, <1>4, <2>1
  <1>9. CASE o + 3 = f
    BY <1>9 DEF f
  <1>10. CASE o + 3 = f + 1
    <2>1. o + 2 = f
      BY <1>5, <1>10
    <2> QED
      BY <1>1, <1>4, <2>1
  <1>11. CASE o + 3 = f + 2
    <2>1. o + 1 = f
      BY <1>5, <1>11
    <2> QED
      BY <1>1, <1>4, <2>1
  <1>12. CASE o + 3 > f + 2
    <2> DEFINE k == (o + 1) - f
    <2>1. k \in Int /\ k >= 1 /\ k + 2 <= Len(nal) /\ f + k = o + 1 /\ f + (k + 1) = o + 2 /\ f + (k + 2) = o + 3
      BY <1>4, <1>5, <1>7, <1>12
    <2> HIDE DEF k
    <2>2. k \in 1..(Len(nal) - 2) /\ k \in 1..Len(nal) /\ k + 1 \in 1..Len(nal) /\ k + 2 \in 1..Len(nal)
      BY <1>4, <2>1
    <2>3. nal[k] = 0 /\ nal[k + 1] = 0 /\ nal[k + 2] = 1
      BY <1>1, <1>4, <2>1, <2>2
    <2> QED
      BY <1>6, <2>2, <2>3
  <1> QED
    BY <1>5, <1>8, <1>9, <1>10, <1>11, <1>12

(* In front of every unit is a start code. *)
LEMMA PlacesAreCodes ==
    ASSUME NEW F, NEW nals, NEW at, NEW from, Placed(F, nals, at, from),
           NEW i \in 1..Len(nals)
    PROVE  from[i] - 3 \in Nat /\ CodeAt(F, from[i] - 3)
  <1> DEFINE x == at[i - 1]
             f == from[i]
  <1>1. /\ f = x + 3 \/ f = x + 4
        /\ \A p \in (x + 1)..(f - 1) : F[p] = 0
        /\ F[f] = 1
        /\ x \in Nat /\ f \in Nat
    BY DEF Placed
  <1>2. f <= Len(F) /\ Len(F) \in Nat
    <2>1. at[i] = f + Len(nals[i]) /\ Len(nals[i]) \in Nat /\ at[i] \in Nat /\ at[i] <= Len(F) /\ Len(F) \in Nat
      BY PlacedFacts
    <2> HIDE DEF f
    <2> QED
      BY <1>1, <2>1
  <1> HIDE DEF x, f
  <1>3. f - 3 \in Nat /\ (f - 3) + 1 \in (x + 1)..(f - 1) /\ (f - 3) + 2 \in (x + 1)..(f - 1) /\ (f - 3) + 3 = f
    BY <1>1
  <1>4. CodeAt(F, f - 3)
    BY <1>1, <1>2, <1>3 DEF CodeAt
  <1> QED
    BY <1>3, <1>4 DEF f

-----------------------------------------------------------------------------
(* A decoder finds the units of a stream again. *)

(* A least element is the minimum. *)
LEMMA MinIs ==
    ASSUME NEW S, S \subseteq Int, NEW m \in S, \A k \in S : m <= k
    PROVE  Min(S) = m
  <1> DEFINE c == CHOOSE x \in S : \A y \in S : x =< y
  <1>1. c \in S /\ \A y \in S : c =< y
    OBVIOUS
  <1>2. Min(S) = c
    BY DEF Min
  <1> HIDE DEF c
  <1>3. c <= m /\ m <= c /\ c \in Int /\ m \in Int
    BY <1>1
  <1> QED
    BY <1>2, <1>3

(* Units lie in order, each behind its code. *)
LEMMA InOrder ==
    ASSUME NEW F, NEW nals, NEW at, NEW from, Placed(F, nals, at, from), Units(nals),
           NEW i \in 1..Len(nals), NEW k \in 1..Len(nals)
    PROVE  /\ from[i] < at[i]
           /\ i < k => at[i] <= from[k] - 3 /\ from[i] < from[k]
           /\ i = Len(nals) => at[i] = Len(F)
  <1>1. /\ at[i] \in Nat /\ from[i] \in Nat /\ Len(nals[i]) \in Nat /\ at[i] = from[i] + Len(nals[i])
        /\ Len(nals) \in Nat
    BY PlacedFacts
  <1>2. Len(nals[i]) >= 1
    BY UnitFacts DEF Units
  <1>3. from[i] < at[i]
    BY <1>1, <1>2
  <1>4. ASSUME i < k PROVE at[i] <= from[k] - 3
    <2>1. k - 1 \in 0..Len(nals) /\ i \in 0..(k - 1)
      BY <1>1, <1>4
    <2>2. at[i] <= at[k - 1]
      BY <2>1 DEF Placed
    <2>3. at[k - 1] \in Nat /\ from[k] \in Nat /\ (from[k] = at[k - 1] + 3 \/ from[k] = at[k - 1] + 4)
      BY PlacedFacts
    <2> QED
      BY <1>1, <2>2, <2>3
  <1>5. from[k] \in Nat
    BY PlacedFacts
  <1>6. i = Len(nals) => at[i] = Len(F)
    BY DEF Placed
  <1> QED
    BY <1>1, <1>3, <1>4, <1>5, <1>6

(* A unit ends where UnitEnd says, whatever the length of the code behind it. *)
LEMMA UnitEnds ==
    ASSUME NEW F, NEW nals, NEW at, NEW from, F \in Seq(Byte), Placed(F, nals, at, from), Units(nals),
           NEW i \in 1..Len(nals)
    PROVE  UnitEnd(F, from[i] - 3) = at[i]
  <1> DEFINE o == from[i] - 3
             later == {p \in Codes(F) : p > o}
             stop == IF later = {} THEN Len(F) ELSE Min(later)
  <1>1. UnitEnd(F, o) = IF later # {} /\ stop > o + 3 /\ F[stop] = 0 THEN stop - 1 ELSE stop
    BY DEF UnitEnd
  <1>2. from[i] \in Nat /\ at[i] \in Nat /\ Len(nals) \in Nat /\ Len(F) \in Nat /\ o + 3 = from[i] /\ o \in Int
    BY PlacedFacts
  <1>3. Codes(F) \subseteq Nat
    BY <1>2 DEF Codes
  <1>4. ASSUME NEW p \in later PROVE \E k \in 1..Len(nals) : k > i /\ from[k] = p + 3
    <2>1. p \in Nat /\ p > o /\ CodeAt(F, p)
      BY <1>3, CodesAreCodes
    <2>2. PICK k \in 1..Len(nals) : from[k] = p + 3
      BY <2>1, CodePlaces
    <2>3. ASSUME k < i PROVE FALSE
      <3>1. from[k] < from[i]
        BY <2>3, InOrder
      <3> QED
        BY <1>2, <2>1, <2>2, <3>1
    <2>4. k # i
      BY <1>2, <2>1, <2>2
    <2>5. k > i
      <3>1. k \in Int /\ i \in Int
        OBVIOUS
      <3>2. ~(k < i)
        BY <2>3
      <3> QED
        BY <2>4, <3>1, <3>2
    <2> QED
      BY <2>2, <2>5
  <1> HIDE DEF later
  <1>5. CASE i = Len(nals)
    <2>1. later = {}
      BY <1>2, <1>4, <1>5
    <2>2. at[i] = Len(F)
      BY <1>5, InOrder
    <2> QED
      BY <1>1, <2>1, <2>2
  <1>6. CASE i # Len(nals)
    <2> DEFINE c == from[i + 1] - 3
    <2>1. i + 1 \in 1..Len(nals) /\ i < i + 1 /\ (i + 1) - 1 = i
      BY <1>2, <1>6
    <2>2. /\ from[i + 1] \in Nat /\ c \in Nat /\ CodeAt(F, c) /\ c + 3 = from[i + 1]
          /\ from[i + 1] = at[i] + 3 \/ from[i + 1] = at[i] + 4
      <3> DEFINE k == i + 1
      <3>1. k \in 1..Len(nals) /\ k - 1 = i
        BY <1>2, <2>1
      <3> HIDE DEF k
      <3>2. from[k] - 3 \in Nat /\ CodeAt(F, from[k] - 3)
        BY <3>1, PlacesAreCodes
      <3>3. from[k] \in Nat /\ (from[k] = at[k - 1] + 3 \/ from[k] = at[k - 1] + 4)
        <4>1. from[k] \in Nat
          BY <3>1, PlacedFacts
        <4>2. from[k] = at[k - 1] + 3 \/ from[k] = at[k - 1] + 4
          BY <3>1 DEF Placed
        <4> QED
          BY <4>1, <4>2
      <3>4. (from[k] - 3) + 3 = from[k]
        BY <3>3
      <3> QED
        BY <3>1, <3>2, <3>3, <3>4 DEF k
    <2>3. from[i] < at[i] /\ at[i] <= c
      BY <2>1, InOrder
    <2>4. c \in later
      <3>1. c \in Codes(F)
        BY <2>2, CodesAreCodes
      <3>2. c > o
        BY <1>2, <2>2, <2>3
      <3> QED
        BY <3>1, <3>2 DEF later
    <2>5. ASSUME NEW p \in later PROVE c <= p
      <3>1. PICK k \in 1..Len(nals) : k > i /\ from[k] = p + 3
        BY <1>4
      <3>2. CASE k = i + 1
        <4>1. p \in Nat
          BY <1>3 DEF later
        <4> QED
          BY <2>2, <3>1, <3>2, <4>1
      <3>3. CASE k > i + 1
        <4>1. from[i + 1] < from[k] /\ p \in Nat
          BY <1>3, <2>1, <3>3, InOrder DEF later
        <4> QED
          BY <2>2, <3>1, <4>1
      <3> QED
        BY <3>1, <3>2, <3>3
    <2> HIDE DEF c
    <2>6. Min(later) = c
      <3>1. later \subseteq Int
        BY <1>3 DEF later
      <3> QED
        BY <2>4, <2>5, <3>1, MinIs
    <2>7. stop = c
      BY <2>4, <2>6
    <2>8. CASE from[i + 1] = at[i] + 3
      <3>1. c = at[i]
        BY <1>2, <2>2, <2>8
      <3>2. F[at[i]] # 0
        <4> DEFINE l == Len(nals[i])
        <4>1. l \in Nat /\ l >= 1 /\ nals[i][l] # 0
          BY UnitFacts DEF Units
        <4>2. \A j \in 1..l : F[from[i] + j] = nals[i][j]
          BY DEF Placed
        <4>3. from[i] + l = at[i]
          BY PlacedFacts
        <4> HIDE DEF l
        <4>4. F[from[i] + l] = nals[i][l]
          BY <4>1, <4>2
        <4> QED
          BY <4>1, <4>3, <4>4
      <3>3. UnitEnd(F, o) = c
        BY <1>1, <2>7, <3>1, <3>2
      <3> QED
        BY <3>1, <3>3
    <2>9. CASE from[i + 1] = at[i] + 4
      <3>1. c = at[i] + 1 /\ c > o + 3
        BY <1>2, <2>2, <2>3, <2>9
      <3>2. F[c] = 0
        <4>1. \A p \in (at[(i + 1) - 1] + 1)..(from[i + 1] - 1) : F[p] = 0
          BY <2>1 DEF Placed
        <4>2. c \in (at[(i + 1) - 1] + 1)..(from[i + 1] - 1)
          BY <1>2, <2>1, <2>9, <3>1
        <4> QED
          BY <4>1, <4>2
      <3>3. UnitEnd(F, o) = c - 1
        BY <1>1, <2>4, <2>7, <3>1, <3>2
      <3> QED
        BY <1>2, <3>1, <3>3
    <2> QED
      BY <2>2, <2>8, <2>9
  <1> QED
    BY <1>5, <1>6

(* From an offset on, a decoder finds nothing until the next code. *)
LEMMA Skips ==
    ASSUME NEW f, NEW a \in Nat, NEW b \in Nat, a <= b,
           \A o \in a..(b - 1) : f[o] = f[o + 1]
    PROVE  f[a] = f[b]
  <1> DEFINE S == {o \in 0..b : a <= o => f[o] = f[b]}
  <1>1. b \in S
    OBVIOUS
  <1>2. ASSUME NEW o \in 0..(b - 1), o + 1 \in S PROVE o \in S
    <2>1. CASE a <= o
      <3>1. f[o + 1] = f[b] /\ f[o] = f[o + 1]
        BY <1>2, <2>1
      <3> QED
        BY <3>1
    <2> QED
      BY <2>1
  <1> HIDE DEF S
  <1>3. \A o \in 0..b : o \in S
    BY <1>1, <1>2, DownInduction
  <1>4. a \in S
    BY <1>3
  <1> QED
    BY <1>4 DEF S

(* The sequence of one element. *)
LEMMA OneSeq ==
    ASSUME NEW V, NEW x \in V
    PROVE  <<x>> \in Seq(V) /\ Len(<<x>>) = 1 /\ <<x>>[1] = x
  OBVIOUS

(* The bytes at the place of a unit are the unit. *)
LEMMA UnitBytes ==
    ASSUME NEW F, NEW nals, NEW at, NEW from, F \in Seq(Byte), Parts(nals, Byte),
           Placed(F, nals, at, from), NEW i \in 1..Len(nals)
    PROVE  SubSeq(F, from[i] + 1, at[i]) = nals[i]
  <1> DEFINE l == Len(nals[i])
             u == SubSeq(F, from[i] + 1, at[i])
  <1>1. from[i] \in Nat /\ at[i] \in Nat /\ l \in Nat /\ at[i] = from[i] + l /\ at[i] <= Len(F)
    BY PlacedFacts
  <1>2. /\ u \in Seq(Byte)
        /\ Len(u) = IF from[i] <= at[i] THEN at[i] - from[i] ELSE 0
        /\ \A j \in 1..(at[i] - from[i]) : u[j] = F[from[i] + j]
    <2> DEFINE a == from[i]
               b == at[i]
    <2>1. a \in Nat /\ b \in Nat /\ b <= Len(F)
      BY <1>1
    <2> HIDE DEF a, b
    <2>2. /\ SubSeq(F, a + 1, b) \in Seq(Byte)
          /\ Len(SubSeq(F, a + 1, b)) = IF a <= b THEN b - a ELSE 0
          /\ \A j \in 1..(b - a) : SubSeq(F, a + 1, b)[j] = F[a + j]
      BY <2>1, Piece
    <2> QED
      BY <2>2 DEF a, b
  <1>3. \A j \in 1..l : F[from[i] + j] = nals[i][j]
    BY DEF Placed
  <1>4. nals[i] \in Seq(Byte)
    BY PartsFacts
  <1>5. at[i] - from[i] = l /\ from[i] <= at[i]
    BY <1>1
  <1> HIDE DEF u
  <1>6. Len(u) = Len(nals[i]) /\ \A j \in 1..Len(u) : u[j] = nals[i][j]
    BY <1>2, <1>3, <1>5
  <1> QED
    BY <1>2, <1>4, <1>6, SeqEqual DEF u

(* Behind every start code a decoder finds is a unit. *)
LEMMA CodeOfUnit ==
    ASSUME NEW F, NEW nals, NEW at, NEW from, F \in Seq(Byte), Parts(nals, Byte),
           Placed(F, nals, at, from), Units(nals), NEW o \in Nat, o \in Codes(F)
    PROVE  \E i \in 1..Len(nals) : /\ from[i] = o + 3
                                   /\ SubSeq(F, o + 4, UnitEnd(F, o)) = nals[i]
  <1>1. CodeAt(F, o)
    BY CodesAreCodes
  <1>2. PICK i \in 1..Len(nals) : from[i] = o + 3
    BY <1>1, CodePlaces
  <1>3. from[i] - 3 = o /\ from[i] + 1 = o + 4
    BY <1>2
  <1>4. UnitEnd(F, o) = at[i]
    BY <1>3, UnitEnds
  <1>5. SubSeq(F, from[i] + 1, at[i]) = nals[i]
    BY UnitBytes
  <1> QED
    BY <1>2, <1>3, <1>4, <1>5

(* The recursion of UnitsFrom. *)
FindsUnits(F, f) ==
    f = [o \in 0..Len(F) |->
            IF o = Len(F) THEN <<>>
            ELSE IF o \in Codes(F) THEN <<SubSeq(F, o + 4, UnitEnd(F, o))>> \o f[o + 1]
            ELSE f[o + 1]]

(* UnitsFrom has a value at every offset. *)
LEMMA UnitsRun ==
    ASSUME NEW F, NEW nals, NEW at, NEW from, F \in Seq(Byte), Parts(nals, Byte),
           Placed(F, nals, at, from), Units(nals)
    PROVE  FindsUnits(F, UnitsFrom(F))
  <1> DEFINE n == Len(F)
             V == Seq(Seq(Byte))
             next(o, g) == IF o = n THEN <<>>
                           ELSE IF o \in Codes(F) THEN <<SubSeq(F, o + 4, UnitEnd(F, o))>> \o g[o + 1]
                           ELSE g[o + 1]
             step == [p \in (0..n) \X [0..n -> V] |-> next(p[1], p[2])]
  <1>1. n \in Nat
    BY LenProperties
  <1>2. \A o \in 0..n : o \in Codes(F) => <<SubSeq(F, o + 4, UnitEnd(F, o))>> \in V
    <2> SUFFICES ASSUME NEW o \in 0..n, o \in Codes(F) PROVE <<SubSeq(F, o + 4, UnitEnd(F, o))>> \in V
      OBVIOUS
    <2>1. o \in Nat
      BY <1>1
    <2>2. PICK i \in 1..Len(nals) : SubSeq(F, o + 4, UnitEnd(F, o)) = nals[i]
      BY <2>1, CodeOfUnit
    <2>3. nals[i] \in Seq(Byte)
      BY PartsFacts
    <2>4. <<nals[i]>> \in V
      BY <2>3, OneSeq
    <2> QED
      BY <2>2, <2>4
  <1>3. <<>> \in V /\ V # {}
    <2>1. <<>> \in V
      BY EmptySeq
    <2> QED
      BY <2>1
  <1> HIDE DEF n
  <1>4. ASSUME NEW o \in 0..n, NEW g \in [0..n -> V] PROVE next(o, g) \in V
    <2>1. CASE o = n
      BY <1>3, <2>1
    <2>2. CASE o # n
      <3>1. o + 1 \in 0..n
        BY <1>1, <2>2
      <3>2. g[o + 1] \in V
        BY <3>1
      <3>3. CASE o \in Codes(F)
        <4> DEFINE u == <<SubSeq(F, o + 4, UnitEnd(F, o))>>
                   h == g[o + 1]
        <4>1. u \in V /\ h \in V
          BY <1>2, <3>2, <3>3
        <4> HIDE DEF u, h
        <4>2. u \o h \in V
          BY <4>1, ConcatProperties
        <4>3. next(o, g) = u \o h
          BY <2>2, <3>3 DEF u, h
        <4> QED
          BY <4>2, <4>3
      <3>4. CASE o \notin Codes(F)
        <4>1. next(o, g) = g[o + 1]
          BY <2>2, <3>4
        <4> QED
          BY <3>2, <4>1
      <3> QED
        BY <3>3, <3>4
    <2> QED
      BY <2>1, <2>2
  <1>5. ASSUME NEW o \in 0..n, NEW g \in [0..n -> V], NEW h \in [0..n -> V],
               \A j \in 0..n : j > o => g[j] = h[j]
        PROVE  next(o, g) = next(o, h)
    <2>1. CASE o # n
      <3>1. o + 1 \in 0..n /\ o + 1 > o
        BY <1>1, <2>1
      <3>2. g[o + 1] = h[o + 1]
        BY <1>5, <3>1
      <3> QED
        BY <3>2
    <2> QED
      BY <2>1
  <1> HIDE DEF next, V
  <1>6. \A o \in 0..n : \A g \in [0..n -> V] : step[<<o, g>>] = next(o, g)
    OBVIOUS
  <1>7. step \in [(0..n) \X [0..n -> V] -> V]
    <2>1. \A p \in (0..n) \X [0..n -> V] : next(p[1], p[2]) \in V
      BY <1>4
    <2> QED
      BY <2>1
  <1> HIDE DEF step
  <1>8. \A o \in 0..n : \A g, h \in [0..n -> V] :
             (\A j \in 0..n : j > o => g[j] = h[j]) => step[<<o, g>>] = step[<<o, h>>]
    <2> SUFFICES ASSUME NEW o \in 0..n, NEW g \in [0..n -> V], NEW h \in [0..n -> V],
                        \A j \in 0..n : j > o => g[j] = h[j]
                 PROVE  step[<<o, g>>] = step[<<o, h>>]
      OBVIOUS
    <2>1. next(o, g) = next(o, h)
      BY <1>5
    <2>2. step[<<o, g>>] = next(o, g) /\ step[<<o, h>>] = next(o, h)
      BY <1>6
    <2> QED
      BY <2>1, <2>2
  <1>9. RunsDown(n, V, step)
    BY <1>1, <1>3, <1>7, <1>8, DownRecursion
  <1>10. PICK g \in [0..n -> V] : \A o \in 0..n : g[o] = step[<<o, g>>]
    BY <1>9 DEF RunsDown
  <1>11. g = [o \in 0..n |-> next(o, g)]
    <2>1. g = [o \in 0..n |-> g[o]]
      OBVIOUS
    <2>2. \A o \in 0..n : g[o] = next(o, g)
      BY <1>6, <1>10
    <2> QED
      BY <2>1, <2>2
  <1>12. FindsUnits(F, g)
    BY <1>11 DEF FindsUnits, next, n
  <1>13. UnitsFrom(F) = CHOOSE f : FindsUnits(F, f)
    BY DEF UnitsFrom, FindsUnits
  <1> QED
    BY <1>12, <1>13

(* A decoder finds the units of a stream. *)
THEOREM UnitsOfStream ==
    ASSUME NEW F, NEW nals, IsStream(F, nals), Units(nals)
    PROVE  UnitsOf(F) = nals
  <1>1. PICK at, from : Placed(F, nals, at, from)
    BY StreamPlaced
  <1>2. F \in Seq(Byte) /\ Parts(nals, Byte)
    BY StreamTypes
  <1> DEFINE f == UnitsFrom(F)
             n == Len(nals)
  <1>3. FindsUnits(F, f)
    BY <1>1, <1>2, UnitsRun
  <1>4. /\ n \in Nat /\ Len(F) \in Nat /\ at \in [0..n -> Nat] /\ at[0] = 0 /\ at[n] = Len(F)
        /\ nals \in Seq(Seq(Byte))
    BY <1>1, <1>2 DEF Placed, Parts
  <1>5. \A o \in 0..Len(F) : f[o] = IF o = Len(F) THEN <<>>
                                    ELSE IF o \in Codes(F) THEN <<SubSeq(F, o + 4, UnitEnd(F, o))>> \o f[o + 1]
                                    ELSE f[o + 1]
    <2> HIDE DEF f
    <2> DEFINE h == [o \in 0..Len(F) |-> IF o = Len(F) THEN <<>>
                                    ELSE IF o \in Codes(F) THEN <<SubSeq(F, o + 4, UnitEnd(F, o))>> \o f[o + 1]
                                    ELSE f[o + 1]]
    <2>1. f = h
      BY <1>3 DEF FindsUnits
    <2>2. \A o \in 0..Len(F) : h[o] = IF o = Len(F) THEN <<>>
                                    ELSE IF o \in Codes(F) THEN <<SubSeq(F, o + 4, UnitEnd(F, o))>> \o f[o + 1]
                                    ELSE f[o + 1]
      OBVIOUS
    <2> HIDE DEF h
    <2> QED
      BY <2>1, <2>2
  <1> HIDE DEF f, n
  <1> DEFINE rest(i) == SubSeq(nals, i + 1, n)
             S == {i \in 0..n : f[at[i]] = rest(i)}
  <1>6. n \in S
    <2>1. Len(F) \in 0..Len(F)
      BY <1>4
    <2>2. f[Len(F)] = <<>>
      BY <1>5, <2>1
    <2>3. n \in 0..n /\ n + 1 \in Int /\ n \in Int /\ n < n + 1
      BY <1>4
    <2>4. rest(n) = <<>>
      BY <2>3, SubSeqEmpty
    <2>5. f[at[n]] = rest(n)
      BY <1>4, <2>2, <2>4
    <2> HIDE DEF rest
    <2> QED
      BY <2>3, <2>5
  <1>7. ASSUME NEW i \in 0..(n - 1), i + 1 \in S PROVE i \in S
    <2> DEFINE k == i + 1
               c == from[k] - 3
    <2>1. k \in 1..n /\ k - 1 = i /\ k \in 0..n /\ i \in 0..n
      BY <1>4
    <2>2. f[at[k]] = rest(k)
      BY <1>7
    <2>3. /\ at[i] \in Nat /\ at[k] \in Nat /\ at[k] <= Len(F) /\ from[k] \in Nat
          /\ from[k] = at[i] + 3 \/ from[k] = at[i] + 4
      <3> HIDE DEF k, c
      <3>1. at[k - 1] \in Nat /\ at[k] \in Nat /\ at[k] <= Len(F) /\ from[k] \in Nat
        BY <1>1, <2>1, PlacedFacts DEF n
      <3>2. from[k] = at[k - 1] + 3 \/ from[k] = at[k - 1] + 4
        BY <1>1, <2>1 DEF Placed, n
      <3> QED
        BY <2>1, <3>1, <3>2
    <2>4. c \in Nat /\ CodeAt(F, c)
      BY <1>1, <2>1, PlacesAreCodes DEF n
    <2>5. from[k] < at[k]
      BY <1>1, <2>1, InOrder DEF n
    <2> HIDE DEF k
    <2>6. c + 3 = from[k] /\ at[i] <= c /\ c < at[k]
      BY <2>3, <2>5
    <2> HIDE DEF c
    <2>7. ASSUME NEW o \in at[i]..(at[k] - 1), o # c PROVE f[o] = f[o + 1]
      <3>1. o \in Nat /\ o \in 0..Len(F) /\ o # Len(F) /\ at[i] <= o /\ o < at[k]
        BY <1>4, <2>3
      <3>2. ASSUME o \in Codes(F) PROVE FALSE
        <4>1. PICK m \in 1..n : from[m] = o + 3
          BY <1>1, <1>2, <3>1, <3>2, CodeOfUnit DEF n
        <4>2. m \in Int /\ k \in Int
          BY <2>1
        <4>3. ASSUME k < m PROVE FALSE
          <5>1. at[k] <= from[m] - 3
            BY <1>1, <2>1, <4>3, InOrder DEF n
          <5> QED
            BY <2>3, <3>1, <4>1, <5>1
        <4>4. ASSUME m < k PROVE FALSE
          <5>1. from[m] < at[m]
            BY <1>1, InOrder DEF n
          <5>2. m \in 0..i /\ i \in 0..n
            BY <1>4, <2>1, <4>2, <4>4
          <5>3. at[m] <= at[i]
            BY <1>1, <5>2 DEF Placed, n
          <5>4. at[m] \in Nat
            BY <1>4, <5>2
          <5> QED
            BY <2>3, <3>1, <4>1, <5>1, <5>3, <5>4
        <4>5. m = k
          BY <4>2, <4>3, <4>4
        <4> QED
          BY <2>4, <2>6, <2>7, <3>1, <4>1, <4>5
      <3> QED
        BY <1>5, <3>1, <3>2
    <2>8. f[at[i]] = f[c]
      <3>1. \A o \in at[i]..(c - 1) : f[o] = f[o + 1]
        BY <2>3, <2>4, <2>6, <2>7
      <3> QED
        BY <2>3, <2>4, <2>6, <3>1, Skips
    <2>9. f[c + 1] = f[at[k]]
      <3>1. \A o \in (c + 1)..(at[k] - 1) : f[o] = f[o + 1]
        BY <2>3, <2>4, <2>6, <2>7
      <3>2. c + 1 \in Nat /\ c + 1 <= at[k]
        BY <2>3, <2>4, <2>6
      <3> QED
        BY <2>3, <3>1, <3>2, Skips
    <2>10. f[c] = <<nals[k]>> \o f[c + 1]
      <3>1. c \in Codes(F)
        BY <1>2, <2>4, CodesAreCodes
      <3>2. c \in 0..Len(F) /\ c # Len(F)
        BY <1>4, <2>3, <2>4, <2>6
      <3>3. PICK m \in 1..n : from[m] = c + 3 /\ SubSeq(F, c + 4, UnitEnd(F, c)) = nals[m]
        BY <1>1, <1>2, <2>4, <3>1, CodeOfUnit DEF n
      <3>4. m = k
        <4>1. m \in Int /\ k \in Int
          BY <2>1
        <4>2. (m < k => from[m] < from[k]) /\ (k < m => from[k] < from[m])
          BY <1>1, <2>1, InOrder DEF n
        <4> QED
          BY <2>3, <2>6, <3>3, <4>1, <4>2
      <3> QED
        BY <1>5, <3>1, <3>2, <3>3, <3>4
    <2>11. rest(i) = <<nals[k]>> \o rest(k)
      <3>1. SubSeq(nals, k, n) = <<nals[k]>> \o SubSeq(nals, k + 1, n)
        <4>1. k \in 1..Len(nals) /\ n \in k..Len(nals)
          BY <1>4, <2>1 DEF n
        <4> QED
          BY <1>4, <4>1, SubSeqRecursiveFirst
      <3>2. i + 1 = k
        BY DEF k
      <3> QED
        BY <3>1, <3>2
    <2>12. f[at[i]] = rest(i)
      BY <2>2, <2>8, <2>9, <2>10, <2>11
    <2> HIDE DEF rest
    <2> QED
      BY <2>1, <2>12
  <1>8. 0 \in S
    <2> HIDE DEF S
    <2>1. \A i \in 0..n : i \in S
      BY <1>4, <1>6, <1>7, DownInduction
    <2> QED
      BY <1>4, <2>1
  <1>9. f[0] = rest(0)
    BY <1>4, <1>8
  <1>10. rest(0) = nals
    BY <1>4, SubSeqFull DEF n
  <1> QED
    BY <1>9, <1>10 DEF UnitsOf, f

-----------------------------------------------------------------------------
(* The NAL unit types of a stream. *)

(* The recursion of TypesFrom, first as it is written ... *)
FindsTypes(F, f) ==
    f = [o \in 0..(Len(F) + 4) |->
            IF o + 3 >= Len(F) THEN <<>>
            ELSE LET tail == SubSeq(F, o + 1, Len(F))
                 IN  IF IsPrefix(<<0, 0, 1>>, tail) THEN <<NalType(tail[4])>> \o f[o + 3]
                     ELSE IF IsPrefix(StartCode, tail)
                          THEN IF Len(tail) = 4 THEN <<>> ELSE <<NalType(tail[5])>> \o f[o + 4]
                     ELSE f[o + 1]]

(* ... then by what is at an offset. *)
TypesNext(F, o, f) ==
    IF o + 3 >= Len(F) THEN <<>>
    ELSE IF CodeAt(F, o) THEN <<NalType(F[o + 4])>> \o f[o + 3]
    ELSE IF CodeAt(F, o + 1) /\ F[o + 1] = 0
         THEN IF o + 4 = Len(F) THEN <<>> ELSE <<NalType(F[o + 5])>> \o f[o + 4]
    ELSE f[o + 1]

(* One step of AnnexBNalTypeIter, on bytes instead of prefixes. *)
LEMMA TypesSteps ==
    ASSUME NEW F, F \in Seq(Byte), NEW o \in 0..(Len(F) + 4), NEW f
    PROVE  (IF o + 3 >= Len(F) THEN <<>>
            ELSE LET tail == SubSeq(F, o + 1, Len(F))
                 IN  IF IsPrefix(<<0, 0, 1>>, tail) THEN <<NalType(tail[4])>> \o f[o + 3]
                     ELSE IF IsPrefix(StartCode, tail)
                          THEN IF Len(tail) = 4 THEN <<>> ELSE <<NalType(tail[5])>> \o f[o + 4]
                     ELSE f[o + 1]) = TypesNext(F, o, f)
  <1> DEFINE t == SubSeq(F, o + 1, Len(F))
  <1>1. Len(F) \in Nat /\ o \in Nat
    BY LenProperties
  <1>2. CASE o + 3 >= Len(F)
    BY <1>2 DEF TypesNext
  <1>3. CASE ~(o + 3 >= Len(F))
    <2>1. o <= Len(F) /\ o + 4 <= Len(F)
      BY <1>1, <1>3
    <2>2. Len(t) = Len(F) - o /\ \A j \in 1..(Len(F) - o) : t[j] = F[o + j]
      BY <1>1, <2>1, Piece
    <2>3. /\ IsPrefix(<<0, 0, 1>>, t) <=> CodeAt(F, o)
          /\ IsPrefix(StartCode, t) <=> CodeAt(F, o + 1) /\ F[o + 1] = 0
      BY <1>1, <2>1, PrefixIsCode
    <2> HIDE DEF t
    <2>4. t[4] = F[o + 4] /\ (Len(t) = 4 <=> o + 4 = Len(F)) /\ (Len(t) # 4 => t[5] = F[o + 5])
      BY <1>1, <2>1, <2>2
    <2>5. (IF IsPrefix(<<0, 0, 1>>, t) THEN <<NalType(t[4])>> \o f[o + 3]
           ELSE IF IsPrefix(StartCode, t)
                THEN IF Len(t) = 4 THEN <<>> ELSE <<NalType(t[5])>> \o f[o + 4]
           ELSE f[o + 1])
          = (IF CodeAt(F, o) THEN <<NalType(F[o + 4])>> \o f[o + 3]
             ELSE IF CodeAt(F, o + 1) /\ F[o + 1] = 0
                  THEN IF o + 4 = Len(F) THEN <<>> ELSE <<NalType(F[o + 5])>> \o f[o + 4]
             ELSE f[o + 1])
      BY <2>3, <2>4
    <2> QED
      BY <1>3, <2>5 DEF TypesNext, t
  <1> QED
    BY <1>2, <1>3

(* TypesFrom has a value at every offset. *)
LEMMA TypesRun ==
    ASSUME NEW F, F \in Seq(Byte)
    PROVE  \A o \in 0..(Len(F) + 4) : TypesFrom(F)[o] = TypesNext(F, o, TypesFrom(F))
  <1> DEFINE n == Len(F) + 4
             end == Len(F)
             V == Seq(0..31)
             step == [p \in (0..n) \X [0..n -> V] |-> TypesNext(F, p[1], p[2])]
  <1>1. n \in Nat /\ end \in Nat /\ n = end + 4
    BY LenProperties
  <1>2. <<>> \in V /\ V # {}
    <2>1. <<>> \in V
      BY EmptySeq
    <2> QED
      BY <2>1
  <1>3. \A i \in 1..end : F[i] \in Byte
    BY ElementOfSeq
  <1>4. \A b \in Byte : NalType(b) \in 0..31
    BY DEF Byte, NalType
  <1> HIDE DEF n, end
  <1>5. ASSUME NEW b \in Byte, NEW h \in V PROVE <<NalType(b)>> \o h \in V
    <2> DEFINE u == <<NalType(b)>>
    <2>1. u \in V
      BY <1>4, OneSeq
    <2> HIDE DEF u
    <2>2. u \o h \in V
      BY <2>1, ConcatProperties
    <2> QED
      BY <2>2 DEF u
  <1>6. ASSUME NEW o \in 0..n, NEW g \in [0..n -> V] PROVE TypesNext(F, o, g) \in V
    <2>1. CASE o + 3 >= end
      BY <1>2, <2>1 DEF TypesNext, end
    <2>2. CASE ~(o + 3 >= end)
      <3>1. o + 1 \in 0..n /\ o + 3 \in 0..n /\ o + 4 \in 0..n /\ o + 4 \in 1..end
        BY <1>1, <2>2
      <3>2. g[o + 1] \in V /\ g[o + 3] \in V /\ g[o + 4] \in V /\ F[o + 4] \in Byte
        BY <1>3, <3>1
      <3>3. <<NalType(F[o + 4])>> \o g[o + 3] \in V
        BY <1>5, <3>2
      <3>4. ASSUME o + 4 # end PROVE <<NalType(F[o + 5])>> \o g[o + 4] \in V
        <4>1. o + 5 \in 1..end
          BY <1>1, <2>2, <3>4
        <4>2. F[o + 5] \in Byte
          BY <1>3, <4>1
        <4> QED
          BY <1>5, <3>2, <4>2
      <3> HIDE DEF V
      <3> QED
        BY <1>2, <2>2, <3>2, <3>3, <3>4 DEF TypesNext, end
    <2> QED
      BY <2>1, <2>2
  <1>7. ASSUME NEW o \in 0..n, NEW g \in [0..n -> V], NEW h \in [0..n -> V],
               \A j \in 0..n : j > o => g[j] = h[j]
        PROVE  TypesNext(F, o, g) = TypesNext(F, o, h)
    <2>1. CASE o + 3 >= end
      BY <2>1 DEF TypesNext, end
    <2>2. CASE ~(o + 3 >= end)
      <3>1. /\ o + 1 \in 0..n /\ o + 3 \in 0..n /\ o + 4 \in 0..n
            /\ o + 1 > o /\ o + 3 > o /\ o + 4 > o
        BY <1>1, <2>2
      <3>2. g[o + 1] = h[o + 1] /\ g[o + 3] = h[o + 3] /\ g[o + 4] = h[o + 4]
        BY <1>7, <3>1
      <3> QED
        BY <3>2 DEF TypesNext
    <2> QED
      BY <2>1, <2>2
  <1> HIDE DEF V
  <1>8. \A o \in 0..n : \A g \in [0..n -> V] : step[<<o, g>>] = TypesNext(F, o, g)
    OBVIOUS
  <1>9. step \in [(0..n) \X [0..n -> V] -> V]
    <2>1. \A p \in (0..n) \X [0..n -> V] : TypesNext(F, p[1], p[2]) \in V
      BY <1>6
    <2> QED
      BY <2>1
  <1> HIDE DEF step
  <1>10. \A o \in 0..n : \A g, h \in [0..n -> V] :
             (\A j \in 0..n : j > o => g[j] = h[j]) => step[<<o, g>>] = step[<<o, h>>]
    <2> SUFFICES ASSUME NEW o \in 0..n, NEW g \in [0..n -> V], NEW h \in [0..n -> V],
                        \A j \in 0..n : j > o => g[j] = h[j]
                 PROVE  step[<<o, g>>] = step[<<o, h>>]
      OBVIOUS
    <2>1. TypesNext(F, o, g) = TypesNext(F, o, h)
      BY <1>7
    <2>2. step[<<o, g>>] = TypesNext(F, o, g) /\ step[<<o, h>>] = TypesNext(F, o, h)
      BY <1>8
    <2> QED
      BY <2>1, <2>2
  <1>11. RunsDown(n, V, step)
    BY <1>1, <1>2, <1>9, <1>10, DownRecursion
  <1>12. PICK g \in [0..n -> V] : \A o \in 0..n : g[o] = step[<<o, g>>]
    BY <1>11 DEF RunsDown
  <1> DEFINE next(o, f) == IF o + 3 >= Len(F) THEN <<>>
            ELSE LET tail == SubSeq(F, o + 1, Len(F))
                 IN  IF IsPrefix(<<0, 0, 1>>, tail) THEN <<NalType(tail[4])>> \o f[o + 3]
                     ELSE IF IsPrefix(StartCode, tail)
                          THEN IF Len(tail) = 4 THEN <<>> ELSE <<NalType(tail[5])>> \o f[o + 4]
                     ELSE f[o + 1]
  <1>13. \A o \in 0..n : \A f : next(o, f) = TypesNext(F, o, f)
    BY TypesSteps DEF n
  <1>14. FindsTypes(F, g)
    <2> HIDE DEF next
    <2>1. g = [o \in 0..n |-> g[o]]
      OBVIOUS
    <2>2. \A o \in 0..n : g[o] = next(o, g)
      BY <1>8, <1>12, <1>13
    <2>3. g = [o \in 0..n |-> next(o, g)]
      BY <2>1, <2>2
    <2> QED
      BY <2>3 DEF FindsTypes, next, n
  <1>15. TypesFrom(F) = CHOOSE f : FindsTypes(F, f)
    BY DEF TypesFrom, FindsTypes
  <1> DEFINE f == TypesFrom(F)
  <1>16. FindsTypes(F, f)
    BY <1>14, <1>15
  <1> HIDE DEF f
  <1>17. f = [o \in 0..n |-> next(o, f)]
    BY <1>16 DEF FindsTypes, n
  <1> HIDE DEF next
  <1>18. \A o \in 0..n : f[o] = TypesNext(F, o, f)
    <2> DEFINE h == [o \in 0..n |-> next(o, f)]
    <2>1. \A o \in 0..n : h[o] = next(o, f)
      OBVIOUS
    <2>2. f = h
      BY <1>17
    <2> HIDE DEF h
    <2> QED
      BY <1>13, <2>1, <2>2
  <1> QED
    BY <1>18 DEF f, n

(* What the host takes for types of NAL units in a stream are types of its units. *)
LEMMA TypesOfStream ==
    ASSUME NEW F, NEW nals, IsStream(F, nals), Units(nals), NEW T,
           \A i \in 1..Len(nals) : NalType(nals[i][1]) \in T
    PROVE  /\ NalTypes(F) \in Seq(T)
           /\ nals # <<>> => NalTypes(F) # <<>> /\ Head(NalTypes(F)) = NalType(nals[1][1])
  <1>1. PICK at, from : Placed(F, nals, at, from)
    BY StreamPlaced
  <1>2. F \in Seq(Byte) /\ Parts(nals, Byte)
    BY StreamTypes
  <1> DEFINE f == TypesFrom(F)
             n == Len(F) + 4
             end == Len(F)
  <1>3. end \in Nat /\ n = end + 4
    BY <1>2, LenProperties
  <1>4. \A o \in 0..n : f[o] = TypesNext(F, o, f)
    BY <1>2, TypesRun
  <1>5. ASSUME NEW o \in Nat, CodeAt(F, o)
        PROVE  \E i \in 1..Len(nals) : from[i] = o + 3 /\ F[o + 4] = nals[i][1]
    <2>1. PICK i \in 1..Len(nals) : from[i] = o + 3
      BY <1>1, <1>5, CodePlaces
    <2>2. Len(nals[i]) \in Nat /\ Len(nals[i]) >= 1
      BY UnitFacts DEF Units
    <2>3. F[from[i] + 1] = nals[i][1]
      BY <1>1, <2>2 DEF Placed
    <2>4. from[i] + 1 = o + 4
      BY <2>1
    <2> QED
      BY <2>1, <2>3, <2>4
  <1> HIDE DEF f, n, end
  <1>6. ASSUME NEW o \in Nat, CodeAt(F, o) PROVE NalType(F[o + 4]) \in T
    BY <1>5, <1>6
  <1>7. ASSUME NEW t \in T, NEW h \in Seq(T)
        PROVE  <<t>> \o h \in Seq(T) /\ <<t>> \o h # <<>> /\ Head(<<t>> \o h) = t
    <2> DEFINE u == <<t>>
    <2>1. u \in Seq(T) /\ Len(u) = 1 /\ u[1] = t
      BY OneSeq
    <2> HIDE DEF u
    <2>2. u \o h \in Seq(T) /\ Len(u \o h) = 1 + Len(h) /\ Len(h) \in Nat
      BY <2>1, ConcatProperties, LenProperties
    <2>3. (u \o h)[1] = t
      BY <2>1, <2>2, ConcatProperties
    <2>4. u \o h # <<>>
      BY <2>2, EmptySeq
    <2>5. Head(u \o h) = (u \o h)[1]
      BY <2>2, <2>4
    <2> QED
      BY <2>2, <2>3, <2>4, <2>5 DEF u
  <1> DEFINE S == {o \in 0..n : \A p \in o..n : f[p] \in Seq(T)}
  <1>8. <<>> \in Seq(T)
    BY EmptySeq
  <1>9. n \in S
    <2>1. n \in 0..n /\ n + 3 >= Len(F)
      BY <1>3 DEF end
    <2>2. f[n] = <<>>
      BY <1>4, <2>1 DEF TypesNext
    <2>3. \A p \in n..n : p = n
      BY <1>3
    <2>4. \A p \in n..n : f[p] \in Seq(T)
      BY <1>8, <2>2, <2>3
    <2> QED
      BY <2>1, <2>4
  <1>10. ASSUME NEW o \in 0..(n - 1), o + 1 \in S PROVE o \in S
    <2>1. \A p \in (o + 1)..n : f[p] \in Seq(T)
      BY <1>10
    <2>2. o \in 0..n /\ o + 1 \in (o + 1)..n /\ o \in Nat
      BY <1>3
    <2>3. f[o] \in Seq(T)
      <3>1. CASE o + 3 >= Len(F)
        <4>1. f[o] = <<>>
          BY <1>4, <2>2, <3>1 DEF TypesNext
        <4> QED
          BY <1>8, <4>1
      <3>2. CASE ~(o + 3 >= Len(F))
        <4>1. o + 3 \in (o + 1)..n /\ o + 4 \in (o + 1)..n
          BY <1>3, <2>2, <3>2 DEF end
        <4>2. f[o + 1] \in Seq(T) /\ f[o + 3] \in Seq(T) /\ f[o + 4] \in Seq(T)
          BY <2>1, <2>2, <4>1
        <4>3. CodeAt(F, o) => <<NalType(F[o + 4])>> \o f[o + 3] \in Seq(T)
          BY <1>6, <1>7, <2>2, <4>2
        <4>4. CodeAt(F, o + 1) => <<NalType(F[o + 5])>> \o f[o + 4] \in Seq(T)
          <5>1. o + 1 \in Nat /\ (o + 1) + 4 = o + 5
            BY <2>2
          <5>2. CodeAt(F, o + 1) => NalType(F[o + 5]) \in T
            BY <1>6, <5>1
          <5> QED
            BY <1>7, <4>2, <5>2
        <4>5. f[o] = TypesNext(F, o, f)
          BY <1>4, <2>2
        <4> QED
          BY <1>8, <3>2, <4>2, <4>3, <4>4, <4>5 DEF TypesNext
      <3> QED
        BY <3>1, <3>2
    <2>4. \A p \in o..n : f[p] \in Seq(T)
      <3> SUFFICES ASSUME NEW p \in o..n PROVE f[p] \in Seq(T)
        OBVIOUS
      <3>1. p = o \/ p \in (o + 1)..n
        BY <1>3, <2>2
      <3> QED
        BY <2>1, <2>3, <3>1
    <2> QED
      BY <2>2, <2>4
  <1>11. \A p \in 0..n : f[p] \in Seq(T)
    <2> HIDE DEF S
    <2>1. \A o \in 0..n : o \in S
      BY <1>3, <1>9, <1>10, DownInduction
    <2>2. 0 \in S
      BY <1>3, <2>1
    <2> QED
      BY <2>2 DEF S
  <1>12. NalTypes(F) = f[0] /\ 0 \in 0..n
    BY <1>3 DEF NalTypes, f
  <1>13. ASSUME nals # <<>> PROVE f[0] # <<>> /\ Head(f[0]) = NalType(nals[1][1])
    <2>1. 1 \in 1..Len(nals) /\ 1 - 1 = 0
      <3>1. nals \in Seq(Seq(Byte))
        BY <1>2 DEF Parts
      <3>2. Len(nals) \in Nat \ {0}
        BY <1>13, <3>1, EmptySeq
      <3> QED
        BY <3>2
    <2>2. at[0] = 0
      BY <1>1 DEF Placed
    <2>3. /\ from[1] = 3 \/ from[1] = 4
          /\ at[1] <= Len(F) /\ at[1] \in Nat
          /\ \A p \in 1..(from[1] - 1) : F[p] = 0
      <3>1. from[1] = at[1 - 1] + 3 \/ from[1] = at[1 - 1] + 4
        BY <1>1, <2>1 DEF Placed
      <3>2. \A p \in (at[1 - 1] + 1)..(from[1] - 1) : F[p] = 0
        BY <1>1, <2>1 DEF Placed
      <3>3. at[1] <= Len(F) /\ at[1] \in Nat
        BY <1>1, <2>1, PlacedFacts
      <3> QED
        BY <2>1, <2>2, <3>1, <3>2, <3>3
    <2>4. from[1] < at[1]
      BY <1>1, <2>1, InOrder
    <2>5. CodeAt(F, from[1] - 3)
      BY <1>1, <2>1, PlacesAreCodes
    <2>6. F[from[1] + 1] = nals[1][1]
      <3>1. Len(nals[1]) \in Nat /\ Len(nals[1]) >= 1
        BY <2>1, UnitFacts DEF Units
      <3> QED
        BY <1>1, <2>1, <3>1 DEF Placed
    <2>7. NalType(nals[1][1]) \in T
      BY <2>1
    <2>8. f[0] = TypesNext(F, 0, f)
      BY <1>4, <1>12
    <2>9. CASE from[1] = 3
      <3>1. CodeAt(F, 0) /\ ~(0 + 3 >= Len(F)) /\ F[0 + 4] = nals[1][1] /\ 3 \in 0..n
        BY <1>3, <2>3, <2>4, <2>5, <2>6, <2>9 DEF end
      <3>2. f[0] = <<NalType(nals[1][1])>> \o f[3]
        BY <2>8, <3>1 DEF TypesNext
      <3> QED
        BY <1>7, <1>11, <2>7, <3>1, <3>2
    <2>10. CASE from[1] = 4
      <3>1. /\ CodeAt(F, 0 + 1) /\ F[0 + 1] = 0 /\ F[0 + 3] = 0
            /\ ~(0 + 3 >= Len(F)) /\ 0 + 4 # Len(F) /\ F[0 + 5] = nals[1][1] /\ 4 \in 0..n
        BY <1>3, <2>3, <2>4, <2>5, <2>6, <2>10 DEF end
      <3>2. ~CodeAt(F, 0)
        BY <3>1 DEF CodeAt
      <3>3. f[0] = <<NalType(nals[1][1])>> \o f[4]
        BY <2>8, <3>1, <3>2 DEF TypesNext
      <3> QED
        BY <1>7, <1>11, <2>7, <3>1, <3>3
    <2> QED
      BY <2>3, <2>9, <2>10
  <1> QED
    BY <1>11, <1>12, <1>13

(* What annex_b_starts_with_parameter_set and
   annex_b_contains_only_parameter_sets say of a stream. *)
LEMMA ParameterSetTypes ==
    ASSUME NEW F, NEW nals, IsStream(F, nals), Units(nals), nals # <<>>
    PROVE  /\ StartsWithParameterSet(F) <=> NalType(nals[1][1]) \in ParameterSets
           /\ (\A i \in 1..Len(nals) : NalType(nals[i][1]) \in ParameterSets) => OnlyParameterSets(F)
  <1> DEFINE T == {NalType(nals[i][1]) : i \in 1..Len(nals)}
  <1>1. NalTypes(F) # <<>> /\ Head(NalTypes(F)) = NalType(nals[1][1])
    <2>1. \A i \in 1..Len(nals) : NalType(nals[i][1]) \in T
      OBVIOUS
    <2> HIDE DEF T
    <2> QED
      BY <2>1, TypesOfStream
  <1>2. ASSUME \A i \in 1..Len(nals) : NalType(nals[i][1]) \in ParameterSets PROVE OnlyParameterSets(F)
    <2> DEFINE t == NalTypes(F)
    <2>1. t \in Seq(ParameterSets)
      BY <1>2, TypesOfStream
    <2> HIDE DEF t
    <2>2. ToSet(t) \subseteq ParameterSets
      BY <2>1, ElementOfSeq, LenProperties DEF ToSet
    <2> QED
      BY <1>1, <2>2 DEF OnlyParameterSets, t
  <1> QED
    BY <1>1, <1>2 DEF StartsWithParameterSet

-----------------------------------------------------------------------------
(* Length fields. *)

(* The recursion of BigEndian. *)
Reads(F, o, n, value) ==
    value = [i \in 0..n |-> IF i = 0 THEN 0 ELSE value[i - 1] * 256 + F[o + i]]

(* ... and its value. *)
Sums(F, o, n, value) ==
    /\ BigEndian(F, o, n) = value[n]
    /\ \A i \in 0..n : value[i] = IF i = 0 THEN 0 ELSE value[i - 1] * 256 + F[o + i]

(* BigEndian has a value after every byte. *)
LEMMA BigEndianSteps ==
    ASSUME NEW F, NEW o \in Nat, NEW n \in Nat, \A i \in 1..n : F[o + i] \in Byte
    PROVE  \E value : Sums(F, o, n, value)
  <1> DEFINE step == [p \in Nat \X (1..n) |-> p[1] * 256 + F[o + p[2]]]
  <1>1. \A x \in Nat : \A i \in 1..n : step[<<x, i>>] = x * 256 + F[o + i] /\ x * 256 + F[o + i] \in Nat
    <2> SUFFICES ASSUME NEW x \in Nat, NEW i \in 1..n
                 PROVE  step[<<x, i>>] = x * 256 + F[o + i] /\ x * 256 + F[o + i] \in Nat
      OBVIOUS
    <2>1. F[o + i] \in Nat
      BY DEF Byte
    <2>2. <<x, i>> \in Nat \X (1..n)
      OBVIOUS
    <2>3. step[<<x, i>>] = x * 256 + F[o + i]
      BY <2>2
    <2> QED
      BY <2>1, <2>3
  <1>2. step \in [Nat \X (1..n) -> Nat]
    <2>1. ASSUME NEW p \in Nat \X (1..n) PROVE p[1] * 256 + F[o + p[2]] \in Nat
      <3>1. p[1] \in Nat /\ p[2] \in 1..n
        OBVIOUS
      <3> QED
        BY <1>1, <3>1
    <2> QED
      BY <2>1
  <1> HIDE DEF step
  <1>3. RunsUp(n, Nat, 0, step)
    BY <1>2, UpRecursion
  <1>4. PICK g \in [0..n -> Nat] : \A i \in 0..n : g[i] = IF i = 0 THEN 0 ELSE step[<<g[i - 1], i>>]
    BY <1>3 DEF RunsUp
  <1>5. ASSUME NEW i \in 0..n PROVE g[i] = IF i = 0 THEN 0 ELSE g[i - 1] * 256 + F[o + i]
    <2>1. CASE i = 0
      BY <1>4, <2>1
    <2>2. CASE i # 0
      <3>1. i - 1 \in 0..n /\ i \in 1..n
        BY <2>2
      <3>2. g[i - 1] \in Nat
        BY <3>1
      <3>3. g[i] = step[<<g[i - 1], i>>]
        BY <1>4, <2>2
      <3> QED
        BY <1>1, <2>2, <3>1, <3>2, <3>3
    <2> QED
      BY <2>1, <2>2
  <1> DEFINE next(i, f) == IF i = 0 THEN 0 ELSE f[i - 1] * 256 + F[o + i]
  <1>6. Reads(F, o, n, g)
    <2>1. g = [i \in 0..n |-> g[i]]
      OBVIOUS
    <2>2. \A i \in 0..n : g[i] = next(i, g)
      BY <1>5
    <2> HIDE DEF next
    <2>3. g = [i \in 0..n |-> next(i, g)]
      BY <2>1, <2>2
    <2> QED
      BY <2>3 DEF Reads, next
  <1> DEFINE value == CHOOSE f : Reads(F, o, n, f)
  <1>7. BigEndian(F, o, n) = value[n]
    BY DEF BigEndian, Reads
  <1>8. Reads(F, o, n, value)
    BY <1>6
  <1> HIDE DEF value
  <1>9. value = [i \in 0..n |-> next(i, value)]
    BY <1>8 DEF Reads
  <1> HIDE DEF next
  <1>10. \A i \in 0..n : value[i] = next(i, value)
    <2> DEFINE h == [i \in 0..n |-> next(i, value)]
    <2>1. \A i \in 0..n : h[i] = next(i, value)
      OBVIOUS
    <2>2. value = h
      BY <1>9
    <2> HIDE DEF h
    <2> QED
      BY <2>1, <2>2
  <1>11. Sums(F, o, n, value)
    BY <1>7, <1>10 DEF next, Sums
  <1> QED
    BY <1>11

(* A length field says a number. *)
LEMMA BigEndianNat ==
    ASSUME NEW F, NEW o \in Nat, NEW n \in 1..4, \A i \in 1..n : F[o + i] \in Byte
    PROVE  BigEndian(F, o, n) \in Nat
  <1>1. PICK value : Sums(F, o, n, value)
    <2>1. n \in Nat
      OBVIOUS
    <2> QED
      BY <2>1, BigEndianSteps
  <1>2. /\ BigEndian(F, o, n) = value[n]
        /\ \A i \in 0..n : value[i] = IF i = 0 THEN 0 ELSE value[i - 1] * 256 + F[o + i]
    BY <1>1 DEF Sums
  <1>3. value[0] \in Nat
    BY <1>2
  <1>4. ASSUME NEW i \in 1..n, value[i - 1] \in Nat PROVE value[i] \in Nat
    <2>1. F[o + i] \in Nat
      BY DEF Byte
    <2>2. value[i] = value[i - 1] * 256 + F[o + i]
      BY <1>2
    <2> DEFINE x == value[i - 1]
               y == F[o + i]
    <2>3. x \in Nat /\ y \in Nat /\ value[i] = x * 256 + y
      BY <1>4, <2>1, <2>2
    <2> HIDE DEF x, y
    <2> QED
      BY <2>3
  <1>5. value[1] \in Nat
    BY <1>3, <1>4
  <1>6. n >= 2 => value[2] \in Nat
    BY <1>4, <1>5
  <1>7. n >= 3 => value[3] \in Nat
    BY <1>4, <1>6
  <1>8. n >= 4 => value[4] \in Nat
    BY <1>4, <1>7
  <1> QED
    BY <1>2, <1>5, <1>6, <1>7, <1>8

(* A number that fits into n bytes is read back. *)
LEMMA BytesFacts ==
    ASSUME NEW v \in Nat, NEW n \in 1..4
    PROVE  /\ Bytes(n, v) \in Seq(Byte) /\ Len(Bytes(n, v)) = n
           /\ \A i \in 1..n : Bytes(n, v)[i] = (v \div Weight[n - i + 1]) % 256
  <1> DEFINE b == Bytes(n, v)
  <1>1. \A i \in 1..4 : Weight[i] \in Nat /\ Weight[i] > 0
    BY DEF Weight
  <1>2. ASSUME NEW i \in 1..n PROVE (v \div Weight[n - i + 1]) % 256 \in Byte
    <2> DEFINE w == Weight[n - i + 1]
    <2>1. w \in Nat /\ w > 0
      BY <1>1
    <2> HIDE DEF w
    <2>2. v \div w \in Int
      BY <2>1
    <2>3. (v \div w) % 256 \in 0..255
      BY <2>2
    <2> QED
      BY <2>3 DEF Byte, w
  <1>3. n \in Nat
    OBVIOUS
  <1> DEFINE e(i) == (v \div Weight[n - i + 1]) % 256
  <1>4. b = [i \in 1..n |-> e(i)]
    BY DEF Bytes
  <1>5. \A i \in 1..n : e(i) \in Byte
    BY <1>2
  <1> HIDE DEF e, b
  <1>6. b \in Seq(Byte) /\ Len(b) = n /\ \A i \in 1..n : b[i] = e(i)
    BY <1>3, <1>4, <1>5
  <1> QED
    BY <1>6 DEF b, e

(* A length that fits into its field is read back. *)
LEMMA BigEndianBytes ==
    ASSUME NEW F, NEW o \in Nat, NEW n \in 1..4, NEW v \in Nat, IsShort(v, n),
           \A i \in 1..n : F[o + i] = Bytes(n, v)[i]
    PROVE  BigEndian(F, o, n) = v
  <1>1. \A i \in 1..n : F[o + i] = (v \div Weight[n - i + 1]) % 256 /\ F[o + i] \in Byte
    <2> DEFINE b == Bytes(n, v)
    <2>1. /\ b \in Seq(Byte) /\ Len(b) = n
          /\ \A i \in 1..n : b[i] = (v \div Weight[n - i + 1]) % 256
      BY BytesFacts
    <2> HIDE DEF b
    <2>2. \A i \in 1..n : b[i] \in Byte
      BY <2>1, ElementOfSeq
    <2>3. \A i \in 1..n : F[o + i] = b[i]
      BY DEF b
    <2> QED
      BY <2>1, <2>2, <2>3
  <1>2. PICK value : Sums(F, o, n, value)
    <2>1. n \in Nat /\ \A i \in 1..n : F[o + i] \in Byte
      BY <1>1
    <2> QED
      BY <2>1, BigEndianSteps
  <1>3. /\ BigEndian(F, o, n) = value[n]
        /\ \A i \in 0..n : value[i] = IF i = 0 THEN 0 ELSE value[i - 1] * 256 + F[o + i]
    BY <1>2 DEF Sums
  <1>4. /\ Weight[1] = 1 /\ Weight[2] = 256 /\ Weight[3] = 65536 /\ Weight[4] = 16777216
    BY DEF Weight
  <1>5. /\ value[0] = 0
        /\ n >= 1 => value[1] = value[0] * 256 + F[o + 1]
        /\ n >= 2 => value[2] = value[1] * 256 + F[o + 2]
        /\ n >= 3 => value[3] = value[2] * 256 + F[o + 3]
        /\ n >= 4 => value[4] = value[3] * 256 + F[o + 4]
    BY <1>3
  <1> DEFINE v1 == v \div 256
             v2 == v \div 65536
             v3 == v \div 16777216
  <1>6. /\ v1 \in Nat /\ v2 \in Nat /\ v3 \in Nat
        /\ v = v1 * 256 + (v % 256)
        /\ v1 = v2 * 256 + (v1 % 256)
        /\ v2 = v3 * 256 + (v2 % 256)
        /\ v \div 1 = v
    <2>1. v1 \in Nat /\ v2 \in Nat /\ v3 \in Nat /\ v \div 1 = v
      OBVIOUS
    <2>2. v = v1 * 256 + (v % 256)
      OBVIOUS
    <2>3. v2 = v1 \div 256
      OBVIOUS
    <2>4. v3 = v2 \div 256
      OBVIOUS
    <2> HIDE DEF v1, v2, v3
    <2>5. v1 = (v1 \div 256) * 256 + (v1 % 256)
      BY <2>1
    <2>6. v2 = (v2 \div 256) * 256 + (v2 % 256)
      BY <2>1
    <2> QED
      BY <2>1, <2>2, <2>3, <2>4, <2>5, <2>6
  <1> HIDE DEF v1, v2, v3
  <1>7. ASSUME NEW x \in Nat, x < 256 PROVE x % 256 = x
    BY <1>7
  <1>8. CASE n = 1
    <2>1. F[o + 1] = v % 256 /\ v < 256
      BY <1>1, <1>4, <1>6, <1>8 DEF IsShort
    <2>2. value[1] = v
      BY <1>5, <1>7, <1>8, <2>1
    <2> QED
      BY <1>3, <1>8, <2>2
  <1>9. CASE n = 2
    <2>1. F[o + 1] = v1 % 256 /\ F[o + 2] = v % 256 /\ v1 < 256
      BY <1>1, <1>4, <1>6, <1>9 DEF IsShort, v1
    <2>2. value[1] = v1
      BY <1>5, <1>6, <1>7, <1>9, <2>1
    <2>3. value[2] = v
      BY <1>5, <1>6, <1>9, <2>1, <2>2
    <2> QED
      BY <1>3, <1>9, <2>3
  <1>10. CASE n = 3
    <2>1. F[o + 1] = v2 % 256 /\ F[o + 2] = v1 % 256 /\ F[o + 3] = v % 256 /\ v2 < 256
      BY <1>1, <1>4, <1>6, <1>10 DEF IsShort, v1, v2
    <2>2. value[1] = v2
      BY <1>5, <1>6, <1>7, <1>10, <2>1
    <2>3. value[2] = v1
      <3>1. value[2] = value[1] * 256 + F[o + 2]
        BY <1>5, <1>10
      <3>2. F[o + 2] = v1 % 256
        BY <2>1
      <3>3. v1 = v2 * 256 + (v1 % 256)
        BY <1>6
      <3> QED
        BY <2>2, <3>1, <3>2, <3>3, Zenon
    <2>4. value[3] = v
      <3>1. value[3] = value[2] * 256 + F[o + 3]
        BY <1>5, <1>10
      <3>2. F[o + 3] = v % 256
        BY <2>1
      <3>3. v = v1 * 256 + (v % 256)
        BY <1>6
      <3> QED
        BY <2>3, <3>1, <3>2, <3>3, Zenon
    <2> QED
      BY <1>3, <1>10, <2>4
  <1>11. CASE n = 4
    <2>1. F[o + 1] = v3 % 256 /\ F[o + 2] = v2 % 256 /\ F[o + 3] = v1 % 256 /\ F[o + 4] = v % 256 /\ v3 < 256
      BY <1>1, <1>4, <1>6, <1>11 DEF IsShort, v1, v2, v3
    <2>2. value[1] = v3
      BY <1>5, <1>6, <1>7, <1>11, <2>1
    <2>3. value[2] = v2
      <3>1. value[2] = value[1] * 256 + F[o + 2]
        BY <1>5, <1>11
      <3>2. F[o + 2] = v2 % 256
        BY <2>1
      <3>3. v2 = v3 * 256 + (v2 % 256)
        BY <1>6
      <3> QED
        BY <2>2, <3>1, <3>2, <3>3, Zenon
    <2>4. value[3] = v1
      <3>1. value[3] = value[2] * 256 + F[o + 3]
        BY <1>5, <1>11
      <3>2. F[o + 3] = v1 % 256
        BY <2>1
      <3>3. v1 = v2 * 256 + (v1 % 256)
        BY <1>6
      <3> QED
        BY <2>3, <3>1, <3>2, <3>3, Zenon
    <2>5. value[4] = v
      <3>1. value[4] = value[3] * 256 + F[o + 4]
        BY <1>5, <1>11
      <3>2. F[o + 4] = v % 256
        BY <2>1
      <3>3. v = v1 * 256 + (v % 256)
        BY <1>6
      <3> QED
        BY <2>4, <3>1, <3>2, <3>3, Zenon
    <2> QED
      BY <1>3, <1>11, <2>5
  <1> QED
    BY <1>8, <1>9, <1>10, <1>11

(* Behind offset a of F there are units with lengths of n bytes: unit i ends at at[i]. *)
Prefixed(F, a, nals, n, at) ==
    /\ at \in [0..Len(nals) -> Nat]
    /\ at[0] = a /\ at[Len(nals)] = a + Len(LengthPrefixed(nals, n))
    /\ \A i \in 1..Len(nals) :
          /\ Len(nals[i]) \in Nat
          /\ at[i] = (at[i - 1] + n) + Len(nals[i])
          /\ at[i] <= Len(F)
          /\ BigEndian(F, at[i - 1], n) = Len(nals[i])
          /\ SubSeq(F, (at[i - 1] + n) + 1, at[i]) = nals[i]

(* The parts of the length-prefixed format lie one behind the other. *)
LEMMA LengthsLaid ==
    ASSUME NEW nals, Parts(nals, Byte), NEW n \in 1..4
    PROVE  /\ LengthPrefixed(nals, n) \in Seq(Byte)
           /\ \E s, at : /\ Laid(LengthPrefixed(nals, n), s, at) /\ Parts(s, Byte)
                         /\ Len(s) = Len(nals)
                         /\ \A i \in 1..Len(nals) : s[i] = Bytes(n, Len(nals[i])) \o nals[i]
  <1> DEFINE part(i) == Bytes(n, Len(nals[i])) \o nals[i]
             s == [i \in 1..Len(nals) |-> part(i)]
  <1>1. Len(nals) \in Nat /\ \A i \in 1..Len(nals) : nals[i] \in Seq(Byte) /\ Len(nals[i]) \in Nat
    BY PartsFacts
  <1>2. \A i \in 1..Len(nals) : part(i) \in Seq(Byte)
    <2> SUFFICES ASSUME NEW i \in 1..Len(nals) PROVE part(i) \in Seq(Byte)
      OBVIOUS
    <2> DEFINE b == Bytes(n, Len(nals[i]))
    <2>1. b \in Seq(Byte)
      BY <1>1, BytesFacts
    <2> HIDE DEF b
    <2>2. b \o nals[i] \in Seq(Byte)
      BY <1>1, <2>1, ConcatProperties
    <2> QED
      BY <2>2 DEF b
  <1>3. LengthPrefixed(nals, n) = FlattenSeq(s)
    BY DEF LengthPrefixed
  <1> HIDE DEF part
  <1>4. Parts(s, Byte) /\ Len(s) = Len(nals) /\ \A i \in 1..Len(nals) : s[i] = part(i)
    BY <1>1, <1>2 DEF Parts
  <1> HIDE DEF s
  <1>5. PICK at : Laid(FlattenSeq(s), s, at)
    BY <1>4, FlattenLayout
  <1>6. FlattenSeq(s) \in Seq(Byte)
    BY <1>4, FlattenLayout
  <1> QED
    BY <1>3, <1>4, <1>5, <1>6 DEF part

(* Wherever units with lengths are embedded, every length and every unit is in its place. *)
LEMMA LengthsPlaced ==
    ASSUME NEW nals, Parts(nals, Byte), NEW n \in 1..4,
           \A i \in 1..Len(nals) : IsShort(Len(nals[i]), n),
           NEW F, F \in Seq(Byte), NEW a \in Nat,
           a + Len(LengthPrefixed(nals, n)) <= Len(F),
           \A p \in 1..Len(LengthPrefixed(nals, n)) : F[a + p] = LengthPrefixed(nals, n)[p]
    PROVE  \E at : Prefixed(F, a, nals, n, at)
  <1> DEFINE m == Len(nals)
             G == LengthPrefixed(nals, n)
  <1>1. PICK s, bt : /\ Laid(G, s, bt) /\ Parts(s, Byte)
                     /\ Len(s) = m
                     /\ \A i \in 1..m : s[i] = Bytes(n, Len(nals[i])) \o nals[i]
    BY LengthsLaid
  <1>2. G \in Seq(Byte)
    BY LengthsLaid
  <1>3. /\ m \in Nat /\ Len(G) \in Nat /\ Len(F) \in Nat /\ n \in Nat /\ n >= 1
        /\ a + Len(G) <= Len(F) /\ \A p \in 1..Len(G) : F[a + p] = G[p]
        /\ \A i \in 1..m : nals[i] \in Seq(Byte) /\ Len(nals[i]) \in Nat
    <2>1. m \in Nat /\ \A i \in 1..m : nals[i] \in Seq(Byte) /\ Len(nals[i]) \in Nat
      BY PartsFacts
    <2>2. Len(G) \in Nat /\ Len(F) \in Nat
      BY <1>2, LenProperties
    <2> HIDE DEF m
    <2> QED
      BY <2>1, <2>2
  <1> HIDE DEF m, G
  <1>4. /\ bt \in [0..m -> Nat] /\ bt[0] = 0 /\ bt[m] = Len(G)
        /\ \A i \in 1..m : /\ bt[i] = bt[i - 1] + Len(s[i])
                           /\ \A j \in 1..Len(s[i]) : G[bt[i - 1] + j] = s[i][j]
    BY <1>1 DEF Laid
  <1>5. \A i \in 0..m : bt[i] \in 0..Len(G)
    BY <1>1, <1>2, LaidFacts
  <1> DEFINE at == [i \in 0..m |-> a + bt[i]]
  <1>6. at \in [0..m -> Nat] /\ \A i \in 0..m : at[i] = a + bt[i]
    BY <1>4
  <1> HIDE DEF at
  <1>7. ASSUME NEW i \in 1..m
        PROVE  /\ at[i] = (at[i - 1] + n) + Len(nals[i])
               /\ at[i] <= Len(F)
               /\ BigEndian(F, at[i - 1], n) = Len(nals[i])
               /\ SubSeq(F, (at[i - 1] + n) + 1, at[i]) = nals[i]
    <2> DEFINE x == at[i - 1]
               y == bt[i - 1]
               l == Len(nals[i])
               b == Bytes(n, l)
               nal == nals[i]
    <2>1. i \in 0..m /\ i - 1 \in 0..m
      BY <1>3
    <2>2. x = a + y /\ at[i] = a + bt[i] /\ y \in Nat /\ bt[i] \in Nat /\ bt[i] <= Len(G)
      BY <1>3, <1>5, <1>6, <2>1
    <2>3. b \in Seq(Byte) /\ Len(b) = n
      BY <1>3, BytesFacts
    <2>4. nal \in Seq(Byte) /\ Len(nal) = l /\ l \in Nat /\ s[i] = b \o nal
      BY <1>1, <1>3
    <2>5. bt[i] = y + Len(s[i]) /\ \A j \in 1..Len(s[i]) : G[y + j] = s[i][j]
      BY <1>4
    <2>6. IsShort(l, n)
      BY DEF m
    <2> HIDE DEF b, l, nal, x, y
    <2>7. Len(s[i]) = n + l /\ \A j \in 1..(n + l) : s[i][j] = IF j <= n THEN b[j] ELSE nal[j - n]
      BY <2>3, <2>4, ConcatProperties
    <2>8. bt[i] = y + (n + l) /\ at[i] = (x + n) + l /\ x \in Nat
      BY <1>3, <2>2, <2>4, <2>5, <2>7
    <2>9. ASSUME NEW j \in 1..(n + l)
          PROVE  F[x + j] = IF j <= n THEN b[j] ELSE nal[j - n]
      <3>1. y + j \in 1..Len(G) /\ a + (y + j) = x + j
        <4>1. j \in Nat /\ j >= 1 /\ j <= n + l
          BY <1>3, <2>4
        <4>2. y \in Nat /\ n \in Nat /\ l \in Nat /\ Len(G) \in Nat /\ bt[i] <= Len(G) /\ bt[i] = y + (n + l)
          BY <1>3, <2>2, <2>4, <2>8
        <4>3. y + j <= Len(G)
          BY <4>1, <4>2
        <4>4. a + (y + j) = x + j
          BY <2>2, <4>1, <4>2
        <4> QED
          BY <4>1, <4>2, <4>3, <4>4
      <3>2. F[a + (y + j)] = G[y + j]
        BY <1>3, <3>1
      <3>3. G[y + j] = s[i][j]
        BY <2>5, <2>7
      <3>4. F[x + j] = s[i][j]
        BY <3>1, <3>2, <3>3
      <3> QED
        BY <2>7, <3>4
    <2>10. at[i] <= Len(F)
      BY <1>3, <2>2
    <2>11. BigEndian(F, x, n) = l
      <3>1. \A j \in 1..n : F[x + j] = b[j]
        <4> SUFFICES ASSUME NEW j \in 1..n PROVE F[x + j] = b[j]
          OBVIOUS
        <4>1. j \in 1..(n + l) /\ j <= n
          BY <1>3, <2>4
        <4> QED
          BY <2>9, <4>1
      <3> QED
        BY <2>4, <2>6, <2>8, <3>1, BigEndianBytes DEF b
    <2>12. SubSeq(F, (x + n) + 1, at[i]) = nal
      <3> DEFINE c == x + n
                 d == at[i]
                 u == SubSeq(F, c + 1, d)
      <3>1. c \in Nat /\ d \in Nat /\ d <= Len(F) /\ d - c = l /\ c <= d
        BY <1>3, <2>4, <2>8, <2>10
      <3> HIDE DEF c, d
      <3>2. /\ u \in Seq(Byte) /\ Len(u) = IF c <= d THEN d - c ELSE 0
            /\ \A j \in 1..(d - c) : u[j] = F[c + j]
        BY <3>1, Piece
      <3>3. ASSUME NEW j \in 1..l PROVE F[c + j] = nal[j]
        <4>1. n + j \in 1..(n + l) /\ ~(n + j <= n) /\ (n + j) - n = j /\ x + (n + j) = c + j
          <5>1. n \in Nat /\ x \in Nat /\ l \in Nat /\ j \in Nat /\ j >= 1 /\ j <= l
            BY <1>3, <2>4, <2>8
          <5> QED
            BY <5>1 DEF c
        <4>2. F[x + (n + j)] = nal[j]
          BY <2>9, <4>1
        <4> QED
          BY <4>1, <4>2
      <3> HIDE DEF u
      <3>4. Len(u) = Len(nal) /\ \A j \in 1..Len(u) : u[j] = nal[j]
        BY <2>4, <3>1, <3>2, <3>3
      <3>5. u = nal
        BY <2>4, <3>2, <3>4, SeqEqual
      <3> QED
        BY <3>5 DEF u, c, d
    <2> QED
      BY <2>8, <2>10, <2>11, <2>12 DEF x, l, nal
  <1>8. at[0] = a /\ at[m] = a + Len(G)
    <2>1. 0 \in 0..m /\ m \in 0..m
      BY <1>3
    <2>2. at[0] = a + 0 /\ at[m] = a + Len(G)
      BY <1>4, <1>6, <2>1
    <2> QED
      BY <2>2
  <1>9. Prefixed(F, a, nals, n, at)
    BY <1>3, <1>6, <1>7, <1>8 DEF Prefixed, m, G
  <1> QED
    BY <1>9

(* The recursion of Converted. *)
ConvertedNext(F, n, o, rest) ==
    IF o = Len(F) THEN Done(<<>>)
    ELSE IF Len(F) - o < n THEN Failed
    ELSE IF (o + n) + BigEndian(F, o, n) = o + n THEN rest[o + n]
    ELSE IF (o + n) + BigEndian(F, o, n) > Len(F) \/ ~rest[(o + n) + BigEndian(F, o, n)].ok THEN Failed
    ELSE Done(StartCode \o SubSeq(F, (o + n) + 1, (o + n) + BigEndian(F, o, n))
                  \o rest[(o + n) + BigEndian(F, o, n)].data)

(* The recursion of Converted. *)
Converts(F, n, rest) == rest = [o \in 0..Len(F) |-> ConvertedNext(F, n, o, rest)]

(* Converted has a value at every offset. *)
LEMMA ConvertedRun ==
    ASSUME NEW F, F \in Seq(Byte), NEW n \in 1..4
    PROVE  \A o \in 0..Len(F) : Converted(F, n)[o] = ConvertedNext(F, n, o, Converted(F, n))
  <1> DEFINE end == Len(F)
             V == [ok : BOOLEAN, data : Seq(Byte)]
             step == [p \in (0..end) \X [0..end -> V] |-> ConvertedNext(F, n, p[1], p[2])]
  <1>1. end \in Nat /\ n \in Nat /\ n >= 1 /\ \A i \in 1..end : F[i] \in Byte
    <2>1. end \in Nat
      BY LenProperties
    <2>2. \A i \in 1..end : F[i] \in Byte
      BY ElementOfSeq
    <2> QED
      BY <2>1, <2>2
  <1>2. Done(<<>>) \in V /\ Failed \in V /\ V # {}
    <2>1. <<>> \in Seq(Byte)
      BY EmptySeq
    <2>2. Done(<<>>) \in V /\ Failed \in V
      BY <2>1 DEF Done, Failed
    <2> QED
      BY <2>2
  <1>3. StartCode \in Seq(Byte)
    BY CodeFacts DEF StartCodes
  <1>4. \A d \in Seq(Byte) : Done(d) \in V
    BY DEF Done
  <1>5. \A v \in V : v.data \in Seq(Byte)
    OBVIOUS
  <1> HIDE DEF end, V
  <1>6. ASSUME NEW o \in 0..end, o # end, ~(end - o < n)
        PROVE  /\ o + n \in Nat /\ BigEndian(F, o, n) \in Nat /\ (o + n) + BigEndian(F, o, n) \in Nat
               /\ o + n > o /\ (o + n) + BigEndian(F, o, n) > o /\ o + n \in 0..end
    <2>1. \A i \in 1..n : F[o + i] \in Byte
      <3> SUFFICES ASSUME NEW i \in 1..n PROVE F[o + i] \in Byte
        OBVIOUS
      <3>1. o + i \in 1..end
        BY <1>1, <1>6
      <3> QED
        BY <1>1, <3>1
    <2>2. o \in Nat
      BY <1>1
    <2>3. BigEndian(F, o, n) \in Nat
      BY <2>1, <2>2, BigEndianNat
    <2> QED
      BY <1>1, <1>6, <2>2, <2>3
  <1>7. ASSUME NEW o \in 0..end, NEW g \in [0..end -> V] PROVE ConvertedNext(F, n, o, g) \in V
    <2>1. CASE o = end \/ end - o < n
      BY <1>2, <2>1 DEF ConvertedNext, end
    <2>2. CASE o # end /\ ~(end - o < n)
      <3> DEFINE from == o + n
                 to == from + BigEndian(F, o, n)
      <3>1. from \in 0..end /\ to \in Nat /\ from \in Nat
        BY <1>6, <2>2
      <3>2. ConvertedNext(F, n, o, g) =
                IF to = from THEN g[from]
                ELSE IF to > end \/ ~g[to].ok THEN Failed
                ELSE Done(StartCode \o SubSeq(F, from + 1, to) \o g[to].data)
        BY <2>2 DEF ConvertedNext, end
      <3> HIDE DEF from, to
      <3>3. g[from] \in V
        BY <3>1
      <3>4. ASSUME ~(to > end) PROVE Done(StartCode \o SubSeq(F, from + 1, to) \o g[to].data) \in V
        <4> DEFINE u == SubSeq(F, from + 1, to)
                   c == StartCode
                   d == g[to].data
        <4>1. to \in 0..end /\ to <= Len(F)
          BY <1>1, <3>1, <3>4 DEF end
        <4>2. u \in Seq(Byte)
          BY <3>1, <4>1, Piece
        <4>3. d \in Seq(Byte)
          BY <1>5, <4>1
        <4>4. c \in Seq(Byte)
          BY <1>3
        <4> HIDE DEF u, c, d
        <4>5. c \o u \in Seq(Byte)
          BY <4>2, <4>4, ConcatProperties
        <4> DEFINE e == c \o u
        <4> HIDE DEF e
        <4>6. e \o d \in Seq(Byte)
          BY <4>3, <4>5, ConcatProperties DEF e
        <4>7. Done(e \o d) \in V
          BY <1>4, <4>6
        <4> QED
          BY <4>7 DEF e, c, u, d
      <3> QED
        BY <1>2, <3>2, <3>3, <3>4
    <2> QED
      BY <2>1, <2>2
  <1>8. ASSUME NEW o \in 0..end, NEW g \in [0..end -> V], NEW h \in [0..end -> V],
               \A j \in 0..end : j > o => g[j] = h[j]
        PROVE  ConvertedNext(F, n, o, g) = ConvertedNext(F, n, o, h)
    <2>1. CASE o = end \/ end - o < n
      BY <2>1 DEF ConvertedNext, end
    <2>2. CASE o # end /\ ~(end - o < n)
      <3> DEFINE from == o + n
                 to == from + BigEndian(F, o, n)
                 cn(f) == IF to = from THEN f[from]
                          ELSE IF to > end \/ ~f[to].ok THEN Failed
                          ELSE Done(StartCode \o SubSeq(F, from + 1, to) \o f[to].data)
      <3>1. from \in 0..end /\ to \in Nat /\ from > o /\ to > o
        BY <1>6, <2>2
      <3>2. ConvertedNext(F, n, o, g) = cn(g) /\ ConvertedNext(F, n, o, h) = cn(h)
        BY <2>2 DEF ConvertedNext, end
      <3> HIDE DEF from, to
      <3>3. g[from] = h[from]
        BY <1>8, <3>1
      <3>4. ~(to > end) => g[to] = h[to]
        <4>1. ~(to > end) => to \in 0..end
          BY <1>1, <3>1
        <4> QED
          BY <1>8, <3>1, <4>1
      <3>5. cn(g) = cn(h)
        BY <3>3, <3>4
      <3> HIDE DEF cn
      <3> QED
        BY <3>2, <3>5
    <2> QED
      BY <2>1, <2>2
  <1>9. \A o \in 0..end : \A g \in [0..end -> V] : step[<<o, g>>] = ConvertedNext(F, n, o, g)
    OBVIOUS
  <1>10. step \in [(0..end) \X [0..end -> V] -> V]
    <2>1. \A p \in (0..end) \X [0..end -> V] : ConvertedNext(F, n, p[1], p[2]) \in V
      BY <1>7
    <2> QED
      BY <2>1
  <1> HIDE DEF step
  <1>11. \A o \in 0..end : \A g, h \in [0..end -> V] :
             (\A j \in 0..end : j > o => g[j] = h[j]) => step[<<o, g>>] = step[<<o, h>>]
    <2> SUFFICES ASSUME NEW o \in 0..end, NEW g \in [0..end -> V], NEW h \in [0..end -> V],
                        \A j \in 0..end : j > o => g[j] = h[j]
                 PROVE  step[<<o, g>>] = step[<<o, h>>]
      OBVIOUS
    <2>1. ConvertedNext(F, n, o, g) = ConvertedNext(F, n, o, h)
      BY <1>8
    <2>2. step[<<o, g>>] = ConvertedNext(F, n, o, g) /\ step[<<o, h>>] = ConvertedNext(F, n, o, h)
      BY <1>9
    <2> QED
      BY <2>1, <2>2
  <1>12. RunsDown(end, V, step)
    BY <1>1, <1>2, <1>10, <1>11, DownRecursion
  <1>13. PICK g \in [0..end -> V] : \A o \in 0..end : g[o] = step[<<o, g>>]
    BY <1>12 DEF RunsDown
  <1>14. Converts(F, n, g)
    <2>1. g = [o \in 0..end |-> g[o]]
      OBVIOUS
    <2>2. \A o \in 0..end : g[o] = ConvertedNext(F, n, o, g)
      BY <1>9, <1>13
    <2> QED
      BY <2>1, <2>2 DEF Converts, end
  <1>15. Converted(F, n) = CHOOSE f : Converts(F, n, f)
    BY DEF Converted, Converts, ConvertedNext
  <1> DEFINE f == Converted(F, n)
  <1>16. Converts(F, n, f)
    BY <1>14, <1>15
  <1> HIDE DEF f
  <1>17. \A o \in 0..end : f[o] = ConvertedNext(F, n, o, f)
    <2> DEFINE h == [o \in 0..end |-> ConvertedNext(F, n, o, f)]
    <2>1. \A o \in 0..end : h[o] = ConvertedNext(F, n, o, f)
      OBVIOUS
    <2>2. f = h
      BY <1>16 DEF Converts, end
    <2> HIDE DEF h
    <2> QED
      BY <2>1, <2>2
  <1> QED
    BY <1>17 DEF f, end

-----------------------------------------------------------------------------
(* Length-prefixed payloads become streams. *)

(* NonEmpty goes through the units and leaves out those without a byte. *)
Keeps(kept, nals) ==
    /\ kept \in [0..Len(nals) -> Seq(Seq(Byte))]
    /\ kept[0] = <<>>
    /\ kept[Len(nals)] = NonEmpty(nals)
    /\ \A i \in 1..Len(nals) : kept[i] = IF nals[i] = <<>> THEN kept[i - 1] ELSE kept[i - 1] \o <<nals[i]>>

(* NonEmpty takes the units one by one. *)
LEMMA NonEmptySteps ==
    ASSUME NEW nals, Parts(nals, Byte)
    PROVE  \E kept : Keeps(kept, nals)
  <1> DEFINE m == Len(nals)
             V == Seq(Byte)
             one(i) == IF nals[i] = <<>> THEN <<>> ELSE <<nals[i]>>
             e == [i \in 1..m |-> one(i)]
  <1>1. m \in Nat /\ \A i \in 1..m : nals[i] \in V
    BY PartsFacts
  <1>2. \A i \in 1..m : one(i) \in Seq(V)
    <2> SUFFICES ASSUME NEW i \in 1..m PROVE one(i) \in Seq(V)
      OBVIOUS
    <2>1. <<>> \in Seq(V)
      BY EmptySeq
    <2>2. <<nals[i]>> \in Seq(V)
      BY <1>1, OneSeq
    <2> QED
      BY <2>1, <2>2
  <1>3. NonEmpty(nals) = FlattenSeq(e)
    BY DEF NonEmpty
  <1>4. \A i \in 1..m : one(i) = IF nals[i] = <<>> THEN <<>> ELSE <<nals[i]>>
    OBVIOUS
  <1> HIDE DEF one, V, m
  <1>5. e \in Seq(Seq(V)) /\ Len(e) = m /\ \A i \in 1..m : e[i] = one(i)
    BY <1>1, <1>2
  <1> HIDE DEF e
  <1>6. CASE m = 0
    <2>1. e = <<>>
      BY <1>5, <1>6, EmptySeq
    <2>2. FlattenSeq(e) = <<>>
      BY <2>1 DEF FlattenSeq
    <2> DEFINE kept == [i \in 0..0 |-> <<>>]
    <2>3. kept \in [0..0 -> Seq(V)] /\ kept[0] = <<>>
      <3>1. <<>> \in Seq(V)
        BY EmptySeq
      <3> QED
        BY <3>1
    <2> HIDE DEF kept
    <2>4. Keeps(kept, nals)
      BY <1>3, <1>6, <2>2, <2>3 DEF Keeps, m, V
    <2> QED
      BY <2>4
  <1>7. CASE m # 0
    <2>1. e # <<>>
      BY <1>1, <1>5, <1>7, EmptySeq
    <2>2. PICK g \in [1..Len(e) -> Seq(V)] : Flattens(g, e) /\ FlattenSeq(e) = g[Len(e)]
      BY <1>5, <2>1, FlattenUnfold
    <2>3. g \in [1..m -> Seq(V)] /\ FlattenSeq(e) = g[m]
      BY <1>5, <2>2
    <2>4. \A i \in 1..m : g[i] = IF i = 1 THEN e[i] ELSE g[i - 1] \o e[i]
      <3> DEFINE h == [i \in 1..m |-> IF i = 1 THEN e[i] ELSE g[i - 1] \o e[i]]
      <3>1. \A i \in 1..m : h[i] = IF i = 1 THEN e[i] ELSE g[i - 1] \o e[i]
        OBVIOUS
      <3>2. g = h
        BY <1>5, <2>2 DEF Flattens
      <3> HIDE DEF h
      <3> QED
        BY <3>1, <3>2
    <2> DEFINE kept == [i \in 0..m |-> IF i = 0 THEN <<>> ELSE g[i]]
    <2>5. \A i \in 0..m : kept[i] = IF i = 0 THEN <<>> ELSE g[i]
      OBVIOUS
    <2>6. kept \in [0..m -> Seq(V)]
      <3>1. <<>> \in Seq(V)
        BY EmptySeq
      <3>2. \A i \in 1..m : g[i] \in Seq(V)
        BY <2>3
      <3>3. \A i \in 0..m : i = 0 \/ i \in 1..m
        BY <1>1
      <3>4. \A i \in 0..m : (IF i = 0 THEN <<>> ELSE g[i]) \in Seq(V)
        BY <3>1, <3>2, <3>3
      <3> QED
        BY <3>4
    <2> HIDE DEF kept
    <2>7. kept[0] = <<>> /\ kept[m] = NonEmpty(nals)
      <3>1. 0 \in 0..m /\ m \in 0..m
        BY <1>1
      <3> QED
        BY <1>3, <1>7, <2>3, <2>5, <3>1
    <2>8. ASSUME NEW i \in 1..m
          PROVE  kept[i] = IF nals[i] = <<>> THEN kept[i - 1] ELSE kept[i - 1] \o <<nals[i]>>
      <3>1. i \in 0..m /\ i - 1 \in 0..m /\ i # 0
        BY <1>1
      <3>2. kept[i] = kept[i - 1] \o e[i]
        <4>1. kept[i] = g[i]
          BY <2>5, <3>1
        <4>2. CASE i = 1
          <5>1. g[i] = e[i] /\ kept[i - 1] = <<>>
            BY <2>4, <2>7, <4>2
          <5>2. e[i] \in Seq(V)
            BY <1>2, <1>5
          <5> QED
            BY <4>1, <5>1, <5>2, ConcatEmptySeq
        <4>3. CASE i # 1
          <5>1. g[i] = g[i - 1] \o e[i]
            BY <2>4, <4>3
          <5>2. kept[i - 1] = g[i - 1]
            BY <2>5, <3>1, <4>3
          <5> QED
            BY <4>1, <5>1, <5>2
        <4> QED
          BY <4>2, <4>3
      <3>3. e[i] = one(i)
        BY <1>5
      <3>4. CASE nals[i] = <<>>
        <4>1. e[i] = <<>>
          BY <1>4, <3>3, <3>4
        <4>2. kept[i - 1] \in Seq(V)
          BY <2>6, <3>1
        <4> QED
          BY <3>2, <3>4, <4>1, <4>2, ConcatEmptySeq
      <3>5. CASE nals[i] # <<>>
        <4>1. e[i] = <<nals[i]>>
          BY <1>4, <3>3, <3>5
        <4> QED
          BY <3>2, <3>5, <4>1
      <3> QED
        BY <3>4, <3>5
    <2>9. Keeps(kept, nals)
      BY <2>6, <2>7, <2>8 DEF Keeps, m, V
    <2> QED
      BY <2>9
  <1> QED
    BY <1>6, <1>7

(* Where no unit is empty, NonEmpty takes nothing out. *)
LEMMA AllNonEmpty ==
    ASSUME NEW nals, Parts(nals, Byte), \A i \in 1..Len(nals) : nals[i] # <<>>
    PROVE  NonEmpty(nals) = nals
  <1> DEFINE m == Len(nals)
  <1>1. PICK kept : Keeps(kept, nals)
    BY NonEmptySteps
  <1>2. m \in Nat /\ nals \in Seq(Seq(Byte))
    BY PartsFacts DEF Parts
  <1>3. kept[0] = <<>> /\ kept[m] = NonEmpty(nals) /\ \A i \in 1..m : kept[i] = kept[i - 1] \o <<nals[i]>>
    BY <1>1 DEF Keeps
  <1> DEFINE S == {k \in Nat : k <= m => kept[k] = SubSeq(nals, 1, k)}
  <1>4. 0 \in S
    <2>1. SubSeq(nals, 1, 0) = <<>>
      BY SubSeqEmpty
    <2> QED
      BY <1>3, <2>1
  <1>5. ASSUME NEW k \in Nat, k \in S PROVE k + 1 \in S
    <2> SUFFICES ASSUME k + 1 <= m PROVE kept[k + 1] = SubSeq(nals, 1, k + 1)
      OBVIOUS
    <2>1. k + 1 \in 1..m /\ (k + 1) - 1 = k /\ k <= m /\ 1 \in 1..m
      BY <1>2
    <2>2. kept[k + 1] = kept[k] \o <<nals[k + 1]>>
      BY <1>3, <2>1
    <2>3. kept[k] = SubSeq(nals, 1, k)
      BY <1>5, <2>1
    <2>4. SubSeq(nals, 1, k + 1) = SubSeq(nals, 1, (k + 1) - 1) \o <<nals[k + 1]>>
      BY <1>2, <2>1, SubSeqRecursiveSecond
    <2> QED
      BY <2>1, <2>2, <2>3, <2>4
  <1>6. kept[m] = SubSeq(nals, 1, m)
    <2> HIDE DEF S
    <2>1. m \in S
      BY <1>2, <1>4, <1>5, SetInduction
    <2> QED
      BY <1>2, <2>1 DEF S
  <1> QED
    BY <1>2, <1>3, <1>6, SubSeqFull

(* length_prefixed_h264_to_annex_b gives every unit a start code and drops the
   empty ones. *)
LEMMA ConvertedLengths ==
    ASSUME NEW nals, Parts(nals, Byte), NEW n \in 1..4,
           \A i \in 1..Len(nals) : IsShort(Len(nals[i]), n)
    PROVE  LET all == Converted(LengthPrefixed(nals, n), n)[0]
           IN  all.ok /\ IsStream(all.data, NonEmpty(nals))
  <1> DEFINE F == LengthPrefixed(nals, n)
             m == Len(nals)
             f == Converted(F, n)
             total == NonEmpty(nals)
  <1>1. F \in Seq(Byte) /\ Len(F) \in Nat
    BY LengthsLaid, LenProperties
  <1>2. PICK at : Prefixed(F, 0, nals, n, at)
    <2> HIDE DEF F
    <2>1. Len(LengthPrefixed(nals, n)) = Len(F) /\ LengthPrefixed(nals, n) = F
      BY DEF F
    <2>2. 0 + Len(F) <= Len(F) /\ \A p \in 1..Len(F) : 0 + p = p
      BY <1>1
    <2>3. \A p \in 1..Len(F) : F[0 + p] = F[p]
      BY <2>2
    <2> QED
      BY <1>1, <2>1, <2>2, <2>3, LengthsPlaced
  <1>3. PICK kept : Keeps(kept, nals)
    BY NonEmptySteps
  <1>4. \A o \in 0..Len(F) : f[o] = ConvertedNext(F, n, o, f)
    BY <1>1, ConvertedRun
  <1>5. m \in Nat /\ n \in Nat /\ n >= 1 /\ \A i \in 1..m : nals[i] \in Seq(Byte)
    BY PartsFacts
  <1>6. /\ at \in [0..m -> Nat] /\ at[0] = 0 /\ at[m] = Len(F)
        /\ \A i \in 1..m : /\ Len(nals[i]) \in Nat
                           /\ at[i] = (at[i - 1] + n) + Len(nals[i])
                           /\ at[i] <= Len(F)
                           /\ BigEndian(F, at[i - 1], n) = Len(nals[i])
                           /\ SubSeq(F, (at[i - 1] + n) + 1, at[i]) = nals[i]
    BY <1>1, <1>2 DEF Prefixed
  <1>7. /\ kept \in [0..m -> Seq(Seq(Byte))]
        /\ kept[0] = <<>>
        /\ kept[m] = total
        /\ \A i \in 1..m : kept[i] = IF nals[i] = <<>> THEN kept[i - 1] ELSE kept[i - 1] \o <<nals[i]>>
    BY <1>3 DEF Keeps
  <1> HIDE DEF F, m, f, total
  <1> DEFINE Good(i, t) == f[at[i]].ok /\ IsStream(f[at[i]].data, t) /\ kept[i] \o t = total
             S == {i \in 0..m : \E t : Good(i, t)}
  <1>8. m \in S
    <2>1. Len(F) \in 0..Len(F) /\ m \in 0..m
      BY <1>1, <1>5
    <2>2. f[at[m]] = Done(<<>>)
      BY <1>4, <1>6, <2>1 DEF ConvertedNext
    <2>3. f[at[m]].ok /\ f[at[m]].data = <<>>
      BY <2>2 DEF Done
    <2>4. kept[m] \o <<>> = total
      <3>1. kept[m] \in Seq(Seq(Byte))
        BY <1>7, <2>1
      <3> QED
        BY <1>7, <3>1, ConcatEmptySeq
    <2>5. Good(m, <<>>)
      BY <2>3, <2>4, StreamEmpty
    <2> HIDE DEF Good
    <2> QED
      BY <2>1, <2>5
  <1>9. ASSUME NEW i \in 0..(m - 1), i + 1 \in S PROVE i \in S
    <2> DEFINE k == i + 1
    <2>1. k \in 1..m /\ k - 1 = i /\ k \in 0..m /\ i \in 0..m
      BY <1>5
    <2>2. PICK t : Good(k, t)
      <3> HIDE DEF Good
      <3> QED
        BY <1>9
    <2> HIDE DEF k
    <2> DEFINE o == at[i]
               from == o + n
               to == at[k]
               nal == nals[k]
    <2>3. /\ o \in Nat /\ from \in Nat /\ to \in Nat /\ Len(nal) \in Nat
          /\ to = from + Len(nal) /\ to <= Len(F)
          /\ BigEndian(F, o, n) = Len(nal)
          /\ SubSeq(F, from + 1, to) = nal
          /\ nal \in Seq(Byte)
      <3>1. o \in Nat /\ to \in Nat
        BY <1>6, <2>1
      <3>2. from \in Nat
        BY <1>5, <3>1
      <3>3. nal \in Seq(Byte) /\ Len(nal) \in Nat /\ to <= Len(F)
        BY <1>5, <1>6, <2>1
      <3>4. /\ Len(nals[k]) \in Nat
            /\ at[k] = (at[k - 1] + n) + Len(nals[k])
            /\ BigEndian(F, at[k - 1], n) = Len(nals[k])
            /\ SubSeq(F, (at[k - 1] + n) + 1, at[k]) = nals[k]
        BY <1>6, <2>1
      <3>5. at[k - 1] = o
        BY <2>1
      <3> QED
        BY <3>1, <3>2, <3>3, <3>4, <3>5
    <2>4. f[to].ok /\ IsStream(f[to].data, t) /\ kept[k] \o t = total
      BY <2>2
    <2>5. kept[i] \in Seq(Seq(Byte))
      BY <1>7, <2>1
    <2>6. t \in Seq(Seq(Byte)) /\ f[to].data \in Seq(Byte)
      BY <2>4, StreamTypes DEF Parts
    <2>7. o \in 0..Len(F) /\ o # Len(F) /\ ~(Len(F) - o < n)
      <3> HIDE DEF to, nal
      <3> DEFINE x == at[i]
                 l == Len(nal)
                 L == Len(F)
      <3>1. x \in Nat /\ l \in Nat /\ L \in Nat /\ (x + n) + l <= L /\ n \in Nat /\ n >= 1
        BY <1>1, <1>5, <2>3
      <3> HIDE DEF x, l, L
      <3>2. x \in 0..L /\ x # L /\ ~(L - x < n)
        BY <3>1
      <3> QED
        BY <3>2 DEF x, L
    <2>8. f[o] = ConvertedNext(F, n, o, f)
      BY <1>4, <2>7
    <2>9. CASE nal = <<>>
      <3>1. to = from
        BY <2>3, <2>9
      <3>2. f[o] = f[to]
        <4>1. from + BigEndian(F, o, n) = from
          BY <2>3, <3>1
        <4>2. f[o] = f[from]
          BY <2>7, <2>8, <4>1 DEF ConvertedNext
        <4> QED
          BY <3>1, <4>2
      <3>3. kept[k] = kept[i]
        BY <1>7, <2>1, <2>9
      <3>4. Good(i, t)
        BY <2>4, <3>2, <3>3
      <3> HIDE DEF Good
      <3> QED
        BY <2>1, <3>4
    <2>10. CASE nal # <<>>
      <3>1. Len(nal) # 0
        BY <2>3, <2>10, EmptySeq
      <3>2. to # from /\ from + BigEndian(F, o, n) = to /\ ~(to > Len(F))
        <4> HIDE DEF o, from, to, nal
        <4>1. to # from /\ ~(to > Len(F))
          BY <1>1, <2>3, <3>1
        <4>2. from + BigEndian(F, o, n) = to
          BY <2>3
        <4> QED
          BY <4>1, <4>2
      <3> DEFINE d == f[to].data
      <3>3. f[o] = Done(StartCode \o nal \o d)
        <4> HIDE DEF from, o, to, nal
        <4>1. f[o] = Done(StartCode \o SubSeq(F, from + 1, to) \o d)
          <5>1. ConvertedNext(F, n, o, f) =
                    IF from + BigEndian(F, o, n) = from THEN f[from]
                    ELSE IF from + BigEndian(F, o, n) > Len(F) \/ ~f[from + BigEndian(F, o, n)].ok THEN Failed
                    ELSE Done(StartCode \o SubSeq(F, from + 1, from + BigEndian(F, o, n))
                                  \o f[from + BigEndian(F, o, n)].data)
            BY <2>7 DEF ConvertedNext, from
          <5> QED
            BY <2>4, <2>8, <3>2, <5>1
        <4> QED
          BY <2>3, <4>1
      <3> HIDE DEF d
      <3>4. f[o].ok /\ f[o].data = StartCode \o nal \o d
        BY <3>3 DEF Done
      <3>5. IsStream((StartCode \o nal) \o d, <<nal>> \o t)
        <4>1. IsStream(StartCode \o nal, <<nal>>)
          BY <2>3, StreamOne DEF StartCodes
        <4>2. IsStream(d, t)
          BY <2>4 DEF d
        <4> QED
          BY <4>1, <4>2, StreamConcat
      <3>6. kept[i] \o (<<nal>> \o t) = total
        <4>1. <<nal>> \in Seq(Seq(Byte))
          BY <2>3, OneSeq
        <4>2. kept[k] = kept[i] \o <<nal>>
          BY <1>7, <2>1, <2>10
        <4> DEFINE a == kept[i]
                   b == <<nal>>
        <4>3. a \in Seq(Seq(Byte)) /\ b \in Seq(Seq(Byte)) /\ (a \o b) \o t = total
          BY <2>4, <2>5, <4>1, <4>2
        <4> HIDE DEF a, b
        <4>4. (a \o b) \o t = a \o (b \o t)
          <5> HIDE DEF nal
          <5>1. a \in Seq(Seq(Byte)) /\ b \in Seq(Seq(Byte)) /\ t \in Seq(Seq(Byte))
            BY <2>6, <4>3
          <5> QED
            BY <5>1, ConcatAssociative
        <4> QED
          BY <4>3, <4>4 DEF a, b
      <3>7. Good(i, <<nal>> \o t)
        BY <3>4, <3>5, <3>6
      <3> HIDE DEF Good
      <3> QED
        BY <2>1, <3>7
    <2> QED
      BY <2>9, <2>10
  <1>10. 0 \in S
    <2> HIDE DEF S
    <2>1. \A i \in 0..m : i \in S
      BY <1>5, <1>8, <1>9, DownInduction
    <2> QED
      BY <1>5, <2>1
  <1>11. PICK t : Good(0, t)
    <2> HIDE DEF Good
    <2> QED
      BY <1>10
  <1>12. f[0].ok /\ IsStream(f[0].data, t) /\ <<>> \o t = total
    BY <1>6, <1>7, <1>11
  <1>13. <<>> \o t = t
    <2>1. t \in Seq(Seq(Byte))
      BY <1>12, StreamTypes DEF Parts
    <2> QED
      BY <2>1, ConcatEmptySeq
  <1> QED
    BY <1>12, <1>13 DEF F, f, total

(* Only the stream of no units is empty. *)
LEMMA StreamNotEmpty ==
    ASSUME NEW F, NEW nals, IsStream(F, nals)
    PROVE  F = <<>> <=> nals = <<>>
  <1>1. PICK at, from : Placed(F, nals, at, from)
    BY StreamPlaced
  <1>2. F \in Seq(Byte) /\ nals \in Seq(Seq(Byte))
    BY StreamTypes DEF Parts
  <1>3. CASE nals = <<>>
    <2>1. at[0] = 0 /\ at[0] = Len(F)
      BY <1>1, <1>3 DEF Placed
    <2> QED
      BY <1>2, <1>3, <2>1, EmptySeq
  <1>4. CASE nals # <<>>
    <2>1. Len(nals) \in Nat \ {0}
      BY <1>2, <1>4, EmptySeq
    <2>2. 1 \in 1..Len(nals)
      BY <2>1
    <2>3. at[1] <= Len(F) /\ at[1] \in Nat /\ at[1] = from[1] + Len(nals[1]) /\ Len(nals[1]) \in Nat
      BY <1>1, <2>2, PlacedFacts
    <2>4. from[1] - 3 \in Nat /\ from[1] \in Nat
      BY <1>1, <2>2, PlacesAreCodes, PlacedFacts
    <2>5. Len(F) # 0
      BY <1>2, <2>3, <2>4, LenProperties
    <2> QED
      BY <1>4, <2>5, EmptySeq
  <1> QED
    BY <1>3, <1>4

(* length_prefixed_h264_to_annex_b gives the stream of the units that are not
   empty, and fails where there is none. *)
THEOREM LengthsToAnnexB ==
    ASSUME NEW nals, Parts(nals, Byte), NEW n \in 1..4,
           \A i \in 1..Len(nals) : IsShort(Len(nals[i]), n)
    PROVE  LET annex_b == LengthPrefixedToAnnexB(LengthPrefixed(nals, n), n)
           IN  /\ annex_b.ok => NonEmpty(nals) # <<>> /\ IsStream(annex_b.data, NonEmpty(nals))
               /\ NonEmpty(nals) # <<>> => annex_b.ok
  <1> DEFINE all == Converted(LengthPrefixed(nals, n), n)[0]
             annex_b == LengthPrefixedToAnnexB(LengthPrefixed(nals, n), n)
  <1>1. all.ok /\ IsStream(all.data, NonEmpty(nals))
    BY ConvertedLengths
  <1>2. annex_b = IF all.data = <<>> THEN Failed ELSE all
    BY <1>1 DEF LengthPrefixedToAnnexB
  <1>3. all.data = <<>> <=> NonEmpty(nals) = <<>>
    BY <1>1, StreamNotEmpty
  <1> HIDE DEF all, annex_b
  <1>4. CASE all.data = <<>>
    <2>1. ~annex_b.ok
      BY <1>2, <1>4 DEF Failed
    <2> QED
      BY <1>3, <1>4, <2>1 DEF annex_b
  <1>5. CASE all.data # <<>>
    <2>1. annex_b = all
      BY <1>2, <1>5
    <2> QED
      BY <1>1, <1>3, <1>5, <2>1 DEF annex_b
  <1> QED
    BY <1>4, <1>5

-----------------------------------------------------------------------------
(* AVCC records become streams. *)

(* The recursion of AvccSets. *)
AvccNext(config, p) ==
    IF ~p.ok \/ p.at + 2 > Len(config) \/ p.at + 2 + BigEndian(config, p.at, 2) > Len(config)
    THEN [ok |-> FALSE, at |-> 0, data |-> <<>>]
    ELSE [ok |-> TRUE, at |-> p.at + 2 + BigEndian(config, p.at, 2),
          data |-> p.data \o StartCode \o SubSeq(config, p.at + 3, p.at + 2 + BigEndian(config, p.at, 2))]

(* The steps of AvccSets ... *)
TakesSets(config, offset, count, step) ==
    step = [i \in 0..count |-> IF i = 0 THEN [ok |-> TRUE, at |-> offset, data |-> <<>>]
                               ELSE AvccNext(config, step[i - 1])]

(* ... and their values. *)
Taken(config, offset, count, step) ==
    /\ AvccSets(config, offset, count) = step[count]
    /\ step[0] = [ok |-> TRUE, at |-> offset, data |-> <<>>]
    /\ \A i \in 1..count : step[i] = AvccNext(config, step[i - 1])

(* AvccSets has a value after every set. *)
LEMMA AvccSteps ==
    ASSUME NEW F, F \in Seq(Byte), NEW offset \in Nat, NEW count \in Nat
    PROVE  \E step : Taken(F, offset, count, step)
  <1> DEFINE V == [ok : BOOLEAN, at : Nat, data : Seq(Byte)]
             first == [ok |-> TRUE, at |-> offset, data |-> <<>>]
             next == [q \in V \X (1..count) |-> AvccNext(F, q[1])]
  <1>1. Len(F) \in Nat /\ \A i \in 1..Len(F) : F[i] \in Byte
    <2>1. Len(F) \in Nat
      BY LenProperties
    <2>2. \A i \in 1..Len(F) : F[i] \in Byte
      BY ElementOfSeq
    <2> QED
      BY <2>1, <2>2
  <1>2. first \in V /\ [ok |-> FALSE, at |-> 0, data |-> <<>>] \in V
    <2>1. <<>> \in Seq(Byte)
      BY EmptySeq
    <2> QED
      BY <2>1
  <1>3. ASSUME NEW p \in V PROVE AvccNext(F, p) \in V
    <2> DEFINE x == p.at
               b == BigEndian(F, p.at, 2)
               to == p.at + 2 + BigEndian(F, p.at, 2)
               u == SubSeq(F, p.at + 3, to)
               c == StartCode
               d == p.data
    <2>1. CASE ~p.ok \/ p.at + 2 > Len(F) \/ to > Len(F)
      <3>1. AvccNext(F, p) = [ok |-> FALSE, at |-> 0, data |-> <<>>]
        BY <2>1 DEF AvccNext
      <3> QED
        BY <1>2, <3>1
    <2>2. CASE ~(~p.ok \/ p.at + 2 > Len(F) \/ to > Len(F))
      <3>1. AvccNext(F, p) = [ok |-> TRUE, at |-> to, data |-> d \o c \o u]
        BY <2>2 DEF AvccNext
      <3>2. x \in Nat /\ d \in Seq(Byte)
        OBVIOUS
      <3>3. b \in Nat
        <4>1. \A i \in 1..2 : F[x + i] \in Byte
          <5> SUFFICES ASSUME NEW i \in 1..2 PROVE F[x + i] \in Byte
            OBVIOUS
          <5>1. x + i \in 1..Len(F)
            BY <1>1, <2>2, <3>2
          <5> QED
            BY <1>1, <5>1
        <4>2. 2 \in 1..4
          OBVIOUS
        <4> HIDE DEF x
        <4>3. BigEndian(F, x, 2) \in Nat
          BY <3>2, <4>1, <4>2, BigEndianNat
        <4> QED
          BY <4>3 DEF x
      <3>4. to \in Nat /\ to <= Len(F)
        <4>1. to = x + 2 + b
          OBVIOUS
        <4> HIDE DEF x, b
        <4>2. x + 2 + b \in Nat
          BY <3>2, <3>3
        <4> HIDE DEF to
        <4>3. to \in Nat /\ ~(to > Len(F))
          BY <2>2, <4>1, <4>2
        <4> QED
          BY <1>1, <4>3
      <3>5. u \in Seq(Byte)
        <4> DEFINE y == x + 2
        <4>1. y \in Nat /\ y + 1 = p.at + 3
          BY <3>2
        <4> HIDE DEF y, to
        <4>2. SubSeq(F, y + 1, to) \in Seq(Byte)
          BY <3>4, <4>1, Piece
        <4> QED
          BY <4>1, <4>2
      <3>6. c \in Seq(Byte)
        BY CodeFacts DEF StartCodes
      <3> HIDE DEF c, d, u, to
      <3>7. d \o c \in Seq(Byte)
        BY <3>2, <3>6, ConcatProperties
      <3> DEFINE e == d \o c
      <3> HIDE DEF e
      <3>8. e \o u \in Seq(Byte)
        BY <3>5, <3>7, ConcatProperties DEF e
      <3>9. [ok |-> TRUE, at |-> to, data |-> e \o u] \in V
        BY <3>4, <3>8
      <3> QED
        BY <3>1, <3>9 DEF e
    <2> QED
      BY <2>1, <2>2
  <1> HIDE DEF V, first
  <1>4. \A p \in V : \A i \in 1..count : next[<<p, i>>] = AvccNext(F, p)
    OBVIOUS
  <1>5. next \in [V \X (1..count) -> V]
    <2>1. \A q \in V \X (1..count) : AvccNext(F, q[1]) \in V
      BY <1>3
    <2> QED
      BY <2>1
  <1> HIDE DEF next
  <1>6. RunsUp(count, V, first, next)
    BY <1>2, <1>5, UpRecursion
  <1>7. PICK g \in [0..count -> V] : \A i \in 0..count : g[i] = IF i = 0 THEN first ELSE next[<<g[i - 1], i>>]
    BY <1>6 DEF RunsUp
  <1>8. ASSUME NEW i \in 0..count PROVE g[i] = IF i = 0 THEN first ELSE AvccNext(F, g[i - 1])
    <2>1. CASE i = 0
      BY <1>7, <2>1
    <2>2. CASE i # 0
      <3>1. i - 1 \in 0..count /\ i \in 1..count
        BY <2>2
      <3>2. g[i - 1] \in V
        BY <3>1
      <3> QED
        BY <1>4, <1>7, <2>2, <3>1, <3>2
    <2> QED
      BY <2>1, <2>2
  <1> DEFINE does(i, s) == IF i = 0 THEN first ELSE AvccNext(F, s[i - 1])
  <1>9. TakesSets(F, offset, count, g)
    <2>1. g = [i \in 0..count |-> g[i]]
      OBVIOUS
    <2>2. \A i \in 0..count : g[i] = does(i, g)
      BY <1>8
    <2> HIDE DEF does
    <2>3. g = [i \in 0..count |-> does(i, g)]
      BY <2>1, <2>2
    <2> QED
      BY <2>3 DEF TakesSets, does, first
  <1> DEFINE step == CHOOSE s : TakesSets(F, offset, count, s)
  <1>10. AvccSets(F, offset, count) = step[count]
    BY DEF AvccSets, TakesSets, AvccNext
  <1>11. TakesSets(F, offset, count, step)
    BY <1>9
  <1> HIDE DEF step
  <1>12. step = [i \in 0..count |-> does(i, step)]
    BY <1>11 DEF TakesSets, first
  <1> HIDE DEF does
  <1>13. \A i \in 0..count : step[i] = does(i, step)
    <2> DEFINE h == [i \in 0..count |-> does(i, step)]
    <2>1. \A i \in 0..count : h[i] = does(i, step)
      OBVIOUS
    <2>2. step = h
      BY <1>12
    <2> HIDE DEF h
    <2> QED
      BY <2>1, <2>2
  <1>14. step[0] = first
    BY <1>13 DEF does
  <1>15. \A i \in 1..count : step[i] = AvccNext(F, step[i - 1])
    <2> SUFFICES ASSUME NEW i \in 1..count PROVE step[i] = AvccNext(F, step[i - 1])
      OBVIOUS
    <2>1. i \in 0..count /\ i # 0
      OBVIOUS
    <2> QED
      BY <1>13, <2>1 DEF does
  <1>16. Taken(F, offset, count, step)
    BY <1>10, <1>14, <1>15 DEF Taken, first
  <1> QED
    BY <1>16

(* Concatenation is associative. *)
LEMMA Associative ==
    ASSUME NEW V, NEW a, NEW b, NEW c, a \in Seq(V), b \in Seq(V), c \in Seq(V)
    PROVE  (a \o b) \o c = a \o (b \o c)
  BY ConcatAssociative

(* The sets behind an offset of an AVCC record become a stream of them. *)
LEMMA AvccSetsRead ==
    ASSUME NEW F, F \in Seq(Byte), NEW a \in Nat, NEW nals, Parts(nals, Byte), NEW at,
           Prefixed(F, a, nals, 2, at)
    PROVE  LET sets == AvccSets(F, a, Len(nals))
           IN  sets.ok /\ sets.at = at[Len(nals)] /\ IsStream(sets.data, nals)
  <1> DEFINE m == Len(nals)
  <1>1. m \in Nat /\ Len(F) \in Nat /\ nals \in Seq(Seq(Byte)) /\ \A i \in 1..m : nals[i] \in Seq(Byte)
    <2>1. m \in Nat /\ \A i \in 1..m : nals[i] \in Seq(Byte)
      BY PartsFacts
    <2>2. Len(F) \in Nat
      BY LenProperties
    <2> QED
      BY <2>1, <2>2 DEF Parts
  <1>2. PICK step : Taken(F, a, m, step)
    BY <1>1, AvccSteps
  <1>3. /\ AvccSets(F, a, m) = step[m]
        /\ step[0] = [ok |-> TRUE, at |-> a, data |-> <<>>]
        /\ \A i \in 1..m : step[i] = AvccNext(F, step[i - 1])
    BY <1>2 DEF Taken
  <1>4. /\ at \in [0..m -> Nat] /\ at[0] = a
        /\ \A i \in 1..m : /\ Len(nals[i]) \in Nat
                           /\ at[i] = (at[i - 1] + 2) + Len(nals[i])
                           /\ at[i] <= Len(F)
                           /\ BigEndian(F, at[i - 1], 2) = Len(nals[i])
                           /\ SubSeq(F, (at[i - 1] + 2) + 1, at[i]) = nals[i]
    BY DEF Prefixed
  <1> HIDE DEF m
  <1> DEFINE Good(k) == /\ step[k].ok = TRUE /\ step[k].at = at[k]
                        /\ IsStream(step[k].data, SubSeq(nals, 1, k))
             S == {k \in Nat : k <= m => Good(k)}
  <1>5. 0 \in S
    <2>1. SubSeq(nals, 1, 0) = <<>>
      BY SubSeqEmpty
    <2>2. step[0].ok = TRUE /\ step[0].at = a /\ step[0].data = <<>>
      BY <1>3
    <2>3. Good(0)
      BY <1>4, <2>1, <2>2, StreamEmpty
    <2> HIDE DEF Good
    <2> QED
      BY <2>3
  <1>6. ASSUME NEW k \in Nat, k \in S PROVE k + 1 \in S
    <2> SUFFICES ASSUME k + 1 <= m PROVE Good(k + 1)
      <3> HIDE DEF Good
      <3> QED
        OBVIOUS
    <2> DEFINE i == k + 1
    <2>1. i \in 1..m /\ i - 1 = k /\ k <= m /\ k \in 0..m /\ i \in 0..m /\ 1 \in 1..m
      BY <1>1
    <2>2. Good(k)
      <3> HIDE DEF Good
      <3> QED
        BY <1>6, <2>1
    <2> HIDE DEF i
    <2> DEFINE p == step[k]
               nal == nals[i]
               x == at[k]
               to == at[i]
               d == p.data
    <2>3. p.ok = TRUE /\ p.at = x /\ IsStream(d, SubSeq(nals, 1, k))
      BY <2>2
    <2>4. /\ x \in Nat /\ to \in Nat /\ Len(nal) \in Nat /\ nal \in Seq(Byte)
          /\ to = (x + 2) + Len(nal) /\ to <= Len(F)
          /\ BigEndian(F, x, 2) = Len(nal)
          /\ SubSeq(F, (x + 2) + 1, to) = nal
      <3>1. x \in Nat /\ to \in Nat
        BY <1>4, <2>1
      <3>2. nal \in Seq(Byte) /\ Len(nal) \in Nat /\ to <= Len(F)
        BY <1>1, <1>4, <2>1
      <3>3. /\ at[i] = (at[i - 1] + 2) + Len(nals[i])
            /\ BigEndian(F, at[i - 1], 2) = Len(nals[i])
            /\ SubSeq(F, (at[i - 1] + 2) + 1, at[i]) = nals[i]
        BY <1>4, <2>1
      <3>4. at[i - 1] = x
        BY <2>1
      <3> QED
        BY <3>1, <3>2, <3>3, <3>4
    <2>5. step[i] = AvccNext(F, p)
      <3>1. step[i] = AvccNext(F, step[i - 1])
        BY <1>3, <2>1
      <3> QED
        BY <2>1, <3>1
    <2> HIDE DEF p, nal, x, to, d
    <2>6. AvccNext(F, p) = [ok |-> TRUE, at |-> to, data |-> d \o StartCode \o nal]
      <3>1. p.at + 2 + BigEndian(F, p.at, 2) = to /\ ~(to > Len(F)) /\ ~(p.at + 2 > Len(F))
        <4>1. x + 2 + BigEndian(F, x, 2) = to
          BY <2>4
        <4>2. ~(to > Len(F)) /\ ~(x + 2 > Len(F))
          BY <1>1, <2>4
        <4> QED
          BY <2>3, <4>1, <4>2
      <3>2. SubSeq(F, p.at + 3, to) = nal
        <4>1. (x + 2) + 1 = x + 3
          BY <2>4
        <4> QED
          BY <2>3, <2>4, <4>1
      <3>3. p.ok
        BY <2>3
      <3> QED
        BY <3>1, <3>2, <3>3 DEF AvccNext, d
    <2>7. step[i].ok = TRUE /\ step[i].at = at[i] /\ step[i].data = (d \o StartCode) \o nal
      BY <2>5, <2>6 DEF to
    <2>8. IsStream((d \o StartCode) \o nal, SubSeq(nals, 1, i))
      <3> DEFINE w == SubSeq(nals, 1, k)
                 v == SubSeq(nals, 1, i)
                 c == StartCode
      <3>1. v = w \o <<nal>>
        <4>1. 1 \in 1..Len(nals) /\ i \in 1..Len(nals)
          BY <2>1 DEF m
        <4>2. SubSeq(nals, 1, i) = SubSeq(nals, 1, i - 1) \o <<nals[i]>>
          BY <1>1, <4>1, SubSeqRecursiveSecond
        <4> QED
          BY <2>1, <4>2 DEF nal
      <3>2. IsStream(c \o nal, <<nal>>)
        BY <2>4, StreamOne DEF StartCodes
      <3>3. IsStream(d, w)
        BY <2>3
      <3>4. c \in Seq(Byte)
        BY CodeFacts DEF StartCodes
      <3>5. d \in Seq(Byte)
        BY <3>3, StreamTypes
      <3> HIDE DEF w, v, c
      <3>6. IsStream(d \o (c \o nal), w \o <<nal>>)
        BY <3>2, <3>3, StreamConcat
      <3>7. (d \o c) \o nal = d \o (c \o nal)
        <4>1. d \in Seq(Byte) /\ c \in Seq(Byte) /\ nal \in Seq(Byte)
          BY <2>4, <3>4, <3>5
        <4> QED
          BY <4>1, Associative
      <3> QED
        BY <3>1, <3>6, <3>7 DEF v, c
    <2>9. Good(i)
      BY <2>7, <2>8
    <2> HIDE DEF Good
    <2> QED
      BY <2>9 DEF i
  <1>7. Good(m)
    <2> HIDE DEF S, Good
    <2>1. m \in S
      BY <1>1, <1>5, <1>6, SetInduction
    <2> QED
      BY <1>1, <2>1 DEF S
  <1>8. SubSeq(nals, 1, m) = nals
    BY <1>1, SubSeqFull DEF m
  <1> QED
    BY <1>3, <1>7, <1>8 DEF m

(* A greatest element is the maximum. *)
LEMMA MaxIs ==
    ASSUME NEW S, S \subseteq Int, NEW m \in S, \A k \in S : k <= m
    PROVE  Max(S) = m
  <1> DEFINE c == CHOOSE x \in S : \A y \in S : x >= y
  <1>1. c \in S /\ \A y \in S : c >= y
    OBVIOUS
  <1>2. Max(S) = c
    BY DEF Max
  <1> HIDE DEF c
  <1>3. c <= m /\ m <= c /\ c \in Int /\ m \in Int
    BY <1>1
  <1> QED
    BY <1>2, <1>3

(* What looks like Annex B begins with a zero. *)
LEMMA LooksLikeZero ==
    ASSUME NEW F, F \in Seq(Byte)
    PROVE  /\ LooksLikeAnnexB(F) <=> CodeAt(F, 0) \/ (CodeAt(F, 1) /\ F[1] = 0)
           /\ LooksLikeAnnexB(F) => Len(F) # 0 /\ F[1] = 0
  <1>1. Len(F) \in Nat /\ 0 \in Nat /\ 0 <= Len(F) /\ 0 + 1 = 1
    BY LenProperties
  <1>2. SubSeq(F, 1, Len(F)) = F
    BY SubSeqFull
  <1>3. /\ IsPrefix(<<0, 0, 1>>, F) <=> CodeAt(F, 0)
        /\ IsPrefix(StartCode, F) <=> CodeAt(F, 1) /\ F[1] = 0
    BY <1>1, <1>2, PrefixIsCode
  <1>4. CodeAt(F, 0) \/ CodeAt(F, 1) => Len(F) # 0
    BY <1>1 DEF CodeAt
  <1>5. CodeAt(F, 0) => F[1] = 0
    BY <1>1 DEF CodeAt
  <1> QED
    BY <1>3, <1>4, <1>5 DEF LooksLikeAnnexB

(* A stream of units looks like Annex B. *)
LEMMA StreamLooksLikeIt ==
    ASSUME NEW F, NEW nals, IsStream(F, nals), nals # <<>>
    PROVE  LooksLikeAnnexB(F)
  <1>1. PICK at, from : Placed(F, nals, at, from)
    BY StreamPlaced
  <1>2. F \in Seq(Byte) /\ nals \in Seq(Seq(Byte))
    BY StreamTypes DEF Parts
  <1>3. 1 \in 1..Len(nals) /\ 1 - 1 = 0
    <2>1. Len(nals) \in Nat \ {0}
      BY <1>2, EmptySeq
    <2> QED
      BY <2>1
  <1>4. /\ from[1] = 3 \/ from[1] = 4
        /\ \A p \in 1..(from[1] - 1) : F[p] = 0
    <2>1. at[0] = 0
      BY <1>1 DEF Placed
    <2>2. from[1] = at[1 - 1] + 3 \/ from[1] = at[1 - 1] + 4
      BY <1>1, <1>3 DEF Placed
    <2>3. \A p \in (at[1 - 1] + 1)..(from[1] - 1) : F[p] = 0
      BY <1>1, <1>3 DEF Placed
    <2> QED
      BY <1>3, <2>1, <2>2, <2>3
  <1>5. CodeAt(F, from[1] - 3)
    BY <1>1, <1>3, PlacesAreCodes
  <1>6. CodeAt(F, 0) \/ (CodeAt(F, 1) /\ F[1] = 0)
    <2>1. CASE from[1] = 3
      BY <1>5, <2>1
    <2>2. CASE from[1] = 4
      BY <1>4, <1>5, <2>2
    <2> QED
      BY <1>4, <2>1, <2>2
  <1> QED
    BY <1>2, <1>6, LooksLikeZero

(* u is s and t behind each other, m and n long. *)
IsJoin(u, s, t, V, m, n) ==
    /\ u \in Seq(V) /\ Len(u) = m + n
    /\ \A i \in 1..m : u[i] = s[i]
    /\ \A j \in 1..n : u[m + j] = t[j]

(* Concatenation joins. *)
LEMMA Joined ==
    ASSUME NEW V, NEW s, NEW t, s \in Seq(V), t \in Seq(V)
    PROVE  IsJoin(s \o t, s, t, V, Len(s), Len(t))
  BY DEF IsJoin

(* The numbers in the head of an AVCC record are bytes, and are read back. *)
LEMMA RecordNumbers ==
    ASSUME NEW a \in Nat, NEW b \in Nat, NEW n \in 1..4, a < 32, b < 256
    PROVE  /\ 252 + n - 1 \in Byte /\ 224 + a \in Byte /\ b \in Byte
           /\ 1 \in Byte /\ 77 \in Byte /\ 64 \in Byte /\ 31 \in Byte
           /\ (224 + a) % 32 = a /\ ((252 + n - 1) % 4) + 1 = n
  BY DEF Byte

(* The bytes of a record: six, a part, one, a part. *)
IsRecord(C, A, G, B, H, V) ==
    LET g == Len(G)
    IN  /\ C \in Seq(V) /\ g \in Nat /\ Len(H) \in Nat
        /\ Len(C) = 7 + g + Len(H)
        /\ \A i \in 1..6 : C[i] = A[i]
        /\ \A p \in 1..g : C[6 + p] = G[p]
        /\ C[(6 + g) + 1] = B[1]
        /\ \A p \in 1..Len(H) : C[((6 + g) + 1) + p] = H[p]

(* Concatenation makes records. *)
LEMMA RecordBytes ==
    ASSUME NEW V, NEW A, NEW G, NEW B, NEW H, A \in Seq(V), G \in Seq(V), B \in Seq(V), H \in Seq(V),
           Len(A) = 6, Len(B) = 1
    PROVE  IsRecord(A \o G \o B \o H, A, G, B, H, V)
  <1> DEFINE D == A \o G
             E == D \o B
             C == E \o H
             g == Len(G)
             h == Len(H)
  <1>1. g \in Nat /\ h \in Nat
    BY LenProperties
  <1>2. IsJoin(D, A, G, V, 6, g)
    BY Joined
  <1> HIDE DEF D, g, h
  <1>3. /\ D \in Seq(V) /\ Len(D) = 6 + g
        /\ \A i \in 1..6 : D[i] = A[i]
        /\ \A p \in 1..g : D[6 + p] = G[p]
    BY <1>2 DEF IsJoin
  <1>4. IsJoin(E, D, B, V, 6 + g, 1)
    <2>1. D \in Seq(V)
      BY <1>3
    <2>2. IsJoin(E, D, B, V, Len(D), Len(B))
      BY <2>1, Joined
    <2>3. Len(D) = 6 + g
      BY <1>3
    <2> HIDE DEF E
    <2> QED
      BY <2>2, <2>3
  <1> HIDE DEF E
  <1>5. /\ E \in Seq(V) /\ Len(E) = (6 + g) + 1
        /\ \A i \in 1..(6 + g) : E[i] = D[i]
        /\ E[(6 + g) + 1] = B[1]
    BY <1>4 DEF IsJoin
  <1>6. IsJoin(C, E, H, V, (6 + g) + 1, h)
    BY <1>5, Joined DEF h
  <1>7. /\ C \in Seq(V) /\ Len(C) = ((6 + g) + 1) + h
        /\ \A i \in 1..((6 + g) + 1) : C[i] = E[i]
        /\ \A p \in 1..h : C[((6 + g) + 1) + p] = H[p]
    <2> HIDE DEF C
    <2> QED
      BY <1>6 DEF IsJoin
  <1> HIDE DEF C, g, h
  <1>8. ASSUME NEW i \in 1..6 PROVE C[i] = A[i]
    <2>1. i \in 1..(6 + g) /\ i \in 1..((6 + g) + 1)
      BY <1>1
    <2> QED
      BY <1>3, <1>5, <1>7, <2>1
  <1>9. ASSUME NEW p \in 1..g PROVE C[6 + p] = G[p]
    <2> DEFINE i == 6 + p
    <2>1. i \in 1..(6 + g) /\ i \in 1..((6 + g) + 1)
      BY <1>1
    <2> HIDE DEF i
    <2>2. C[i] = D[i]
      BY <1>5, <1>7, <2>1
    <2> QED
      BY <1>3, <2>2 DEF i
  <1>10. C[(6 + g) + 1] = B[1]
    <2>1. (6 + g) + 1 \in 1..((6 + g) + 1)
      BY <1>1
    <2> QED
      BY <1>5, <1>7, <2>1
  <1>11. \A p \in 1..h : C[((6 + g) + 1) + p] = H[p]
    BY <1>7
  <1>12. ((6 + g) + 1) + h = 7 + g + h
    BY <1>1
  <1> QED
    <2>1. IsRecord(C, A, G, B, H, V)
      BY <1>1, <1>7, <1>8, <1>9, <1>10, <1>11, <1>12 DEF IsRecord, g, h
    <2> QED
      BY <2>1 DEF C, E, D

(* An AVCC record is read back. *)
LEMMA RecordIsRead ==
    ASSUME NEW sps, NEW pps, Parts(sps, Byte), Parts(pps, Byte), NEW n \in 1..4,
           Len(sps) < 32, Len(pps) < 256,
           \A i \in 1..Len(sps) : IsShort(Len(sps[i]), 2),
           \A i \in 1..Len(pps) : IsShort(Len(pps[i]), 2)
    PROVE  LET record == AvccRecord(sps, pps, n)
               read == AvccHeader(record)
           IN  /\ record \in Seq(Byte) /\ Len(record) # 0 /\ record[1] = 1
               /\ read.ok /\ read.size = n /\ IsStream(read.data, sps \o pps)
  <1> DEFINE A == <<1, 77, 64, 31, 252 + n - 1, 224 + Len(sps)>>
             G == LengthPrefixed(sps, 2)
             B == <<Len(pps)>>
             H == LengthPrefixed(pps, 2)
             C == AvccRecord(sps, pps, n)
             g == Len(G)
             h == Len(H)
             s == AvccSets(C, 6, Len(sps))
             p == AvccSets(C, (6 + g) + 1, Len(pps))
  <1>1. Len(sps) \in Nat /\ Len(pps) \in Nat
    BY PartsFacts
  <1>2. A \in Seq(Byte) /\ Len(A) = 6 /\ A[1] = 1 /\ A[5] = 252 + n - 1 /\ A[6] = 224 + Len(sps)
    <2>1. 252 + n - 1 \in Byte /\ 224 + Len(sps) \in Byte /\ 1 \in Byte /\ 77 \in Byte /\ 64 \in Byte /\ 31 \in Byte
      <3> DEFINE a == Len(sps)
      <3>1. a \in Nat /\ a < 32
        BY <1>1
      <3> HIDE DEF a
      <3>2. 252 + n - 1 \in Byte /\ 224 + a \in Byte /\ 1 \in Byte /\ 77 \in Byte /\ 64 \in Byte /\ 31 \in Byte
        BY <3>1, RecordNumbers
      <3> QED
        BY <3>2 DEF a
    <2> QED
      BY <2>1
  <1>3. B \in Seq(Byte) /\ Len(B) = 1 /\ B[1] = Len(pps)
    <2>1. Len(pps) \in Byte
      BY <1>1, RecordNumbers
    <2> QED
      BY <2>1
  <1>4. G \in Seq(Byte) /\ H \in Seq(Byte)
    <2>1. 2 \in 1..4
      OBVIOUS
    <2> QED
      BY <2>1, LengthsLaid
  <1>5. C = A \o G \o B \o H
    BY DEF AvccRecord
  <1> HIDE DEF A, B, G, H, C
  <1>6. IsRecord(C, A, G, B, H, Byte)
    BY <1>2, <1>3, <1>4, <1>5, RecordBytes
  <1>7. /\ C \in Seq(Byte) /\ g \in Nat /\ h \in Nat
        /\ Len(C) = 7 + g + h
        /\ \A i \in 1..6 : C[i] = A[i]
        /\ \A q \in 1..g : C[6 + q] = G[q]
        /\ C[(6 + g) + 1] = B[1]
        /\ \A q \in 1..h : C[((6 + g) + 1) + q] = H[q]
    BY <1>6 DEF IsRecord
  <1>8. s.ok /\ s.at = 6 + g /\ IsStream(s.data, sps)
    <2>1. 6 + g <= Len(C)
      BY <1>7
    <2>2. PICK at : Prefixed(C, 6, sps, 2, at)
      <3>1. 2 \in 1..4 /\ 6 \in Nat
        OBVIOUS
      <3>2. 6 + Len(LengthPrefixed(sps, 2)) <= Len(C)
        BY <2>1 DEF g, G
      <3>3. \A q \in 1..Len(LengthPrefixed(sps, 2)) : C[6 + q] = LengthPrefixed(sps, 2)[q]
        BY <1>7 DEF g, G
      <3> QED
        BY <1>7, <3>1, <3>2, <3>3, LengthsPlaced
    <2>3. at[Len(sps)] = 6 + g
      BY <2>2 DEF Prefixed, g, G
    <2>4. s.ok /\ s.at = at[Len(sps)] /\ IsStream(s.data, sps)
      BY <1>7, <2>2, AvccSetsRead
    <2> QED
      BY <2>3, <2>4
  <1>9. p.ok /\ IsStream(p.data, pps)
    <2> DEFINE a == (6 + g) + 1
    <2>1. a + h <= Len(C) /\ a \in Nat
      BY <1>7
    <2>2. \A q \in 1..h : C[a + q] = H[q]
      BY <1>7
    <2>3. p = AvccSets(C, a, Len(pps))
      OBVIOUS
    <2> HIDE DEF a, p
    <2>4. PICK at : Prefixed(C, a, pps, 2, at)
      <3>1. 2 \in 1..4
        OBVIOUS
      <3>2. a + Len(LengthPrefixed(pps, 2)) <= Len(C)
        BY <2>1 DEF h, H
      <3>3. \A q \in 1..Len(LengthPrefixed(pps, 2)) : C[a + q] = LengthPrefixed(pps, 2)[q]
        BY <2>2 DEF h, H
      <3> QED
        BY <1>7, <2>1, <3>1, <3>2, <3>3, LengthsPlaced
    <2> QED
      BY <1>7, <2>1, <2>3, <2>4, AvccSetsRead
  <1>10. C[6] % 32 = Len(sps)
    <2>1. C[6] = 224 + Len(sps)
      BY <1>2, <1>7
    <2>2. (224 + Len(sps)) % 32 = Len(sps)
      BY <1>1
    <2> QED
      BY <2>1, <2>2
  <1>11. (C[5] % 4) + 1 = n
    <2>1. C[5] = 252 + n - 1
      BY <1>2, <1>7
    <2>2. ((252 + n - 1) % 4) + 1 = n
      OBVIOUS
    <2> QED
      BY <2>1, <2>2
  <1>12. C[1] = 1 /\ ~(Len(C) < 7) /\ Len(C) # 0
    BY <1>2, <1>7
  <1>13. AvccHeader(C) = Header(n, s.data \o p.data)
    <2>1. s = AvccSets(C, 6, C[6] % 32)
      BY <1>10
    <2>2. p = AvccSets(C, s.at + 1, C[s.at + 1])
      <3>1. C[s.at + 1] = Len(pps)
        BY <1>3, <1>7, <1>8
      <3> QED
        BY <1>8, <3>1
    <2> HIDE DEF s, p
    <2>3. ~(~s.ok \/ s.at >= Len(C))
      <3>1. ~(6 + g >= Len(C))
        BY <1>7
      <3> QED
        BY <1>8, <3>1
    <2> DEFINE sets == AvccSets(C, 6, C[6] % 32)
               pics == AvccSets(C, sets.at + 1, C[sets.at + 1])
    <2>4. AvccHeader(C) = IF Len(C) < 7 \/ C[1] # 1 THEN NoHeader
                          ELSE IF ~sets.ok \/ sets.at >= Len(C) THEN NoHeader
                          ELSE IF pics.ok THEN Header((C[5] % 4) + 1, sets.data \o pics.data) ELSE NoHeader
      BY DEF AvccHeader
    <2>5. sets = s /\ pics = p
      BY <2>1, <2>2
    <2> HIDE DEF sets, pics
    <2> QED
      BY <1>9, <1>11, <1>12, <2>3, <2>4, <2>5
  <1>14. IsStream(s.data \o p.data, sps \o pps)
    <2> HIDE DEF s, p
    <2> QED
      BY <1>8, <1>9, StreamConcat
  <1> DEFINE d == s.data \o p.data
  <1> HIDE DEF s, p, d
  <1>15. AvccHeader(C).ok /\ AvccHeader(C).size = n /\ AvccHeader(C).data = d
    <2>1. AvccHeader(C) = [ok |-> TRUE, size |-> n, data |-> d]
      BY <1>13 DEF Header, d
    <2> QED
      BY <2>1
  <1> QED
    BY <1>7, <1>12, <1>14, <1>15 DEF C, d

-----------------------------------------------------------------------------
(* Every header is read back, and every sample becomes its access unit. *)

(* Units behind lengths of n bytes are a header when no longer length fits. *)
LEMMA LengthsHeader ==
    ASSUME NEW nals, Parts(nals, Byte), nals # <<>>, Units(nals), NEW n \in 1..4,
           \A i \in 1..Len(nals) : NalType(nals[i][1]) \in ParameterSets,
           \A i \in 1..Len(nals) : IsShort(Len(nals[i]), n),
           \A m \in (n + 1)..4 : ~Fits(LengthPrefixed(nals, n), m)
    PROVE  LET read == LengthPrefixedHeader(LengthPrefixed(nals, n))
           IN  read.ok /\ read.size = n /\ IsStream(read.data, nals)
  <1> DEFINE C == LengthPrefixed(nals, n)
             a == LengthPrefixedToAnnexB(C, n)
             fits == {m \in 1..4 : Fits(C, m)}
  <1>1. NonEmpty(nals) = nals
    <2>1. \A i \in 1..Len(nals) : nals[i] # <<>>
      BY UnitFacts DEF Units
    <2> QED
      BY <2>1, AllNonEmpty
  <1>2. a.ok /\ IsStream(a.data, nals)
    BY <1>1, LengthsToAnnexB
  <1> HIDE DEF a, C
  <1>3. OnlyParameterSets(a.data)
    BY <1>2, ParameterSetTypes
  <1>4. Fits(C, n)
    BY <1>2, <1>3 DEF Fits, a
  <1>5. Max(fits) = n /\ fits # {}
    <2>1. n \in fits /\ fits \subseteq Int
      BY <1>4
    <2>2. ASSUME NEW m \in fits PROVE m <= n
      <3>1. m \in 1..4 /\ Fits(C, m)
        OBVIOUS
      <3>2. m \notin (n + 1)..4
        BY <3>1 DEF C
      <3> QED
        BY <3>1, <3>2
    <2> HIDE DEF fits
    <2> QED
      BY <2>1, <2>2, MaxIs
  <1> HIDE DEF fits
  <1>6. LengthPrefixedHeader(C) = [ok |-> TRUE, size |-> n, data |-> a.data]
    <2>1. LengthPrefixedHeader(C) = IF fits = {} THEN NoHeader ELSE Header(Max(fits), LengthPrefixedToAnnexB(C, Max(fits)).data)
      BY DEF LengthPrefixedHeader, fits
    <2> QED
      BY <1>5, <2>1 DEF Header, a
  <1> DEFINE read == LengthPrefixedHeader(C)
             d == a.data
  <1> HIDE DEF d
  <1>7. read.ok /\ read.size = n /\ read.data = d
    BY <1>6 DEF d
  <1> QED
    BY <1>2, <1>7 DEF C, d

(* Every header is read back: its sets, and the size of the lengths to come. *)
THEOREM HeaderIsRead ==
    ASSUME NEW h, IsHeader(h)
    PROVE  LET read == SequenceHeader(h.bytes)
           IN  /\ read.ok /\ read.size \in 1..4 /\ IsStream(read.data, h.nals)
               /\ Units(h.nals) /\ h.nals # <<>>
  <1> DEFINE nals == h.nals
             C == h.bytes
             read == SequenceHeader(C)
             count == Len(nals)
  <1>1. /\ nals \in Seq(Seq(Byte)) /\ nals # <<>>
        /\ \A i \in 1..count : IsUnit(nals[i]) /\ NalType(nals[i][1]) \in ParameterSets
    BY DEF IsHeader
  <1>2. Units(nals) /\ Parts(nals, Byte)
    BY <1>1 DEF Units, Parts
  <1>3. \/ \E code \in StartCodes : C = AnnexB(nals, code)
        \/ \E n \in 1..4, k \in 0..count :
              /\ k < 32 /\ count - k < 256
              /\ \A i \in 1..count : IsShort(Len(nals[i]), 2)
              /\ C = AvccRecord(SubSeq(nals, 1, k), SubSeq(nals, k + 1, count), n)
        \/ \E n \in 1..4 :
              /\ \A i \in 1..count : IsShort(Len(nals[i]), n)
              /\ C = LengthPrefixed(nals, n)
              /\ ~LooksLikeAnnexB(C) /\ C[1] # 1
              /\ \A m \in (n + 1)..4 : ~Fits(C, m)
    BY DEF IsHeader
  <1>4. count \in Nat
    BY <1>2, PartsFacts
  <1>5. read = IF LooksLikeAnnexB(C) THEN Header(4, C)
               ELSE IF C # <<>> /\ C[1] = 1 THEN AvccHeader(C)
               ELSE LengthPrefixedHeader(C)
    BY DEF SequenceHeader
  <1> HIDE DEF nals, C, read
  <1>6. CASE \E code \in StartCodes : C = AnnexB(nals, code)
    <2>1. PICK code \in StartCodes : C = AnnexB(nals, code)
      BY <1>6
    <2>2. IsStream(C, nals)
      BY <1>2, <2>1, AnnexBStream
    <2>3. LooksLikeAnnexB(C)
      BY <1>1, <2>2, StreamLooksLikeIt
    <2>4. read = [ok |-> TRUE, size |-> 4, data |-> C]
      BY <1>5, <2>3 DEF Header
    <2>5. read.ok /\ read.size = 4 /\ read.data = C
      BY <2>4
    <2> QED
      BY <1>1, <1>2, <2>2, <2>5 DEF nals, C, read
  <1>7. CASE \E n \in 1..4, k \in 0..count :
              /\ k < 32 /\ count - k < 256
              /\ \A i \in 1..count : IsShort(Len(nals[i]), 2)
              /\ C = AvccRecord(SubSeq(nals, 1, k), SubSeq(nals, k + 1, count), n)
    <2>1. PICK n \in 1..4, k \in 0..count :
              /\ k < 32 /\ count - k < 256
              /\ \A i \in 1..count : IsShort(Len(nals[i]), 2)
              /\ C = AvccRecord(SubSeq(nals, 1, k), SubSeq(nals, k + 1, count), n)
      BY <1>7
    <2> DEFINE sps == SubSeq(nals, 1, k)
               pps == SubSeq(nals, k + 1, count)
               V == Seq(Byte)
    <2>2. /\ sps \in Seq(V) /\ Len(sps) = k
          /\ \A j \in 1..k : sps[j] = nals[j]
      <3>1. nals \in Seq(V) /\ 0 \in Nat /\ k \in Nat /\ k <= Len(nals) /\ 0 <= k /\ k - 0 = k /\ 0 + 1 = 1
            /\ \A j \in 1..k : 0 + j = j
        BY <1>1, <1>4
      <3> HIDE DEF V
      <3>2. /\ SubSeq(nals, 0 + 1, k) \in Seq(V) /\ Len(SubSeq(nals, 0 + 1, k)) = IF 0 <= k THEN k - 0 ELSE 0
            /\ \A j \in 1..(k - 0) : SubSeq(nals, 0 + 1, k)[j] = nals[0 + j]
        BY <3>1, Piece
      <3>3. sps = SubSeq(nals, 0 + 1, k)
        BY <3>1
      <3> HIDE DEF sps
      <3> QED
        BY <3>1, <3>2, <3>3
    <2>3. /\ pps \in Seq(V) /\ Len(pps) = count - k
          /\ \A j \in 1..(count - k) : pps[j] = nals[k + j]
      <3>1. nals \in Seq(V) /\ k \in Nat /\ count \in Nat /\ k <= count /\ count <= Len(nals)
        BY <1>1, <1>4
      <3> HIDE DEF V
      <3>2. /\ pps \in Seq(V) /\ Len(pps) = IF k <= count THEN count - k ELSE 0
            /\ \A j \in 1..(count - k) : pps[j] = nals[k + j]
        <4> HIDE DEF count
        <4> QED
          BY <3>1, Piece DEF count
      <3> QED
        BY <3>1, <3>2
    <2>4. sps \o pps = nals
      <3>1. 1 \in 1..(Len(nals) + 1) /\ k \in (1 - 1)..Len(nals) /\ count \in k..Len(nals)
        BY <1>4
      <3>2. sps \o pps = SubSeq(nals, 1, Len(nals))
        BY <1>1, <3>1, ConcatAdjacentSubSeq
      <3>3. SubSeq(nals, 1, Len(nals)) = nals
        BY <1>1, SubSeqFull
      <3> QED
        BY <3>2, <3>3
    <2> HIDE DEF sps, pps, V, count
    <2>5. Parts(sps, Byte) /\ Parts(pps, Byte)
      BY <2>2, <2>3 DEF Parts, V
    <2>6. \A i \in 1..Len(sps) : IsShort(Len(sps[i]), 2)
      <3> SUFFICES ASSUME NEW i \in 1..Len(sps) PROVE IsShort(Len(sps[i]), 2)
        OBVIOUS
      <3>1. i \in 1..count /\ sps[i] = nals[i]
        BY <1>4, <2>2
      <3> QED
        BY <2>1, <3>1
    <2>7. \A i \in 1..Len(pps) : IsShort(Len(pps[i]), 2)
      <3> SUFFICES ASSUME NEW i \in 1..Len(pps) PROVE IsShort(Len(pps[i]), 2)
        OBVIOUS
      <3>1. k + i \in 1..count /\ pps[i] = nals[k + i]
        BY <1>4, <2>3
      <3> QED
        BY <2>1, <3>1
    <2>8. Len(sps) < 32 /\ Len(pps) < 256
      BY <2>1, <2>2, <2>3
    <2>9. C = AvccRecord(sps, pps, n)
      BY <2>1 DEF sps, pps
    <2> DEFINE rec == AvccRecord(sps, pps, n)
               got == AvccHeader(rec)
    <2>10. /\ rec \in Seq(Byte) /\ Len(rec) # 0 /\ rec[1] = 1
           /\ got.ok /\ got.size = n /\ IsStream(got.data, sps \o pps)
      BY <2>5, <2>6, <2>7, <2>8, RecordIsRead
    <2>11. C = rec
      BY <2>9
    <2> HIDE DEF rec, got
    <2>12. ~LooksLikeAnnexB(C) /\ C # <<>> /\ C[1] = 1
      <3>1. C[1] = 1 /\ C \in Seq(Byte)
        BY <2>10, <2>11
      <3>2. C[1] # 0
        BY <3>1
      <3>3. C # <<>>
        BY <2>10, <2>11, EmptySeq
      <3> QED
        BY <3>1, <3>2, <3>3, LooksLikeZero
    <2>13. read = got
      BY <1>5, <2>11, <2>12 DEF got
    <2>14. IsStream(read.data, nals)
      BY <2>4, <2>10, <2>13
    <2> QED
      BY <1>1, <1>2, <2>10, <2>13, <2>14 DEF nals, C, read
  <1>8. CASE \E n \in 1..4 :
              /\ \A i \in 1..count : IsShort(Len(nals[i]), n)
              /\ C = LengthPrefixed(nals, n)
              /\ ~LooksLikeAnnexB(C) /\ C[1] # 1
              /\ \A m \in (n + 1)..4 : ~Fits(C, m)
    <2>1. PICK n \in 1..4 :
              /\ \A i \in 1..count : IsShort(Len(nals[i]), n)
              /\ C = LengthPrefixed(nals, n)
              /\ ~LooksLikeAnnexB(C) /\ C[1] # 1
              /\ \A m \in (n + 1)..4 : ~Fits(C, m)
      BY <1>8
    <2> DEFINE got == LengthPrefixedHeader(C)
    <2>2. got.ok /\ got.size = n /\ IsStream(got.data, nals)
      <3>1. \A m \in (n + 1)..4 : ~Fits(LengthPrefixed(nals, n), m)
        BY <2>1
      <3>2. \A i \in 1..Len(nals) : NalType(nals[i][1]) \in ParameterSets
        BY <1>1
      <3>3. \A i \in 1..Len(nals) : IsShort(Len(nals[i]), n)
        BY <2>1
      <3> DEFINE LP == LengthPrefixedHeader(LengthPrefixed(nals, n))
      <3>4. LP.ok /\ LP.size = n /\ IsStream(LP.data, nals)
        BY <1>1, <1>2, <3>1, <3>2, <3>3, LengthsHeader
      <3>5. got = LP
        BY <2>1
      <3> HIDE DEF got, LP
      <3> QED
        BY <3>4, <3>5
    <2> HIDE DEF got
    <2>3. read = got
      BY <1>5, <2>1 DEF got
    <2> QED
      BY <1>1, <1>2, <2>2, <2>3 DEF nals, C, read
  <1> QED
    BY <1>3, <1>6, <1>7, <1>8

(* Units behind units are units. *)
LEMMA UnitsJoined ==
    ASSUME NEW a, NEW b, Parts(a, Byte), Parts(b, Byte), Units(a), Units(b)
    PROVE  Units(a \o b)
  <1> DEFINE w == a \o b
  <1>1. /\ Len(w) = Len(a) + Len(b)
        /\ \A i \in 1..(Len(a) + Len(b)) : w[i] = IF i <= Len(a) THEN a[i] ELSE b[i - Len(a)]
    BY ConcatParts
  <1>2. Len(a) \in Nat /\ Len(b) \in Nat
    BY PartsFacts
  <1> HIDE DEF w
  <1>3. Units(w)
    <2> SUFFICES ASSUME NEW i \in 1..Len(w) PROVE IsUnit(w[i])
      BY DEF Units
    <2>1. CASE i <= Len(a)
      <3>1. w[i] = a[i] /\ i \in 1..Len(a)
        BY <1>1, <1>2, <2>1
      <3> QED
        BY <3>1 DEF Units
    <2>2. CASE ~(i <= Len(a))
      <3>1. w[i] = b[i - Len(a)] /\ i - Len(a) \in 1..Len(b)
        BY <1>1, <1>2, <2>2
      <3> QED
        BY <3>1 DEF Units
    <2> QED
      BY <2>1, <2>2
  <1> QED
    BY <1>3 DEF w

(* What is left when the empty ones are taken out are units. *)
LEMMA NonEmptyUnits ==
    ASSUME NEW nals, Parts(nals, Byte), \A i \in 1..Len(nals) : IsUnit(nals[i]) \/ nals[i] = <<>>
    PROVE  Units(NonEmpty(nals))
  <1> DEFINE m == Len(nals)
             V == Seq(Byte)
  <1>1. PICK kept : Keeps(kept, nals)
    BY NonEmptySteps
  <1>2. m \in Nat /\ \A i \in 1..m : nals[i] \in V
    BY PartsFacts
  <1>3. /\ kept \in [0..m -> Seq(V)]
        /\ kept[0] = <<>> /\ kept[m] = NonEmpty(nals)
        /\ \A i \in 1..m : kept[i] = IF nals[i] = <<>> THEN kept[i - 1] ELSE kept[i - 1] \o <<nals[i]>>
    BY <1>1 DEF Keeps
  <1> HIDE DEF m, V
  <1> DEFINE S == {k \in Nat : k <= m => Units(kept[k])}
  <1>4. 0 \in S
    <2>1. Units(<<>>)
      <3>1. Len(<<>>) = 0
        OBVIOUS
      <3> QED
        BY <3>1 DEF Units
    <2> QED
      BY <1>3, <2>1
  <1>5. ASSUME NEW k \in Nat, k \in S PROVE k + 1 \in S
    <2> SUFFICES ASSUME k + 1 <= m PROVE Units(kept[k + 1])
      OBVIOUS
    <2> DEFINE i == k + 1
               t == kept[k]
               nal == nals[i]
    <2>1. i \in 1..m /\ i - 1 = k /\ k <= m /\ k \in 0..m
      BY <1>2
    <2>2. Units(t)
      BY <1>5, <2>1
    <2>3. kept[i] = IF nal = <<>> THEN t ELSE t \o <<nal>>
      BY <1>3, <2>1
    <2>4. t \in Seq(V) /\ nal \in V
      BY <1>2, <1>3, <2>1
    <2>5. IsUnit(nal) \/ nal = <<>>
      BY <2>1 DEF m
    <2> HIDE DEF t, nal
    <2>6. CASE nal = <<>>
      <3>1. Units(kept[i])
        BY <2>2, <2>3, <2>6
      <3> QED
        BY <3>1
    <2>7. CASE nal # <<>>
      <3>1. Parts(t, Byte) /\ Parts(<<nal>>, Byte) /\ Len(<<nal>>) = 1 /\ <<nal>>[1] = nal
        <4>1. <<nal>> \in Seq(V) /\ Len(<<nal>>) = 1 /\ <<nal>>[1] = nal
          BY <2>4, OneSeq
        <4> QED
          BY <2>4, <4>1 DEF Parts, V
      <3> DEFINE o == <<nal>>
      <3>2. o[1] = nal /\ Len(o) = 1 /\ Parts(o, Byte)
        BY <3>1
      <3> HIDE DEF o
      <3>3. Units(o)
        BY <2>5, <2>7, <3>2 DEF Units
      <3>4. Units(t \o o)
        BY <2>2, <3>1, <3>2, <3>3, UnitsJoined
      <3>5. kept[i] = t \o o
        BY <2>3, <2>7 DEF o
      <3> QED
        BY <3>4, <3>5
    <2> QED
      BY <2>6, <2>7
  <1>6. Units(kept[m])
    <2> HIDE DEF S
    <2>1. m \in S
      BY <1>2, <1>4, <1>5, SetInduction
    <2> QED
      BY <1>2, <2>1 DEF S
  <1> QED
    BY <1>3, <1>6

(* An empty payload is no unit. *)
LEMMA NothingFails ==
    ASSUME NEW n \in 1..4
    PROVE  ~LengthPrefixedToAnnexB(<<>>, n).ok
  <1> DEFINE none == [i \in 1..0 |-> <<>>]
  <1>1. none = <<>> /\ Parts(none, Byte) /\ Len(none) = 0
    <2>1. <<>> \in Seq(Seq(Byte)) /\ Len(<<>>) = 0 /\ none = <<>>
      OBVIOUS
    <2> QED
      BY <2>1 DEF Parts
  <1> HIDE DEF none
  <1> DEFINE G == LengthPrefixed(none, n)
  <1>2. G = <<>>
    <2>1. PICK s, at : Laid(G, s, at) /\ Len(s) = 0
      BY <1>1, LengthsLaid
    <2>2. G \in Seq(Byte)
      BY <1>1, LengthsLaid
    <2> HIDE DEF G
    <2>3. Len(G) = 0
      BY <2>1 DEF Laid
    <2> QED
      BY <2>2, <2>3, EmptySeq
  <1>3. NonEmpty(none) = <<>>
    <2>1. \A i \in 1..Len(none) : none[i] # <<>>
      BY <1>1
    <2> QED
      BY <1>1, <2>1, AllNonEmpty
  <1> DEFINE a == LengthPrefixedToAnnexB(G, n)
  <1>4. a.ok => NonEmpty(none) # <<>>
    <2>1. \A i \in 1..Len(none) : IsShort(Len(none[i]), n)
      BY <1>1
    <2> QED
      BY <1>1, <2>1, LengthsToAnnexB
  <1> HIDE DEF G
  <1> QED
    BY <1>2, <1>3, <1>4

(* What conversion leaves of a sample's bytes. *)
LEMMA SampleStream ==
    ASSUME NEW s, IsSample(s), NEW h \in Headers, header = SequenceHeader(h.bytes),
           header.size \in 1..4, ~Ambiguous(s)
    PROVE  LET annex_b == IF LooksLikeAnnexB(Payload(s)) THEN Done(Payload(s))
                          ELSE LengthPrefixedToAnnexB(Payload(s), header.size)
               nals == NonEmpty(s.nals)
           IN  annex_b.ok => nals # <<>> /\ Units(nals) /\ IsStream(annex_b.data, nals)
  <1> DEFINE P == Payload(s)
             annex_b == IF LooksLikeAnnexB(P) THEN Done(P) ELSE LengthPrefixedToAnnexB(P, header.size)
             all == s.nals
             nals == NonEmpty(all)
             n == header.size
  <1>1. /\ all \in Seq(Seq(Byte)) /\ s.format \in {"annex_b", "short", "length"}
        /\ \A i \in 1..Len(all) : IsUnit(all[i]) \/ (s.format = "length" /\ all[i] = <<>>)
        /\ s.format = "length" => \A i \in 1..Len(all) : IsShort(Len(all[i]), n)
    BY DEF IsSample
  <1>2. Parts(all, Byte)
    BY <1>1 DEF Parts
  <1>3. Units(nals)
    <2>1. \A i \in 1..Len(all) : IsUnit(all[i]) \/ all[i] = <<>>
      BY <1>1
    <2> QED
      BY <1>2, <2>1, NonEmptyUnits
  <1>4. /\ s.format = "annex_b" => P = AnnexB(all, StartCode)
        /\ s.format = "short" => P = AnnexB(all, <<0, 0, 1>>)
        /\ s.format = "length" => P = LengthPrefixed(all, n)
    BY Zenon DEF Payload
  <1>5. s.format = "length" => ~LooksLikeAnnexB(P)
    BY DEF Ambiguous
  <1>6. annex_b = IF LooksLikeAnnexB(P) THEN Done(P) ELSE LengthPrefixedToAnnexB(P, n)
    OBVIOUS
  <1>7. SUFFICES annex_b.ok => nals # <<>> /\ IsStream(annex_b.data, nals)
    BY <1>3
  <1> HIDE DEF P, annex_b, all, nals, n
  <1>8. CASE s.format = "length"
    <2> DEFINE a == LengthPrefixedToAnnexB(LengthPrefixed(all, n), n)
    <2>1. n \in 1..4
      BY DEF n
    <2>2. a.ok => NonEmpty(all) # <<>> /\ IsStream(a.data, NonEmpty(all))
      BY <1>1, <1>2, <1>8, <2>1, LengthsToAnnexB
    <2> HIDE DEF a
    <2>3. annex_b = a
      BY <1>4, <1>5, <1>6, <1>8 DEF a
    <2> QED
      BY <2>2, <2>3 DEF nals
  <1>9. CASE s.format # "length"
    <2>1. PICK code \in StartCodes : P = AnnexB(all, code)
      BY <1>1, <1>4, <1>9 DEF StartCodes
    <2>2. IsStream(P, all)
      BY <1>2, <2>1, AnnexBStream
    <2>3. nals = all
      <3>1. \A i \in 1..Len(all) : all[i] # <<>>
        BY <1>1, <1>9, UnitFacts
      <3> QED
        BY <1>2, <3>1, AllNonEmpty DEF nals
    <2>4. CASE all = <<>>
      <3>1. P = <<>>
        BY <2>2, <2>4, StreamNotEmpty
      <3>2. ~LooksLikeAnnexB(P)
        <4>1. P \in Seq(Byte) /\ Len(P) = 0
          BY <3>1, EmptySeq
        <4> QED
          BY <4>1, LooksLikeZero
      <3>3. n \in 1..4
        BY DEF n
      <3>4. ~annex_b.ok
        <4>1. annex_b = LengthPrefixedToAnnexB(<<>>, n)
          BY <1>6, <3>1, <3>2
        <4> QED
          BY <3>3, <4>1, NothingFails
      <3> QED
        BY <3>4
    <2>5. CASE all # <<>>
      <3>1. LooksLikeAnnexB(P)
        BY <2>2, <2>5, StreamLooksLikeIt
      <3>2. annex_b = [ok |-> TRUE, data |-> P]
        BY <1>6, <3>1 DEF Done
      <3>3. annex_b.data = P
        BY <3>2
      <3> QED
        BY <2>2, <2>3, <2>5, <3>3
    <2> QED
      BY <2>4, <2>5
  <1> QED
    BY <1>8, <1>9

(* The access unit made of a sample has the units it should have. *)
LEMMA UnitIsExpected ==
    ASSUME NEW s, IsSample(s), NEW h \in Headers, IsHeader(h), header = SequenceHeader(h.bytes),
           UnitFor(s).ok, ~Ambiguous(s)
    PROVE  UnitsOf(UnitFor(s).data) = Expected(s, h)
  <1> DEFINE P == Payload(s)
             annex_b == IF LooksLikeAnnexB(P) THEN Done(P) ELSE LengthPrefixedToAnnexB(P, header.size)
             nals == NonEmpty(s.nals)
             set == header.data
             own == StartsWithParameterSet(annex_b.data)
             unitFor == UnitFor(s)
             d == annex_b.data
  <1>1. /\ header.size \in 1..4 /\ IsStream(set, h.nals) /\ Units(h.nals)
    BY HeaderIsRead
  <1>2. annex_b.ok => nals # <<>> /\ Units(nals) /\ IsStream(d, nals)
    BY <1>1, SampleStream
  <1>3. unitFor = IF annex_b.ok /\ s.key /\ ~own THEN Done(set \o d) ELSE annex_b
    BY DEF UnitFor, AccessUnit
  <1>4. Expected(s, h) = IF s.key /\ NalType(Head(Head(nals))) \notin ParameterSets THEN h.nals \o nals ELSE nals
    BY DEF Expected
  <1> HIDE DEF P, annex_b, nals, set, unitFor
  <1>5. annex_b.ok
    BY <1>3 DEF unitFor
  <1>6. nals # <<>> /\ Units(nals) /\ IsStream(d, nals)
    BY <1>2, <1>5
  <1>7. own <=> NalType(nals[1][1]) \in ParameterSets
    BY <1>6, ParameterSetTypes
  <1>8. Head(Head(nals)) = nals[1][1]
    <2>1. nals \in Seq(Seq(Byte)) /\ nals[1] \in Seq(Byte)
      <3>1. nals \in Seq(Seq(Byte))
        BY <1>6, StreamTypes DEF Parts
      <3>2. 1 \in 1..Len(nals)
        BY <1>6, <3>1, EmptySeq, LenProperties
      <3> QED
        BY <3>1, <3>2, ElementOfSeq
    <2> QED
      BY <2>1
  <1> HIDE DEF own, d
  <1>9. CASE s.key /\ ~own
    <2> DEFINE both == set \o d
               units == h.nals \o nals
    <2>1. IsStream(both, units)
      BY <1>1, <1>6, StreamConcat
    <2>2. Units(units)
      <3>1. Parts(h.nals, Byte) /\ Parts(nals, Byte)
        BY <1>1, <1>6, StreamTypes
      <3> QED
        BY <1>1, <1>6, <3>1, UnitsJoined
    <2> HIDE DEF both
    <2>3. unitFor = [ok |-> TRUE, data |-> both]
      BY <1>3, <1>5, <1>9 DEF Done, both
    <2>4. unitFor.data = both
      BY <2>3
    <2> HIDE DEF units
    <2>5. UnitsOf(unitFor.data) = units
      BY <2>1, <2>2, <2>4, UnitsOfStream
    <2>6. Expected(s, h) = units
      BY <1>4, <1>7, <1>8, <1>9 DEF units
    <2> QED
      BY <2>5, <2>6 DEF unitFor
  <1>10. CASE ~(s.key /\ ~own)
    <2>1. unitFor = annex_b
      BY <1>3, <1>10
    <2>2. unitFor.data = d
      BY <2>1 DEF d
    <2>3. UnitsOf(unitFor.data) = nals
      BY <1>6, <2>2, UnitsOfStream
    <2>4. Expected(s, h) = nals
      BY <1>4, <1>7, <1>8, <1>10
    <2> QED
      BY <2>3, <2>4 DEF unitFor
  <1> QED
    BY <1>9, <1>10

-----------------------------------------------------------------------------
(* Access units: what UnitIsSample rests on. *)

(* The header in force is one that was read. *)
HeaderKnown == \E h \in Headers : header = SequenceHeader(h.bytes)

(* The header is one that was read as soon as there is an encoder, and it changes
   only while no access unit is on its way. *)
UnitsInvariant ==
    /\ encoder.gen \in Nat
    /\ call # "none" => encoder.gen > 0
    /\ encoder.gen > 0 => HeaderKnown
    /\ call \in {"none", "output"} => unit = NoUnit
    /\ UnitIsSample

(* Whether a sample is taken for Annex B depends on the header alone. *)
LEMMA AmbiguousStays ==
    ASSUME header' = header, NEW s
    PROVE  Ambiguous(s)' <=> Ambiguous(s)
  BY Zenon DEF Ambiguous, Payload

(* No access unit is no wrong one. *)
LEMMA NoUnitIsFine == unit = NoUnit => UnitIsSample
  BY DEF NoUnit, UnitIsSample

(* A step that touches neither the header nor the access unit. *)
LEMMA UnitsElsewhere ==
    ASSUME UnitsInvariant, UNCHANGED <<encoder, header, unit>>,
           call' = call \/ call' \notin {"none", "output"},
           call' # "none" => encoder.gen > 0
    PROVE  UnitsInvariant'
  <1>1. UnitIsSample'
    <2> SUFFICES ASSUME NEW s \in unit.sample, ~Ambiguous(s)'
                 PROVE  \E h \in Headers : SequenceHeader(h.bytes) = header /\ UnitsOf(unit.data) = Expected(s, h)
      BY DEF UnitIsSample
    <2>1. ~Ambiguous(s)
      BY AmbiguousStays
    <2> QED
      BY <2>1 DEF UnitsInvariant, UnitIsSample
  <1>2. HeaderKnown' <=> HeaderKnown
    BY DEF HeaderKnown
  <1> QED
    BY <1>1, <1>2 DEF UnitsInvariant, NoUnit

(* A step that drops the access unit, and keeps the header. *)
LEMMA UnitsDropped ==
    ASSUME UnitsInvariant, UNCHANGED <<encoder, header>>, unit' = NoUnit, encoder.gen > 0
    PROVE  UnitsInvariant'
  <1>1. UnitIsSample'
    BY DEF NoUnit, UnitIsSample
  <1>2. HeaderKnown' <=> HeaderKnown
    BY DEF HeaderKnown
  <1> QED
    BY <1>1, <1>2 DEF UnitsInvariant, NoUnit

(* A header is read while no access unit is on its way. *)
LEMMA UnitsHeaderRead ==
    ASSUME UnitsInvariant, unit = NoUnit, UNCHANGED unit, encoder'.gen \in Nat, encoder'.gen > 0,
           \E h \in Headers : header' = SequenceHeader(h.bytes)
    PROVE  UnitsInvariant'
  <1>1. UnitIsSample'
    BY DEF NoUnit, UnitIsSample
  <1>2. HeaderKnown'
    BY DEF HeaderKnown
  <1> QED
    BY <1>1, <1>2 DEF UnitsInvariant, NoUnit

(* process_output_once makes the access unit of a sample. *)
LEMMA UnitsProcessOutput ==
    ASSUME UnitsInvariant, NEW t \in Samples, ProcessOutput(t)
    PROVE  UnitsInvariant'
  <1>1. /\ call = "output" /\ call' = "drain" /\ UNCHANGED <<encoder, header>>
        /\ unit' = [sample |-> {t}, data |-> UnitFor(t).data]
        /\ UnitFor(t).ok
    BY DEF ProcessOutput, Goto
  <1>2. encoder.gen > 0 /\ HeaderKnown
    BY <1>1 DEF UnitsInvariant
  <1>3. PICK h \in Headers : header = SequenceHeader(h.bytes)
    BY <1>2 DEF HeaderKnown
  <1>4. IsSample(t) /\ IsHeader(h)
    BY HeadersAssumption, SamplesAssumption
  <1>5. ~Ambiguous(t) => UnitsOf(UnitFor(t).data) = Expected(t, h)
    BY <1>1, <1>3, <1>4, UnitIsExpected
  <1>6. UnitIsSample'
    <2> SUFFICES ASSUME NEW s \in unit'.sample, ~Ambiguous(s)'
                 PROVE  \E k \in Headers : SequenceHeader(k.bytes) = header' /\ UnitsOf(unit'.data) = Expected(s, k)
      BY DEF UnitIsSample
    <2>1. s = t /\ unit'.data = UnitFor(t).data
      BY <1>1
    <2>2. ~Ambiguous(t)
      BY <1>1, <2>1, AmbiguousStays
    <2> QED
      BY <1>1, <1>3, <1>5, <2>1, <2>2
  <1>7. HeaderKnown'
    BY <1>1, <1>3 DEF HeaderKnown
  <1> QED
    BY <1>1, <1>2, <1>6, <1>7 DEF UnitsInvariant

(* Without an encoder there is no access unit. *)
LEMMA UnitsInit == EncoderInit => UnitsInvariant
  <1> SUFFICES ASSUME EncoderInit PROVE UnitsInvariant
    OBVIOUS
  <1>1. encoder.gen = 0
    BY DEF EncoderInit, NoEncoder
  <1>2. UnitIsSample
    BY NoUnitIsFine DEF EncoderInit
  <1> QED
    BY <1>1, <1>2 DEF UnitsInvariant, EncoderInit

(* Every step keeps the invariant of access units. *)
LEMMA UnitsNext == UnitsInvariant /\ [Next]_encoderVars => UnitsInvariant'
  <1> SUFFICES ASSUME UnitsInvariant, [Next]_encoderVars PROVE UnitsInvariant'
    OBVIOUS
  <1>1. call # "none" => encoder.gen > 0
    BY DEF UnitsInvariant
  <1>2. CASE MftProduces
    BY <1>1, <1>2, UnitsElsewhere DEF MftProduces, encodeVars
  <1>3. CASE EncodeStep
    <2>1. CASE Convert
      BY <1>1, <2>1, UnitsElsewhere DEF Convert, Goto
    <2>2. CASE ProcessInput
      BY <1>1, <2>2, UnitsElsewhere DEF ProcessInput, Goto
    <2>3. CASE OutputEvent
      BY <1>1, <2>3, UnitsElsewhere DEF OutputEvent, Goto
    <2>4. CASE OutputTimeout
      BY <1>1, <2>4, UnitsElsewhere DEF OutputTimeout, Goto
    <2>5. CASE Drain
      BY <1>1, <2>5, UnitsDropped DEF Drain
    <2>6. CASE NoOutput
      BY <1>1, <2>6, UnitsElsewhere DEF NoOutput, ExitDrain, Goto
    <2>7. CASE StreamChange
      <3>1. call = "output" /\ UNCHANGED <<encoder, unit>> /\ \E h \in Headers : header' = SequenceHeader(h.bytes)
        BY <2>7 DEF StreamChange
      <3>2. unit = NoUnit /\ encoder'.gen \in Nat /\ encoder'.gen > 0
        BY <3>1 DEF UnitsInvariant
      <3> QED
        BY <3>1, <3>2, UnitsHeaderRead
    <2>8. CASE EncodeFails
      BY <1>1, <2>8, UnitsElsewhere DEF EncodeFails, Goto, Working
    <2>9. CASE \E s \in Samples : ProcessOutput(s)
      BY <2>9, UnitsProcessOutput
    <2> QED
      BY <1>3, <2>1, <2>2, <2>3, <2>4, <2>5, <2>6, <2>7, <2>8, <2>9 DEF EncodeStep
  <1>4. CASE Return
    <2>1. call # "none" /\ UNCHANGED <<encoder, header>> /\ unit' = NoUnit
      BY <1>4 DEF Return
    <2> QED
      BY <1>1, <2>1, UnitsDropped
  <1>5. CASE \E size \in Sizes : NewEncoder(size)
    <2>1. PICK size \in Sizes : NewEncoder(size)
      BY <1>5
    <2>2. /\ call = "none" /\ UNCHANGED unit
          /\ encoder' = [gen |-> encoder.gen + 1, size |-> size]
          /\ \E h \in Headers : header' = SequenceHeader(h.bytes)
      BY <2>1 DEF NewEncoder
    <2>3. unit = NoUnit /\ encoder'.gen \in Nat /\ encoder'.gen > 0
      BY <2>2 DEF UnitsInvariant
    <2> QED
      BY <2>2, <2>3, UnitsHeaderRead
  <1>6. CASE encoder.gen > 0 /\ \E size \in Sizes, texture \in BOOLEAN : Encode(size, texture)
    <2>1. PICK size \in Sizes, texture \in BOOLEAN : Encode(size, texture)
      BY <1>6
    <2>2. UNCHANGED <<encoder, header, unit>> /\ call' \notin {"none", "output"}
      BY <2>1 DEF Encode, Goto
    <2> QED
      BY <1>6, <2>2, UnitsElsewhere
  <1>7. CASE \E e \in 1..encoder.gen : Abort(e)
    BY <1>1, <1>7, UnitsElsewhere DEF Abort, encodeVars
  <1>8. CASE UNCHANGED encoderVars
    BY <1>1, <1>8, UnitsElsewhere DEF encoderVars, encodeVars
  <1> QED
    BY <1>2, <1>3, <1>4, <1>5, <1>6, <1>7, <1>8 DEF Next

(* An access unit holds the units of its sample, in order, behind the parameter
   sets in force when it is a key frame that does not start with its own: for
   headers and samples of any length, in every format. *)
THEOREM UnitsAreSamples == Spec => []UnitIsSample
  <1>1. UnitsInvariant => UnitIsSample
    BY DEF UnitsInvariant
  <1> QED
    BY <1>1, UnitsInit, UnitsNext, PTL DEF Spec
=============================================================================
