------------------------- MODULE VideoWorkerProofs -------------------------
(***************************************************************************)
(* Proofs about VideoWorker, for displays of any sizes, any number of      *)
(* encoders, of attempts to open and of changes of the display: types, the *)
(* end of a stream, the frame of the duplication, the bounds the input     *)
(* session has, the flush of old encoders and the size of what is encoded. *)
(***************************************************************************)
EXTENDS VideoWorker, TLAPS

-----------------------------------------------------------------------------
(* Types *)

(* What an encoder's variables hold. *)
EncoderTypeOK ==
    /\ encoder \in [gen : 0..MaxEncoders, size : Sizes]
    /\ input \in [size : Sizes, texture : BOOLEAN]
    /\ call \in {"none", "busy", "ok", "err"}
    /\ encoded \in BOOLEAN
    /\ aborted \subseteq 1..MaxEncoders

WorkerTypeOK ==
    /\ config \in [synthetic : BOOLEAN, pointer : BOOLEAN]
    /\ at \in Places
    /\ stage \in Stages
    /\ first \in BOOLEAN
    /\ result \in {"ok", "err"}
    /\ seen \in Nat
    /\ input_bounds \in DisplaySizes
    /\ slot \in 0..MaxEncoders

HostTypeOK ==
    /\ stop_requested \in BOOLEAN
    /\ watchdog \in {"look", "abort", "acted", "ended"}
    /\ monitor \in {"waiting", "done"}
    /\ task \in {"serving", "stop", "join", "joined", "abandoned", "gone"}
    /\ connection \in {"open", "closed"}
    /\ aborters \subseteq 1..MaxEncoders

(* The chosen size is one of the sizes. *)
LEMMA DefaultsAreTyped ==
    /\ AnySize \in DisplaySizes
    /\ NoFrame \in Frames
    /\ NoDuplication \in [valid : BOOLEAN, size : DisplaySizes, held : BOOLEAN]
    /\ NoEncoder \in [gen : 0..MaxEncoders, size : Sizes]
    /\ NoInput \in [size : Sizes, texture : BOOLEAN]
  <1>1. AnySize \in DisplaySizes
    BY CaptureAssumption DEF AnySize
  <1>2. (CHOOSE s \in Sizes : TRUE) \in Sizes
    BY CaptureAssumption, SizesAssumption
  <1> QED
    BY <1>1, <1>2, MaxEncodersAssumption DEF NoFrame, Frames, NoDuplication, NoEncoder, NoInput

(* The types hold when the stream starts. *)
LEMMA TypeInit == Init => EncoderTypeOK /\ CaptureTypeOK /\ WorkerTypeOK /\ HostTypeOK
  <1> SUFFICES ASSUME Init PROVE EncoderTypeOK /\ CaptureTypeOK /\ WorkerTypeOK /\ HostTypeOK
    OBVIOUS
  <1> USE DefaultsAreTyped, CaptureAssumption, MaxEncodersAssumption DEF Init
  <1>1. EncoderTypeOK
    BY DEF EncoderInit, EncoderTypeOK
  <1>2. CaptureTypeOK
    <2>1. 0 \in 0..MaxChanges /\ 0 \in 0..(OpenAttempts - 1) /\ 0 \in Nat
      BY CaptureAssumption
    <2> QED
      BY <2>1, DefaultsAreTyped, Zenon DEF CaptureInit, CaptureTypeOK, Phases
  <1>3. WorkerTypeOK
    BY DEF CaptureInit, WorkerTypeOK, Places, Stages
  <1>4. HostTypeOK
    BY DEF HostTypeOK
  <1> QED
    BY <1>1, <1>2, <1>3, <1>4

(* Each operation of the encoder keeps its types. *)
LEMMA EncoderTypes ==
    ASSUME EncoderTypeOK,
           \/ \E s \in Sizes : NewEncoder(s)
           \/ \E s \in Sizes, texture \in BOOLEAN : Encode(s, texture)
           \/ Output \/ Finish \/ Return
           \/ \E e \in 1..encoder.gen : Abort(e)
           \/ UNCHANGED encoderVars
    PROVE  EncoderTypeOK'
  <1> USE DEF EncoderTypeOK
  <1>1. CASE \E s \in Sizes : NewEncoder(s)
    <2>1. PICK s \in Sizes : NewEncoder(s)
      BY <1>1
    <2>2. encoder' \in [gen : 0..MaxEncoders, size : Sizes]
      BY <2>1, MaxEncodersAssumption DEF NewEncoder
    <2> QED
      BY <2>1, <2>2 DEF NewEncoder
  <1>2. CASE \E s \in Sizes, texture \in BOOLEAN : Encode(s, texture)
    <2>1. PICK s \in Sizes, texture \in BOOLEAN : Encode(s, texture)
      BY <1>2
    <2>2. input' \in [size : Sizes, texture : BOOLEAN]
      BY <2>1 DEF Encode
    <2> QED
      BY <2>1, <2>2 DEF Encode
  <1>3. CASE Output \/ Finish
    BY <1>3 DEF Output, Finish
  <1>4. CASE Return
    BY <1>4, DefaultsAreTyped DEF Return
  <1>5. CASE \E e \in 1..encoder.gen : Abort(e)
    BY <1>5, MaxEncodersAssumption DEF Abort
  <1>6. CASE UNCHANGED encoderVars
    BY <1>6 DEF encoderVars
  <1> QED
    BY <1>1, <1>2, <1>3, <1>4, <1>5, <1>6

(* Each operation of the capture session, and of the display, keeps its types. *)
LEMMA CaptureTypes ==
    ASSUME CaptureTypeOK,
           \/ OutputFreed \/ \E size \in DisplaySizes : DisplayChanges(size)
           \/ Opened \/ RetryOpen \/ CloseCapture
           \/ Acquire \/ AcquireStep
           \/ UNCHANGED captureVars
    PROVE  CaptureTypeOK'
  <1> USE DEF CaptureTypeOK
  <1> DEFINE Duplication == [valid : BOOLEAN, size : DisplaySizes, held : BOOLEAN]
  <1>0. dup \in Duplication
    OBVIOUS
  <1>a. CASE OutputFreed
    BY <1>a DEF OutputFreed
  <1>1. CASE \E size \in DisplaySizes : DisplayChanges(size)
    <2>1. PICK size \in DisplaySizes : DisplayChanges(size)
      BY <1>1
    <2>2. dup' \in Duplication
      BY <2>1 DEF DisplayChanges
    <2>3. changes' \in 0..MaxChanges
      BY <2>1, CaptureAssumption DEF DisplayChanges
    <2> QED
      BY <2>1, <2>2, <2>3 DEF DisplayChanges
  <1>2. CASE Opened
    <2>1. dup' \in Duplication
      BY <1>2 DEF Opened
    <2> QED
      BY <1>2, <2>1 DEF Opened
  <1>b. CASE RetryOpen
    <2>1. attempts' \in 0..(OpenAttempts - 1)
      BY <1>b, CaptureAssumption DEF RetryOpen, LastAttempt
    <2> QED
      BY <1>b, <2>1 DEF RetryOpen
  <1>3. CASE CloseCapture
    BY <1>3, DefaultsAreTyped DEF CloseCapture, Phases
  <1>4. CASE Acquire
    BY <1>4, DefaultsAreTyped DEF Acquire, Phases
  <1>5. CASE WaitTimeout \/ DuplicationLost \/ AcquireError \/ FrameIsUseless
    BY <1>5 DEF WaitTimeout, DuplicationLost, AcquireError, FrameIsUseless, AcquireEnds, Phases
  <1>6. CASE \E image, pointer, texture \in BOOLEAN : FrameArrives(image, pointer, texture)
    <2>1. PICK image, pointer, texture \in BOOLEAN : FrameArrives(image, pointer, texture)
      BY <1>6
    <2>2. SizeOf(texture) \in DisplaySizes
      BY DEF SizeOf
    <2>3. frame' \in Frames
      BY <2>1, <2>2 DEF FrameArrives, Frames
    <2>4. dup' \in Duplication
      BY <2>1 DEF FrameArrives
    <2> QED
      BY <2>1, <2>3, <2>4 DEF FrameArrives, Phases
  <1>7. CASE StillLost \/ RecoveryFails \/ Refresh
    BY <1>7 DEF StillLost, RecoveryFails, Refresh, AcquireEnds, Phases
  <1>c. CASE Reduplicate
    <2>1. dup' \in Duplication
      BY <1>c DEF Reduplicate
    <2> QED
      BY <1>c, <2>1 DEF Reduplicate, AcquireEnds, Phases
  <1>8. CASE UNCHANGED captureVars
    BY <1>8 DEF captureVars
  <1> QED
    BY <1>a, <1>b, <1>c, <1>1, <1>2, <1>3, <1>4, <1>5, <1>6, <1>7, <1>8 DEF AcquireStep

(* A step of the worker calls one operation of the capture session or of the
   encoder, or both when it drops them ... *)
LEMMA WorkerCallsOperations ==
    ASSUME EncoderTypeOK, CaptureTypeOK, WorkerTypeOK, WorkerStep
    PROVE  EncoderTypeOK' /\ (CaptureTypeOK' \/ Acquired)
  <1>0. frame.size \in Sizes /\ frame.texture \in BOOLEAN
    BY SizesAssumption DEF CaptureTypeOK, Frames
  <1>1. CASE Open \/ Loop \/ Acquiring \/ Dispatch \/ Stop \/ JoinWatchdog \/ Synthetic
    <2>1. /\ UNCHANGED encoderVars
          /\ Opened \/ RetryOpen \/ Acquire \/ AcquireStep \/ UNCHANGED captureVars
      BY <1>1 DEF Open, Loop, Acquiring, Dispatch, Stop, JoinWatchdog, Synthetic
    <2> QED
      BY <2>1, EncoderTypes, CaptureTypes
  <1>2. CASE Acquired
    BY <1>2, EncoderTypes DEF Acquired
  <1>3. CASE CreateEncoder
    BY <1>0, <1>3, EncoderTypes, CaptureTypes DEF CreateEncoder
  <1>4. CASE FlushOld \/ DropOld
    <2>1. UNCHANGED captureVars /\ \E e \in 1..encoder.gen : Abort(e)
      BY <1>4 DEF FlushOld, DropOld, Abort
    <2> QED
      BY <2>1, EncoderTypes, CaptureTypes
  <1>5. CASE CheckDevice
    BY <1>0, <1>5, EncoderTypes, CaptureTypes DEF CheckDevice
  <1>6. CASE Encoding \/ Encoded \/ Send
    <2>1. UNCHANGED captureVars /\ (Output \/ Finish \/ Return \/ UNCHANGED encoderVars)
      BY <1>6 DEF Encoding, Encoded, Send
    <2> QED
      BY <2>1, EncoderTypes, CaptureTypes
  <1>7. CASE DropLocals
    <2>1. CloseCapture /\ ((\E e \in 1..encoder.gen : Abort(e)) \/ UNCHANGED encoderVars)
      BY <1>7 DEF DropLocals, Abort
    <2> QED
      BY <2>1, EncoderTypes, CaptureTypes
  <1> QED
    BY <1>1, <1>2, <1>3, <1>4, <1>5, <1>6, <1>7 DEF WorkerStep

(* ... and keeps the types of its own variables. *)
LEMMA WorkerTypes ==
    ASSUME EncoderTypeOK, CaptureTypeOK, WorkerTypeOK, WorkerStep
    PROVE  WorkerTypeOK' /\ CaptureTypeOK'
  <1> USE DEF WorkerTypeOK, Places, Stages, Goto, Unwind
  <1>1. CASE Acquired
    <2>1. CaptureTypeOK'
      BY <1>1 DEF Acquired, CaptureTypeOK, Phases
    <2>2. recoveries \in Nat /\ bounds \in DisplaySizes
      BY DEF CaptureTypeOK
    <2>3. seen' \in Nat /\ input_bounds' \in DisplaySizes
      BY <1>1, <2>2 DEF Acquired, SyncBounds
    <2>4. at' \in Places /\ stage' \in Stages /\ result' \in {"ok", "err"}
      BY <1>1 DEF Acquired
    <2> QED
      BY <1>1, <2>1, <2>3, <2>4 DEF Acquired
  <1>2. CASE CreateEncoder
    <2>1. EncoderTypeOK' /\ CaptureTypeOK'
      BY <1>2, WorkerCallsOperations DEF WorkerStep, CreateEncoder, captureVars, CaptureTypeOK
    <2>2. slot' \in 0..MaxEncoders
      BY <1>2, <2>1 DEF CreateEncoder, EncoderTypeOK
    <2> QED
      BY <1>2, <2>1, <2>2 DEF CreateEncoder
  <1>3. CASE ~Acquired /\ ~CreateEncoder
    <2>1. CaptureTypeOK'
      BY <1>3, WorkerCallsOperations
    <2>2. CASE Open
      BY <2>1, <2>2 DEF Open, CaptureTypeOK
    <2>3. CASE Loop
      BY <2>1, <2>3 DEF Loop
    <2>4. CASE Acquiring \/ Encoding
      BY <2>1, <2>4 DEF Acquiring, Encoding, workerVars
    <2>5. CASE FlushOld \/ DropOld
      BY <2>1, <2>5 DEF FlushOld, DropOld
    <2>6. CASE Dispatch
      BY <2>1, <2>6 DEF Dispatch
    <2>7. CASE CheckDevice \/ Encoded \/ Send
      BY <2>1, <2>7 DEF CheckDevice, Encoded, Send
    <2>8. CASE DropLocals \/ Stop
      BY <2>1, <2>8 DEF DropLocals, Stop
    <2>9. CASE JoinWatchdog \/ Synthetic
      BY <2>1, <2>9, MaxEncodersAssumption DEF JoinWatchdog, Synthetic
    <2> QED
      BY <1>3, <2>2, <2>3, <2>4, <2>5, <2>6, <2>7, <2>8, <2>9 DEF WorkerStep
  <1> QED
    BY <1>1, <1>2, <1>3

(* Every step keeps the types. *)
LEMMA TypeNext == TypeOK /\ [Next]_vars => TypeOK'
  <1> SUFFICES ASSUME TypeOK, [Next]_vars PROVE TypeOK'
    OBVIOUS
  <1>0. EncoderTypeOK /\ CaptureTypeOK /\ WorkerTypeOK /\ HostTypeOK
    BY DEF TypeOK, EncoderTypeOK, WorkerTypeOK, HostTypeOK
  <1> SUFFICES EncoderTypeOK' /\ CaptureTypeOK' /\ WorkerTypeOK' /\ HostTypeOK'
    BY DEF TypeOK, EncoderTypeOK, WorkerTypeOK, HostTypeOK
  <1>1. CASE WorkerStep
    <2>1. UNCHANGED hostVars
      BY <1>1 DEF WorkerStep, Open, Loop, Acquiring, Acquired, CreateEncoder, FlushOld, DropOld, Dispatch,
                  CheckDevice, Encoding, Encoded, Send, DropLocals, Stop, JoinWatchdog, Synthetic
    <2>2. HostTypeOK'
      BY <1>0, <2>1 DEF hostVars, HostTypeOK
    <2> QED
      BY <1>0, <1>1, <2>2, WorkerCallsOperations, WorkerTypes
  <1>2. CASE Monitor \/ WatchdogFindsStall \/ WatchdogAborts \/ WatchdogEnds \/ TaskEnds \/ StopAborts
             \/ Join \/ TaskFails \/ ConnectionLost
    <2>1. UNCHANGED <<encoderVars, captureVars, config, workerVars>>
      BY <1>2 DEF Monitor, WatchdogFindsStall, WatchdogAborts, WatchdogEnds, TaskEnds, StopAborts, Join,
                  TaskFails, ConnectionLost
    <2>2. EncoderTypeOK' /\ CaptureTypeOK' /\ WorkerTypeOK'
      BY <1>0, <2>1, EncoderTypes, CaptureTypes DEF WorkerTypeOK, workerVars
    <2>3. CASE WatchdogAborts \/ StopAborts
      <3>1. aborters' \subseteq 1..MaxEncoders
        <4>1. slot = 0 \/ slot \in 1..MaxEncoders
          BY <1>0, MaxEncodersAssumption DEF WorkerTypeOK
        <4>2. aborters \subseteq 1..MaxEncoders
          BY <1>0 DEF HostTypeOK
        <4>3. AbortSlot
          BY <2>3 DEF WatchdogAborts, StopAborts
        <4> QED
          BY <4>1, <4>2, <4>3 DEF AbortSlot
      <3> QED
        BY <1>0, <2>2, <2>3, <3>1 DEF WatchdogAborts, StopAborts, HostTypeOK
    <2>4. CASE ~(WatchdogAborts \/ StopAborts)
      BY <1>0, <1>2, <2>2, <2>4
      DEF HostTypeOK, Monitor, WatchdogFindsStall, WatchdogEnds, TaskEnds, Join, TaskFails, ConnectionLost
    <2> QED
      BY <2>3, <2>4
  <1>3. CASE AbortThread
    <2>1. /\ \E e \in 1..encoder.gen : Abort(e)
          /\ UNCHANGED <<captureVars, config, workerVars, stop_requested, watchdog, monitor, task, connection>>
          /\ aborters' \subseteq aborters
      BY <1>3 DEF AbortThread, Abort
    <2> QED
      BY <1>0, <2>1, EncoderTypes, CaptureTypes DEF WorkerTypeOK, workerVars, HostTypeOK
  <1>4. CASE Windows
    <2>1. /\ OutputFreed \/ \E size \in DisplaySizes : DisplayChanges(size)
          /\ UNCHANGED <<encoderVars, config, workerVars, hostVars>>
      BY <1>4 DEF Windows
    <2> QED
      BY <1>0, <2>1, EncoderTypes, CaptureTypes DEF WorkerTypeOK, workerVars, HostTypeOK, hostVars
  <1>5. CASE UNCHANGED vars
    BY <1>0, <1>5, EncoderTypes, CaptureTypes DEF vars, WorkerTypeOK, workerVars, HostTypeOK, hostVars
  <1> QED
    BY <1>1, <1>2, <1>3, <1>4, <1>5 DEF Next, Finished

(* Types of the worker, its capture session and encoder, and the tasks around it. *)
THEOREM WorkerTypeCorrect == Spec => []TypeOK
  <1>1. Init => TypeOK
    BY TypeInit DEF TypeOK, EncoderTypeOK, WorkerTypeOK, HostTypeOK
  <1> QED
    BY <1>1, TypeNext, PTL DEF Spec

-----------------------------------------------------------------------------
(* How a stream ends *)

(* The worker has left its loop. *)
Over == at \in {"drop", "stop", "join_watchdog", "ended"}

(* What makes NoSilentEnd inductive: the worker returns Ok only if somebody told
   it to stop; when that was the watchdog, it has closed the connection once it
   is past its abort; and a worker that returned has joined the watchdog. *)
EndInvariant ==
    /\ Over /\ result = "ok" => stop_requested
    /\ stop_requested /\ task = "serving" /\ watchdog # "abort" => connection = "closed"
    /\ at \in {"synthetic", "ended"} => watchdog = "ended"
    /\ monitor = "done" => at = "ended"
    /\ result \in {"ok", "err"}
    /\ NoSilentEnd

(* A stream begins with nobody told to stop. *)
LEMMA EndInit == Init => EndInvariant
  BY DEF Init, EndInvariant, Over, NoSilentEnd

(* What a step of the worker does to its place and its result. *)
LEMMA WorkerStepEnds ==
    ASSUME EndInvariant, WorkerStep
    PROVE  /\ UNCHANGED hostVars
           /\ result' \in {"ok", "err"}
           /\ Over' /\ result' = "ok" => stop_requested
           /\ at' \in {"synthetic", "ended"} => watchdog = "ended"
           /\ at # "ended"
  <1> USE DEF EndInvariant, Over, Goto, Unwind
  <1>1. CASE Open
    BY <1>1 DEF Open
  <1>2. CASE Loop
    BY <1>2 DEF Loop
  <1>3. CASE Acquiring
    BY <1>3 DEF Acquiring, workerVars
  <1>4. CASE Acquired
    BY <1>4 DEF Acquired
  <1>5. CASE CreateEncoder
    BY <1>5 DEF CreateEncoder
  <1>6. CASE FlushOld \/ DropOld
    BY <1>6 DEF FlushOld, DropOld
  <1>7. CASE Dispatch
    BY <1>7 DEF Dispatch
  <1>8. CASE CheckDevice
    BY <1>8 DEF CheckDevice
  <1>9. CASE Encoding
    BY <1>9 DEF Encoding, workerVars
  <1>10. CASE Encoded
    BY <1>10 DEF Encoded
  <1>11. CASE Send
    BY <1>11 DEF Send
  <1>12. CASE DropLocals \/ Stop
    BY <1>12 DEF DropLocals, Stop
  <1>13. CASE JoinWatchdog
    BY <1>13 DEF JoinWatchdog
  <1>14. CASE Synthetic
    BY <1>14 DEF Synthetic
  <1> QED
    BY <1>1, <1>2, <1>3, <1>4, <1>5, <1>6, <1>7, <1>8, <1>9, <1>10, <1>11, <1>12, <1>13, <1>14 DEF WorkerStep

(* Every step keeps it. *)
LEMMA EndNext == EndInvariant /\ [Next]_vars => EndInvariant'
  <1> SUFFICES ASSUME EndInvariant, [Next]_vars PROVE EndInvariant'
    OBVIOUS
  <1>1. CASE WorkerStep
    <2>1. UNCHANGED <<stop_requested, watchdog, monitor, task, connection>> /\ at # "ended"
      BY <1>1, WorkerStepEnds DEF hostVars
    <2> QED
      BY <1>1, <2>1, WorkerStepEnds DEF EndInvariant, NoSilentEnd
  <1> USE DEF EndInvariant, Over, NoSilentEnd, workerVars
  <1>2. CASE Monitor
    BY <1>2 DEF Monitor
  <1>3. CASE WatchdogFindsStall
    BY <1>3 DEF WatchdogFindsStall
  <1>4. CASE WatchdogAborts
    BY <1>4 DEF WatchdogAborts
  <1>5. CASE WatchdogEnds
    BY <1>5 DEF WatchdogEnds
  <1>6. CASE TaskEnds \/ StopAborts \/ Join \/ TaskFails
    BY <1>6 DEF TaskEnds, StopAborts, Join, TaskFails
  <1>7. CASE ConnectionLost
    BY <1>7 DEF ConnectionLost
  <1>8. CASE Windows \/ AbortThread \/ UNCHANGED vars
    BY <1>8 DEF Windows, AbortThread, vars, hostVars
  <1> QED
    BY <1>1, <1>2, <1>3, <1>4, <1>5, <1>6, <1>7, <1>8 DEF Next, Finished

(* A video stream never ends silently while its connection is served. *)
THEOREM StreamsEndLoudly == Spec => []NoSilentEnd
  <1>1. EndInvariant => NoSilentEnd
    BY DEF EndInvariant
  <1> QED
    BY <1>1, EndInit, EndNext, PTL DEF Spec

-----------------------------------------------------------------------------
(* The frame that is out *)

(* What makes OneFrameOut inductive: a frame that is out is remembered for the
   next acquire_frame, except one nobody could use, which ends the worker. *)
FrameInvariant ==
    /\ at # "acquire" => acquiring = "idle"
    /\ acquiring # "err" /\ ~Over => (dup.held => outstanding)
    /\ OneFrameOut

(* A step that leaves the capture session alone. *)
LEMMA FrameElsewhere ==
    ASSUME FrameInvariant, UNCHANGED captureVars, at # "acquire" /\ at' # "acquire", Over => Over'
    PROVE  FrameInvariant'
  BY DEF FrameInvariant, OneFrameOut, captureVars, Over

(* Every step keeps it. *)
LEMMA FrameNext == TypeOK /\ FrameInvariant /\ [Next]_vars => FrameInvariant'
  <1> SUFFICES ASSUME TypeOK, FrameInvariant, [Next]_vars PROVE FrameInvariant'
    OBVIOUS
  <1>0. dup \in [valid : BOOLEAN, size : DisplaySizes, held : BOOLEAN] /\ outstanding \in BOOLEAN
    BY DEF TypeOK, CaptureTypeOK
  <1>1. CASE CreateEncoder \/ FlushOld \/ DropOld \/ Dispatch \/ CheckDevice \/ Encoding \/ Encoded \/ Send
             \/ Stop \/ JoinWatchdog \/ Synthetic
    <2>1. UNCHANGED captureVars /\ at # "acquire" /\ at' # "acquire" /\ (Over => Over')
      BY <1>1 DEF CreateEncoder, FlushOld, DropOld, Dispatch, CheckDevice, Encoding, Encoded, Send, Stop,
                  JoinWatchdog, Synthetic, Over, Goto, Unwind, workerVars
    <2> QED
      BY <2>1, FrameElsewhere
  <1> USE DEF FrameInvariant, OneFrameOut, Over, Goto, Unwind
  <1>2. CASE Open
    BY <1>0, <1>2 DEF Open, Opened, RetryOpen, captureVars
  <1>3. CASE Loop
    <2>1. CASE Acquire /\ at' = "acquire"
      <3>1. dup'.held = (dup.held /\ ~outstanding)
        BY <1>0, <2>1 DEF Acquire
      <3> QED
        BY <1>3, <2>1, <3>1 DEF Loop, Acquire
    <2> QED
      BY <1>3, <2>1 DEF Loop, captureVars
  <1>4. CASE Acquiring
    <2>0. at = "acquire" /\ at' = "acquire"
      BY <1>4 DEF Acquiring, workerVars
    <2>1. CASE WaitTimeout \/ DuplicationLost \/ AcquireError \/ StillLost \/ RecoveryFails \/ Refresh
      BY <2>0, <2>1 DEF WaitTimeout, DuplicationLost, AcquireError, StillLost, RecoveryFails, Refresh, AcquireEnds
    <2>2. CASE FrameIsUseless \/ Reduplicate
      BY <1>0, <2>0, <2>2 DEF FrameIsUseless, Reduplicate, AcquireEnds
    <2>3. CASE \E image, pointer, texture \in BOOLEAN : FrameArrives(image, pointer, texture)
      BY <2>0, <2>3 DEF FrameArrives
    <2> QED
      BY <1>4, <2>1, <2>2, <2>3 DEF Acquiring, AcquireStep
  <1>5. CASE Acquired
    BY <1>5 DEF Acquired
  <1>6. CASE DropLocals
    <2>1. dup'.held = FALSE /\ acquiring' = "idle"
      BY <1>6 DEF DropLocals, CloseCapture, NoDuplication
    <2> QED
      BY <1>6, <2>1 DEF DropLocals
  <1>7. CASE Windows
    <2>1. dup'.held = dup.held /\ UNCHANGED <<acquiring, outstanding, at>>
      BY <1>0, <1>7 DEF Windows, OutputFreed, DisplayChanges, workerVars
    <2> QED
      BY <2>1
  <1>8. CASE UNCHANGED <<captureVars, at>>
    BY <1>8 DEF captureVars
  <1>9. Monitor \/ WatchdogFindsStall \/ WatchdogAborts \/ WatchdogEnds \/ AbortThread \/ TaskEnds \/ StopAborts
          \/ Join \/ TaskFails \/ ConnectionLost \/ UNCHANGED vars
        => UNCHANGED <<captureVars, at>>
    BY DEF Monitor, WatchdogFindsStall, WatchdogAborts, WatchdogEnds, AbortThread, TaskEnds, StopAborts, Join,
           TaskFails, ConnectionLost, vars, workerVars
  <1> QED
    BY <1>1, <1>2, <1>3, <1>4, <1>5, <1>6, <1>7, <1>8, <1>9 DEF Next, WorkerStep, Finished

(* AcquireNextFrame is never called with a frame of the same duplication out. *)
THEOREM FramesAreGivenBack == Spec => []OneFrameOut
  <1>1. Init => FrameInvariant
    BY DEF Init, CaptureInit, FrameInvariant, OneFrameOut, NoDuplication
  <1>2. FrameInvariant => OneFrameOut
    BY DEF FrameInvariant
  <1> QED
    BY <1>1, <1>2, FrameNext, WorkerTypeCorrect, PTL DEF Spec

-----------------------------------------------------------------------------
(* The bounds the input session has *)

(* What makes BoundsFollowCapture inductive: bounds change with the number of
   recoveries, and a frame goes on only when every recovery was seen. *)
BoundsInvariant ==
    /\ seen <= recoveries
    /\ seen = recoveries => input_bounds = bounds
    /\ at = "create" => first
    /\ ~first /\ at \in {"flush_old", "recreate", "drop_old", "dispatch", "device", "encode", "send"}
           => seen = recoveries

(* Every step keeps it. *)
LEMMA BoundsNext == TypeOK /\ BoundsInvariant /\ [Next]_vars => BoundsInvariant'
  <1> SUFFICES ASSUME TypeOK, BoundsInvariant, [Next]_vars PROVE BoundsInvariant'
    OBVIOUS
  <1>0. recoveries \in Nat /\ seen \in Nat
    BY DEF TypeOK, CaptureTypeOK
  <1> USE DEF BoundsInvariant, Goto, Unwind
  <1>1. CASE Acquiring
    <2>1. at = "acquire" /\ UNCHANGED <<at, first, seen, input_bounds>>
      BY <1>1 DEF Acquiring, workerVars
    <2>2. CASE Refresh
      BY <1>0, <2>1, <2>2 DEF Refresh
    <2>3. CASE ~Refresh
      <3>1. UNCHANGED <<bounds, recoveries>>
        BY <1>1, <2>3 DEF Acquiring, AcquireStep, WaitTimeout, DuplicationLost, AcquireError, FrameIsUseless,
                          FrameArrives, Reduplicate, StillLost, RecoveryFails, AcquireEnds
      <3> QED
        BY <2>1, <3>1
    <2> QED
      BY <2>2, <2>3
  <1>2. CASE Acquired
    BY <1>0, <1>2 DEF Acquired, SyncBounds
  <1>3. CASE Open
    BY <1>0, <1>3 DEF Open, Opened, RetryOpen, captureVars
  <1>4. CASE Loop \/ DropLocals
    BY <1>4 DEF Loop, DropLocals, Acquire, CloseCapture, captureVars
  <1>5. CASE CreateEncoder \/ FlushOld \/ DropOld \/ Dispatch \/ CheckDevice \/ Encoding \/ Encoded \/ Send
             \/ Stop \/ JoinWatchdog \/ Synthetic
    <2>1. UNCHANGED <<bounds, recoveries, seen, input_bounds>>
      BY <1>5 DEF CreateEncoder, FlushOld, DropOld, Dispatch, CheckDevice, Encoding, Encoded, Send, Stop,
                  JoinWatchdog, Synthetic, captureVars, workerVars
    <2>2. at' # "create"
          /\ (at' \in {"flush_old", "recreate", "drop_old", "dispatch", "device", "encode", "send"}
                => /\ at \in {"create", "flush_old", "recreate", "drop_old", "dispatch", "device", "encode"}
                   /\ first' = first)
      BY <1>5 DEF CreateEncoder, FlushOld, DropOld, Dispatch, CheckDevice, Encoding, Encoded, Send, Stop,
                  JoinWatchdog, Synthetic, workerVars
    <2> QED
      BY <2>1, <2>2
  <1>6. CASE Windows
    BY <1>6 DEF Windows, OutputFreed, DisplayChanges, workerVars
  <1>7. CASE UNCHANGED <<captureVars, workerVars>>
    BY <1>7 DEF captureVars, workerVars
  <1>8. Monitor \/ WatchdogFindsStall \/ WatchdogAborts \/ WatchdogEnds \/ AbortThread \/ TaskEnds \/ StopAborts
          \/ Join \/ TaskFails \/ ConnectionLost \/ UNCHANGED vars
        => UNCHANGED <<captureVars, workerVars>>
    BY DEF Monitor, WatchdogFindsStall, WatchdogAborts, WatchdogEnds, AbortThread, TaskEnds, StopAborts, Join,
           TaskFails, ConnectionLost, vars
  <1> QED
    BY <1>1, <1>2, <1>3, <1>4, <1>5, <1>6, <1>7, <1>8 DEF Next, WorkerStep, Finished

(* A frame is dispatched only with the bounds of every recovery before it. *)
THEOREM BoundsAreCurrent == Spec => []BoundsFollowCapture
  <1>1. Init => BoundsInvariant
    BY DEF Init, CaptureInit, BoundsInvariant
  <1>2. BoundsInvariant => BoundsFollowCapture
    BY DEF BoundsInvariant, BoundsFollowCapture
  <1> QED
    BY <1>1, <1>2, BoundsNext, WorkerTypeCorrect, PTL DEF Spec

-----------------------------------------------------------------------------
(* The encoder and its replacement *)

(* The encoder whose abort handle is published is the one in use, and a first
   frame finds none. *)
SlotInvariant ==
    /\ at # "ended" => slot = encoder.gen
    /\ first /\ at \in {"open", "loop", "acquire", "create"} => encoder.gen = 0
    /\ at = "create" => first
    /\ first /\ at = "dispatch" => frame.image
    /\ at \in {"flush_old", "recreate", "drop_old"} => ~first

(* The old encoder is flushed by the time its replacement is made. *)
FlushInvariant ==
    /\ at = "recreate" => encoder.gen \in aborted
    /\ OldEncoderFlushed

(* An image has a texture, and has the size of the encoder once it is dispatched. *)
FitInvariant ==
    /\ frame.image => frame.texture
    /\ at \in {"create", "flush_old", "recreate", "drop_old"} => frame.image
    /\ at \in {"drop_old", "dispatch", "device"} /\ frame.image => frame.size = encoder.size
    /\ at = "device" => SendVideo

EncoderInvariant == SlotInvariant /\ FlushInvariant /\ FitInvariant

(* A step that touches neither encoder nor frame, and stays where it is. *)
LEMMA EncoderElsewhere ==
    ASSUME EncoderInvariant, aborted \subseteq aborted',
           UNCHANGED <<at, slot, first, encoder, frame, config>>
    PROVE  EncoderInvariant'
  BY DEF EncoderInvariant, SlotInvariant, FlushInvariant, FitInvariant, OldEncoderFlushed, SendVideo

(* The steps of the capture leave the encoder alone. *)
LEMMA EncoderCapture ==
    ASSUME TypeOK, EncoderInvariant, Open \/ Loop \/ Acquiring \/ Acquired
    PROVE  EncoderInvariant'
  <1>0. UNCHANGED <<encoder, aborted, slot, first, config>>
    BY DEF Open, Loop, Acquiring, Acquired, encoderVars, workerVars
  <1>1. OldEncoderFlushed'
    BY <1>0 DEF EncoderInvariant, FlushInvariant, OldEncoderFlushed
  <1> USE DEF EncoderInvariant, SlotInvariant, FlushInvariant, FitInvariant, SendVideo, Goto, Unwind
  <1>2. CASE Open
    BY <1>0, <1>1, <1>2 DEF Open, Opened, RetryOpen, captureVars
  <1>3. CASE Loop
    BY <1>0, <1>1, <1>3 DEF Loop, Acquire, NoFrame, captureVars
  <1>4. CASE Acquiring
    <2>1. at = "acquire" /\ at' = "acquire"
      BY <1>4 DEF Acquiring, workerVars
    <2>2. frame'.image => frame'.texture
      BY <1>4 DEF Acquiring, AcquireStep, WaitTimeout, DuplicationLost, AcquireError, FrameIsUseless,
                  FrameArrives, Reduplicate, StillLost, RecoveryFails, Refresh, AcquireEnds
    <2> QED
      BY <1>0, <1>1, <2>1, <2>2
  <1>5. CASE Acquired
    <2>1. frame' = frame
      BY <1>5 DEF Acquired
    <2> QED
      BY <1>0, <1>1, <1>5, <2>1 DEF Acquired, RequiresRebuild
  <1> QED
    BY <1>2, <1>3, <1>4, <1>5

(* A new encoder fits the frame it was made for, and those before it are flushed. *)
LEMMA EncoderCreated ==
    ASSUME TypeOK, EncoderInvariant, CreateEncoder
    PROVE  EncoderInvariant'
  <1>0. encoder.gen \in Nat /\ UNCHANGED <<frame, first, aborted, config>> /\ at \in {"create", "recreate"}
    BY DEF TypeOK, CreateEncoder, NewEncoder, captureVars, encoderVars
  <1>1. CASE Unwind("err") /\ UNCHANGED <<encoderVars, slot>>
    BY <1>0, <1>1 DEF EncoderInvariant, SlotInvariant, FlushInvariant, FitInvariant, OldEncoderFlushed, Unwind,
                      Goto, encoderVars
  <1>2. CASE /\ NewEncoder(frame.size) /\ slot' = encoder'.gen
             /\ at' = IF at = "create" THEN "dispatch" ELSE "drop_old"
    <2>1. encoder'.gen = encoder.gen + 1 /\ encoder'.size = frame.size
      BY <1>2 DEF NewEncoder
    <2>2. SlotInvariant' /\ FitInvariant'
      BY <1>0, <1>2, <2>1 DEF EncoderInvariant, SlotInvariant, FitInvariant
    <2>3. \A e \in 1..encoder.gen : e \in aborted
      <3>1. CASE at = "create"
        BY <1>0, <3>1 DEF EncoderInvariant, SlotInvariant
      <3>2. CASE at = "recreate"
        BY <1>0, <3>2 DEF EncoderInvariant, FlushInvariant, OldEncoderFlushed
      <3> QED
        BY <1>0, <3>1, <3>2
    <2>4. FlushInvariant'
      BY <1>0, <1>2, <2>1, <2>3 DEF FlushInvariant, OldEncoderFlushed
    <2> QED
      BY <2>2, <2>4 DEF EncoderInvariant
  <1> QED
    BY <1>1, <1>2 DEF CreateEncoder, Goto

(* Flushing, dropping, encoding and sending. *)
LEMMA EncoderUsed ==
    ASSUME TypeOK, EncoderInvariant,
           FlushOld \/ DropOld \/ Dispatch \/ CheckDevice \/ Encoding \/ Encoded \/ Send
    PROVE  EncoderInvariant'
  <1>0. encoder' = encoder /\ slot' = slot /\ frame' = frame /\ config' = config /\ aborted \subseteq aborted'
    BY DEF FlushOld, DropOld, Dispatch, CheckDevice, Encoding, Encoded, Send, Abort, Encode, Output, Finish, Return,
           captureVars, encoderVars, workerVars
  <1>1. OldEncoderFlushed'
    BY <1>0 DEF EncoderInvariant, FlushInvariant, OldEncoderFlushed
  <1> USE DEF EncoderInvariant, SlotInvariant, FlushInvariant, FitInvariant, SendVideo, Goto, Unwind
  <1>2. CASE FlushOld
    BY <1>0, <1>1, <1>2 DEF FlushOld, Abort
  <1>3. CASE DropOld
    BY <1>0, <1>1, <1>3 DEF DropOld
  <1>4. CASE Dispatch
    BY <1>0, <1>1, <1>4 DEF Dispatch
  <1>5. CASE CheckDevice
    BY <1>0, <1>1, <1>5 DEF CheckDevice
  <1>6. CASE Encoding \/ Encoded
    BY <1>0, <1>1, <1>6 DEF Encoding, Encoded, workerVars
  <1>7. CASE Send
    BY <1>0, <1>1, <1>7 DEF Send
  <1> QED
    BY <1>2, <1>3, <1>4, <1>5, <1>6, <1>7

(* Every step keeps it. *)
LEMMA EncoderNextStep == TypeOK /\ EncoderInvariant /\ [Next]_vars => EncoderInvariant'
  <1> SUFFICES ASSUME TypeOK, EncoderInvariant, [Next]_vars PROVE EncoderInvariant'
    OBVIOUS
  <1>1. CASE DropLocals \/ Stop \/ JoinWatchdog \/ Synthetic
    <2>1. /\ encoder' = encoder /\ aborted \subseteq aborted'
          /\ at' \in {"stop", "join_watchdog", "ended", "synthetic"}
          /\ at' # "ended" => slot' = slot /\ at # "ended"
      BY <1>1 DEF DropLocals, Stop, JoinWatchdog, Synthetic, Abort, Goto, encoderVars
    <2>2. frame'.image => frame'.texture
      BY <1>1 DEF DropLocals, Stop, JoinWatchdog, Synthetic, CloseCapture, NoFrame, captureVars, EncoderInvariant,
                  FitInvariant
    <2> QED
      BY <2>1, <2>2 DEF EncoderInvariant, SlotInvariant, FlushInvariant, FitInvariant, OldEncoderFlushed
  <1>2. CASE AbortThread \/ Windows \/ Monitor \/ WatchdogFindsStall \/ WatchdogAborts \/ WatchdogEnds
             \/ TaskEnds \/ StopAborts \/ Join \/ TaskFails \/ ConnectionLost \/ UNCHANGED vars
    <2>1. UNCHANGED <<at, slot, first, encoder, frame, config>> /\ aborted \subseteq aborted'
      BY <1>2 DEF AbortThread, Windows, OutputFreed, DisplayChanges, Abort, Monitor, WatchdogFindsStall,
                  WatchdogAborts, WatchdogEnds, TaskEnds, StopAborts, Join, TaskFails, ConnectionLost, vars,
                  captureVars, encoderVars, workerVars
    <2> QED
      BY <2>1, EncoderElsewhere
  <1> QED
    BY <1>1, <1>2, EncoderCapture, EncoderCreated, EncoderUsed DEF Next, WorkerStep, Finished

(* There is no encoder, and no frame, when the stream starts. *)
LEMMA EncoderStart == Init => EncoderInvariant
  <1> SUFFICES ASSUME Init PROVE EncoderInvariant
    OBVIOUS
  <1>1. encoder.gen = 0 /\ slot = 0 /\ ~frame.image /\ at \in {"open", "synthetic"}
    BY DEF Init, EncoderInit, CaptureInit, NoEncoder, NoFrame
  <1> QED
    BY <1>1 DEF EncoderInvariant, SlotInvariant, FlushInvariant, FitInvariant, OldEncoderFlushed

(* Every encoder that was replaced was told to flush first. *)
THEOREM OldEncodersAreFlushed == Spec => []OldEncoderFlushed
  <1>1. EncoderInvariant => OldEncoderFlushed
    BY DEF EncoderInvariant, FlushInvariant
  <1> QED
    BY <1>1, EncoderStart, EncoderNextStep, WorkerTypeCorrect, PTL DEF Spec

(* What reaches encode fits the encoder, or is a pointer update sent as video. *)
THEOREM FramesFitEncoder == Spec => []EncoderFitsFrame
  <1>1. TypeOK /\ EncoderInvariant => EncoderFitsFrame
    BY DEF EncoderInvariant, FitInvariant, EncoderFitsFrame, SendVideo
  <1> QED
    BY <1>1, EncoderStart, EncoderNextStep, WorkerTypeCorrect, PTL DEF Spec
=============================================================================
