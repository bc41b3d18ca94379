---------------------------- MODULE VideoWorker ----------------------------
(***************************************************************************)
(* The video stream of one connection (host/transport/src/server.rs): the  *)
(* worker thread that captures, encodes and sends; the watchdog thread that*)
(* ends a stream whose worker is stuck; the monitor task that waits for the*)
(* worker; and the end of the connection task, which stops the worker and  *)
(* waits for it.                                                           *)
(*                                                                         *)
(* The worker is inside a call that may never return when Blocked holds.   *)
(* The mutex around the abort handle (slot) is only seen held while the    *)
(* worker aborts an old encoder ("flush_old"): the others let go of it in  *)
(* the step that takes it.  Time is left out: any stage may turn out longer*)
(* than the watchdog's limit, any wait longer than its timeout.            *)
(***************************************************************************)
EXTENDS VideoEncoder, DesktopCapture

ASSUME SizesAssumption == DisplaySizes \subseteq Sizes

VARIABLES
    config,         \* synthetic access units or the desktop; pointer overlay
    at,             \* where the worker is
    stage,          \* telemetry.current_stage
    first,          \* the frame in hand is the first one
    result,         \* what the worker returns
    seen,           \* last_recoveries
    input_bounds,   \* display bounds of the InputSession
    slot,           \* the encoder whose abort handle is published, 0 for None
    stop_requested,
    watchdog,       \* look, abort, acted (stall_action_taken), ended
    monitor,        \* waiting, done
    task,           \* the connection task
    connection,     \* open, closed
    aborters        \* encoders that a thread of its own is about to abort

hostVars == <<stop_requested, watchdog, monitor, task, connection, aborters>>
workerVars == <<at, stage, first, result, seen, input_bounds, slot>>
vars == <<encoderVars, captureVars, config, workerVars, hostVars>>

Places == {"synthetic", "open", "loop", "acquire", "create", "flush_old", "recreate", "drop_old",
           "dispatch", "device", "encode", "send", "drop", "stop", "join_watchdog", "ended"}
Stages == {"Starting", "WaitingForFirstFrame", "WaitingForFrame", "SendingPointerState",
           "CheckingDevice", "EncodingFrame", "SendingVideo", "Stopping"}

Init ==
    /\ EncoderInit
    /\ CaptureInit
    /\ config \in [synthetic : BOOLEAN, pointer : BOOLEAN]
    /\ at = IF config.synthetic THEN "synthetic" ELSE "open"
    /\ stage = "Starting"
    /\ first = TRUE
    /\ result = "ok"
    /\ seen = 0
    /\ input_bounds = display
    /\ slot = 0
    /\ stop_requested = FALSE
    /\ watchdog = IF config.synthetic THEN "ended" ELSE "look"
    /\ monitor = "waiting"
    /\ task = "serving"
    /\ connection = "open"
    /\ aborters = {}

Goto(place) == at' = place

(* The closure returns; its locals are dropped first. *)
Unwind(r) ==
    /\ result' = r
    /\ Goto("drop")

-----------------------------------------------------------------------------
(* capture: open, and what precedes it. *)
Open ==
    /\ at = "open"
    /\ \/ /\ Opened
          /\ input_bounds' = bounds
          /\ stage' = "WaitingForFirstFrame"
          /\ Goto("loop")
          /\ UNCHANGED result
       \/ /\ RetryOpen
          /\ UNCHANGED <<at, stage, result, input_bounds>>
       \/ /\ attempts = 0 \/ LastAttempt
          /\ Unwind("err")
          /\ UNCHANGED <<captureVars, stage, input_bounds>>
    /\ UNCHANGED <<encoderVars, config, first, seen, slot, hostVars>>

(* The head of wait_for_first_frame (with its deadline) and of the loop. *)
Loop ==
    /\ at = "loop"
    /\ \/ /\ ~stop_requested
          /\ stage' = IF first THEN stage ELSE "WaitingForFrame"
          /\ Acquire
          /\ Goto("acquire")
          /\ UNCHANGED result
       \/ /\ stop_requested \/ first
          /\ Unwind(IF first THEN "err" ELSE "ok")
          /\ UNCHANGED <<captureVars, stage>>
    /\ UNCHANGED <<encoderVars, config, first, seen, input_bounds, slot, hostVars>>

Acquiring ==
    /\ at = "acquire"
    /\ AcquireStep
    /\ UNCHANGED <<encoderVars, config, workerVars, hostVars>>

(* sync_input_session_bounds, when there was a recovery since the last time. *)
SyncBounds ==
    IF recoveries # seen THEN seen' = recoveries /\ input_bounds' = bounds
                         ELSE UNCHANGED <<seen, input_bounds>>

RebuildWhenBoundsDiffer == frame.image /\ frame.size # bounds

RequiresRebuild == frame.image /\ frame.size # encoder.size

(* acquire_frame has returned: to wait_for_first_frame, or to the loop. *)
Acquired ==
    /\ at = "acquire"
    /\ acquiring \in {"frame", "none", "err"}
    /\ acquiring' = "idle"
    /\ IF acquiring = "err" THEN Unwind("err") /\ UNCHANGED <<stage, seen, input_bounds>>
       ELSE /\ IF first THEN /\ Goto(IF frame.image THEN "create" ELSE "loop")
                             /\ UNCHANGED <<stage, seen, input_bounds>>
                        ELSE /\ SyncBounds
                             /\ IF acquiring = "none" THEN Goto("loop") /\ UNCHANGED stage
                                ELSE IF RequiresRebuild THEN Goto("flush_old") /\ stage' = "EncodingFrame"
                                ELSE Goto("dispatch") /\ UNCHANGED stage
            /\ UNCHANGED result
    /\ UNCHANGED <<encoderVars, display, changes, taken, attempts, dup, bounds, recoveries, outstanding,
                   frame, config, first, slot, hostVars>>

-----------------------------------------------------------------------------
(* The first encoder, and one for another size: the old one is aborted with the
   mutex held, and dropped once the new one is published. *)
CreateEncoder ==
    /\ at \in {"create", "recreate"}
    /\ \/ /\ NewEncoder(frame.size)
          /\ slot' = encoder'.gen
          /\ Goto(IF at = "create" THEN "dispatch" ELSE "drop_old")
          /\ UNCHANGED result
       \/ /\ Unwind("err")
          /\ UNCHANGED <<encoderVars, slot>>
    /\ UNCHANGED <<captureVars, config, stage, first, seen, input_bounds, hostVars>>

SkipFlush ==
    /\ at = "flush_old"
    /\ Goto("recreate")
    /\ UNCHANGED <<encoderVars, captureVars, config, stage, first, result, seen, input_bounds, slot, hostVars>>

FlushOld ==
    /\ at = "flush_old"
    /\ Abort(slot)
    /\ Goto("recreate")
    /\ UNCHANGED <<captureVars, config, stage, first, result, seen, input_bounds, slot, hostVars>>

DropOld ==
    /\ at = "drop_old"
    /\ Abort(encoder.gen - 1)
    /\ Goto("dispatch")
    /\ UNCHANGED <<captureVars, config, stage, first, result, seen, input_bounds, slot, hostVars>>

-----------------------------------------------------------------------------
(* send_frame_update.  plan_frame_dispatch: *)
SendVideo == frame.image \/ (frame.pointer /\ ~config.pointer)
SendPointerState == config.pointer /\ frame.pointer

(* The pointer datagram, and the shape through a channel that the connection
   task may have dropped. *)
Dispatch ==
    /\ at = "dispatch"
    /\ stage' = IF SendVideo THEN "CheckingDevice"
                ELSE IF SendPointerState THEN "SendingPointerState" ELSE stage
    /\ \/ /\ SendPointerState => connection = "open"
          /\ Goto(IF SendVideo THEN "device" ELSE "loop")
          /\ UNCHANGED result
       \/ /\ SendPointerState
          /\ Unwind("err")
    /\ UNCHANGED <<encoderVars, captureVars, config, first, seen, input_bounds, slot, hostVars>>

(* check_device_health, and the call of encode. *)
CheckDevice ==
    /\ at = "device"
    /\ \/ /\ stage' = "EncodingFrame"
          /\ Encode(frame.size, frame.texture)
          /\ Goto("encode")
          /\ UNCHANGED result
       \/ /\ Unwind("err")
          /\ UNCHANGED <<encoderVars, stage>>
    /\ UNCHANGED <<captureVars, config, first, seen, input_bounds, slot, hostVars>>

Encoding ==
    /\ at = "encode"
    /\ Output \/ Finish
    /\ UNCHANGED <<captureVars, config, workerVars, hostVars>>

Encoded ==
    /\ at = "encode"
    /\ \/ call = "ok" /\ Goto("send") /\ stage' = "SendingVideo" /\ UNCHANGED <<encoderVars, result>>
       \/ call = "err" /\ Return /\ Unwind("err") /\ UNCHANGED stage
    /\ UNCHANGED <<captureVars, config, first, seen, input_bounds, slot, hostVars>>

(* send_encoded_access_units: a unit is dropped when there is no payload limit
   or a datagram is too large; any other error ends the stream. *)
Send ==
    /\ at = "send"
    /\ Return
    /\ \/ /\ encoded => connection = "open"
          /\ Goto("loop")
          /\ first' = FALSE
          /\ UNCHANGED result
       \/ /\ encoded
          /\ Unwind("err")
          /\ UNCHANGED first
    /\ UNCHANGED <<captureVars, config, stage, seen, input_bounds, slot, hostVars>>

-----------------------------------------------------------------------------
(* The encoder is dropped, then the capture session. *)
DropLocals ==
    /\ at = "drop"
    /\ IF encoder.gen > 0 THEN Abort(encoder.gen) ELSE UNCHANGED encoderVars
    /\ CloseCapture
    /\ Goto("stop")
    /\ UNCHANGED <<config, stage, first, result, seen, input_bounds, slot, hostVars>>

Stop ==
    /\ at = "stop"
    /\ stage' = "Stopping"
    /\ Goto("join_watchdog")
    /\ UNCHANGED <<encoderVars, captureVars, config, first, result, seen, input_bounds, slot, hostVars>>

JoinNobody ==
    /\ at = "join_watchdog"
    /\ slot' = 0
    /\ Goto("ended")
    /\ UNCHANGED <<encoderVars, captureVars, config, stage, first, result, seen, input_bounds, hostVars>>

JoinWatchdog ==
    /\ at = "join_watchdog"
    /\ watchdog = "ended"
    /\ slot' = 0
    /\ Goto("ended")
    /\ UNCHANGED <<encoderVars, captureVars, config, stage, first, result, seen, input_bounds, hostVars>>

(* run_synthetic_video_stream_worker: one access unit, or the end. *)
Synthetic ==
    /\ at = "synthetic"
    /\ \/ ~stop_requested /\ connection = "open" /\ UNCHANGED <<at, result>>
       \/ ~stop_requested /\ result' = "err" /\ Goto("ended")
       \/ stop_requested /\ result' = "ok" /\ Goto("ended")
    /\ UNCHANGED <<encoderVars, captureVars, config, stage, first, seen, input_bounds, slot, hostVars>>

WorkerStep ==
    \/ Open \/ Loop \/ Acquiring \/ Acquired \/ CreateEncoder \/ FlushOld \/ DropOld
    \/ Dispatch \/ CheckDevice \/ Encoding \/ Encoded \/ Send
    \/ DropLocals \/ Stop \/ JoinWatchdog \/ Synthetic

(* Calls into the GPU and the encoder, which may never return. *)
Blocked ==
    \/ at \in {"create", "recreate", "drop_old", "flush_old"}
    \/ at = "acquire" /\ acquiring = "waiting"
    \/ at = "encode" /\ call = "busy"
    \/ at = "drop" /\ encoder.gen > 0

-----------------------------------------------------------------------------
SlotLocked == at = "flush_old"

(* The abort itself is left to a new thread, which may hang in it. *)
AbortSlot == aborters' = IF slot = 0 THEN aborters ELSE aborters \cup {slot}

AbortThread ==
    /\ \E e \in aborters : Abort(e) /\ aborters' = aborters \ {e}
    /\ UNCHANGED <<captureVars, config, workerVars, stop_requested, watchdog, monitor, task, connection>>

(* start_video_stream's monitor: the worker has returned. *)
Monitor ==
    /\ monitor = "waiting"
    /\ at = "ended"
    /\ monitor' = "done"
    /\ connection' = IF result = "err" /\ ~stop_requested THEN "closed" ELSE connection
    /\ UNCHANGED <<encoderVars, captureVars, config, workerVars, stop_requested, watchdog, task, aborters>>

(* video_worker_stall_reason: the stages the watchdog looks at. *)
OnlyBlockingStages == stage \in {"SendingPointerState", "CheckingDevice", "EncodingFrame", "SendingVideo"}
Watched == stage \notin {"Starting", "Stopping"}

WatchdogFindsStall ==
    /\ watchdog = "look"
    /\ Watched
    /\ watchdog' = "abort"
    /\ stop_requested' = TRUE
    /\ UNCHANGED <<encoderVars, captureVars, config, workerVars, monitor, task, connection, aborters>>

WatchdogAborts ==
    /\ watchdog = "abort"
    /\ ~SlotLocked
    /\ AbortSlot
    /\ connection' = "closed"
    /\ watchdog' = "acted"
    /\ UNCHANGED <<encoderVars, captureVars, config, workerVars, stop_requested, monitor, task>>

WatchdogEnds ==
    /\ watchdog \in {"look", "acted"}
    /\ at = "join_watchdog"
    /\ watchdog' = "ended"
    /\ UNCHANGED <<encoderVars, captureVars, config, workerVars, stop_requested, monitor, task, connection, aborters>>

(* The connection task: its loop ends, it stops the stream, and joins it or
   gives up after 30 s; then the connection is closed.  An error that leaves
   the task on the way only drops the stream. *)
TaskEnds ==
    /\ task = "serving"
    /\ task' = "stop"
    /\ stop_requested' = TRUE
    /\ UNCHANGED <<encoderVars, captureVars, config, workerVars, watchdog, monitor, connection, aborters>>

StopAborts ==
    /\ task = "stop"
    /\ ~SlotLocked
    /\ AbortSlot
    /\ task' = "join"
    /\ UNCHANGED <<encoderVars, captureVars, config, workerVars, stop_requested, watchdog, monitor, connection>>

JoinForEver ==
    /\ task = "join"
    /\ monitor = "done"
    /\ task' = "joined"
    /\ connection' = "closed"
    /\ UNCHANGED <<encoderVars, captureVars, config, workerVars, stop_requested, watchdog, monitor, aborters>>

Join ==
    /\ task = "join"
    /\ task' \in IF monitor = "done" THEN {"joined"} ELSE {"abandoned"}
    /\ connection' = "closed"
    /\ UNCHANGED <<encoderVars, captureVars, config, workerVars, stop_requested, watchdog, monitor, aborters>>

TaskFails ==
    /\ task = "serving"
    /\ task' = "gone"
    /\ connection' = "closed"
    /\ UNCHANGED <<encoderVars, captureVars, config, workerVars, stop_requested, watchdog, monitor, aborters>>

ConnectionLost ==
    /\ connection = "open"
    /\ connection' = "closed"
    /\ UNCHANGED <<encoderVars, captureVars, config, workerVars, stop_requested, watchdog, monitor, task, aborters>>

(* What Windows does to the capture of a running worker. *)
Windows ==
    /\ at \notin {"synthetic", "stop", "join_watchdog", "ended"}
    /\ OutputFreed \/ \E size \in DisplaySizes : DisplayChanges(size)
    /\ UNCHANGED <<encoderVars, config, workerVars, hostVars>>

Finished ==
    /\ monitor = "done"
    /\ task \in {"joined", "abandoned", "gone"}
    /\ UNCHANGED vars

Next ==
    \/ WorkerStep \/ Monitor
    \/ WatchdogFindsStall \/ WatchdogAborts \/ WatchdogEnds \/ AbortThread
    \/ TaskEnds \/ StopAborts \/ Join \/ TaskFails
    \/ ConnectionLost \/ Windows
    \/ Finished

(* Threads and tasks run on.  A call in BlockingSites may hang for ever, and a
   stage that does is noticed; a task whose connection is closed ends. *)
Fairness ==
    /\ WF_vars(~Blocked /\ WorkerStep)
    /\ WF_vars(Blocked /\ WatchdogFindsStall)
    /\ WF_vars(WatchdogAborts) /\ WF_vars(WatchdogEnds)
    /\ WF_vars(Monitor)
    /\ WF_vars(connection = "closed" /\ (TaskEnds \/ TaskFails))
    /\ WF_vars(StopAborts) /\ WF_vars(Join)

Spec == Init /\ [][Next]_vars /\ Fairness

-----------------------------------------------------------------------------
TypeOK ==
    /\ encoder \in [gen : 0..MaxEncoders, size : Sizes]
    /\ input \in [size : Sizes, texture : BOOLEAN]
    /\ call \in {"none", "busy", "ok", "err"}
    /\ encoded \in BOOLEAN
    /\ aborted \subseteq 1..MaxEncoders
    /\ CaptureTypeOK
    /\ config \in [synthetic : BOOLEAN, pointer : BOOLEAN]
    /\ at \in Places
    /\ stage \in Stages
    /\ first \in BOOLEAN
    /\ result \in {"ok", "err"}
    /\ seen \in Nat
    /\ input_bounds \in DisplaySizes
    /\ slot \in 0..MaxEncoders
    /\ stop_requested \in BOOLEAN
    /\ watchdog \in {"look", "abort", "acted", "ended"}
    /\ monitor \in {"waiting", "done"}
    /\ task \in {"serving", "stop", "join", "joined", "abandoned", "gone"}
    /\ connection \in {"open", "closed"}
    /\ aborters \subseteq 1..MaxEncoders

(* A video stream never ends silently: when its worker is gone while the task
   still serves the connection, the connection is closed, also when the worker
   returns Ok between the watchdog's stop and the watchdog's close, since it
   joins the watchdog before it returns. *)
NoSilentEnd ==
    monitor = "done" /\ task = "serving" => connection = "closed"

(* Remote input is mapped with the bounds of the capture the frames come from:
   a frame is dispatched only after the bounds of every recovery before it have
   reached the input session.  Only the first frame may be ahead of them. *)
BoundsFollowCapture ==
    at \in {"dispatch", "device", "encode", "send"} /\ ~first => input_bounds = bounds

(* A frame that reaches encode fits the encoder, or it is a pointer update that
   goes out as video because the overlay is off: that one is refused, and the
   stream with it. *)
EncoderFitsFrame ==
    at = "device" /\ (frame.size # encoder.size \/ ~frame.texture)
        => ~frame.image /\ ~config.pointer

(* The replacement of an encoder is created only after the old one was told to
   flush, whichever path led to the new size. *)
OldEncoderFlushed ==
    \A e \in 1..(encoder.gen - 1) : e \in aborted

(* The watchdog "closes the active stream loudly if the worker wedges instead of
   silently stopping frame delivery" (docs/Status.md): a worker that stays in a
   call for ever has its connection closed, unless it holds the mutex of the abort
   handle there, which the watchdog needs first. *)
WedgedStreamIsClosed ==
    <>[](Blocked /\ ~SlotLocked) => <>(connection = "closed")

(* A connection that ends gets past the stop and the join of its worker, also
   when the worker is stuck, unless it is stuck with the mutex of the abort
   handle held. *)
TeardownEnds == task = "stop" ~> (task \in {"joined", "abandoned"} \/ SlotLocked)

=============================================================================
