--------------------------- MODULE DesktopCapture ---------------------------
(***************************************************************************)
(* DxgiCaptureSession (host/capture/src/windows_backend.rs): one desktop   *)
(* duplication, opened with retries, from which one thread acquires frame  *)
(* after frame.  Windows may change the display or take the duplication    *)
(* away at any moment; the session makes a new one and reads the desktop   *)
(* bounds again, in two calls.                                             *)
(*                                                                         *)
(* `acquiring` is where acquire_frame is, or how it ended.  A display mode *)
(* is a size: where the desktop lies and how it is turned are left out, and*)
(* so are the pixels of the pointer.                                       *)
(***************************************************************************)
EXTENDS Integers

CONSTANTS
    DisplaySizes,   \* sizes a display may have
    OpenAttempts,   \* attempts at DuplicateOutput in open
    MaxChanges      \* bound on the times the display changes or the duplication is lost

ASSUME CaptureAssumption == DisplaySizes # {} /\ OpenAttempts \in Nat \ {0} /\ MaxChanges \in Nat

VARIABLES
    display,        \* the size of the display
    changes,        \* times it changed or the duplication was lost
    taken,          \* an abandoned worker still duplicates the output
    attempts,       \* attempts at DuplicateOutput that failed
    dup,            \* the duplication: valid, the size of its textures, a frame is not released
    bounds,         \* display_info.desktop_bounds
    recoveries,     \* access_lost_recoveries
    outstanding,    \* outstanding_release is Some
    acquiring,      \* where acquire_frame is
    frame           \* the frame in hand

captureVars == <<display, changes, taken, attempts, dup, bounds, recoveries, outstanding, acquiring, frame>>

Phases == {"idle", "waiting", "lost", "refresh", "frame", "none", "err"}
Frames == [image : BOOLEAN, pointer : BOOLEAN, texture : BOOLEAN, size : DisplaySizes]
AnySize == CHOOSE s \in DisplaySizes : TRUE
NoFrame == [image |-> FALSE, pointer |-> FALSE, texture |-> FALSE, size |-> AnySize]
NoDuplication == [valid |-> FALSE, size |-> AnySize, held |-> FALSE]

CaptureInit ==
    /\ display \in DisplaySizes
    /\ changes = 0
    /\ taken \in BOOLEAN
    /\ attempts = 0
    /\ dup = NoDuplication
    /\ bounds = display
    /\ recoveries = 0
    /\ outstanding = FALSE
    /\ acquiring = "idle"
    /\ frame = NoFrame

-----------------------------------------------------------------------------
(* The display changes, or only the duplication is lost. *)
DisplayChanges(size) ==
    /\ changes < MaxChanges
    /\ changes' = changes + 1
    /\ display' = size
    /\ dup' = [dup EXCEPT !.valid = FALSE]
    /\ UNCHANGED <<taken, attempts, bounds, recoveries, outstanding, acquiring, frame>>

(* The worker of an earlier stream lets go of the output. *)
OutputFreed ==
    /\ taken
    /\ taken' = FALSE
    /\ UNCHANGED <<display, changes, attempts, dup, bounds, recoveries, outstanding, acquiring, frame>>

-----------------------------------------------------------------------------
(* open: one attempt.  display_info is what the enumeration found. *)
Opened ==
    /\ ~taken
    /\ dup' = [valid |-> TRUE, size |-> display, held |-> FALSE]
    /\ UNCHANGED <<display, changes, taken, attempts, bounds, recoveries, outstanding, acquiring, frame>>

LastAttempt == attempts = OpenAttempts - 1

RetryOpen ==
    /\ ~LastAttempt
    /\ attempts' = attempts + 1
    /\ UNCHANGED <<display, changes, taken, dup, bounds, recoveries, outstanding, acquiring, frame>>

(* The session is dropped, and what it holds with it. *)
CloseCapture ==
    /\ dup' = NoDuplication
    /\ outstanding' = FALSE
    /\ frame' = NoFrame
    /\ acquiring' = "idle"
    /\ UNCHANGED <<display, changes, taken, attempts, bounds, recoveries>>

-----------------------------------------------------------------------------
(* acquire_frame gives the last frame back, and then asks for the next. *)
AcquireWithoutRelease ==
    /\ acquiring' = "waiting"
    /\ outstanding' = FALSE
    /\ frame' = NoFrame
    /\ UNCHANGED <<display, changes, taken, attempts, dup, bounds, recoveries>>

Acquire ==
    /\ acquiring' = "waiting"
    /\ dup' = [dup EXCEPT !.held = @ /\ ~outstanding]
    /\ outstanding' = FALSE
    /\ frame' = NoFrame
    /\ UNCHANGED <<display, changes, taken, attempts, bounds, recoveries>>

AcquireEnds(how) ==
    /\ acquiring' = how
    /\ UNCHANGED <<display, changes, taken, attempts, bounds, recoveries, outstanding, frame>>

WaitTimeout ==
    /\ acquiring = "waiting"
    /\ AcquireEnds("none")
    /\ UNCHANGED dup

(* ACCESS_LOST or INVALID_CALL; or an error there is no way back from. *)
DuplicationLost ==
    /\ acquiring = "waiting"
    /\ ~dup.valid
    /\ AcquireEnds("lost")
    /\ UNCHANGED dup

AcquireError ==
    /\ acquiring = "waiting"
    /\ AcquireEnds("err")
    /\ UNCHANGED dup

(* A frame.  A pointer shape that cannot be read, or an image without a texture,
   is an error, and nothing gives that frame back. *)
FrameIsUseless ==
    /\ acquiring = "waiting"
    /\ dup.valid
    /\ AcquireEnds("err")
    /\ dup' = [dup EXCEPT !.held = TRUE]

SizeOf(texture) == IF texture THEN dup.size ELSE bounds

FrameArrives(image, pointer, texture) ==
    /\ acquiring = "waiting"
    /\ dup.valid
    /\ image => texture
    /\ acquiring' = "frame"
    /\ frame' = [image |-> image, pointer |-> pointer, texture |-> texture, size |-> SizeOf(texture)]
    /\ dup' = [dup EXCEPT !.held = TRUE]
    /\ outstanding' = TRUE
    /\ UNCHANGED <<display, changes, taken, attempts, bounds, recoveries>>

(* recover_from_duplication_loss: DuplicateOutput gives a new duplication, or
   ACCESS_LOST again, which the next acquire_frame deals with, or fails. *)
Reduplicate ==
    /\ acquiring = "lost"
    /\ AcquireEnds("refresh")
    /\ dup' = [valid |-> TRUE, size |-> display, held |-> FALSE]

StillLost ==
    /\ acquiring = "lost"
    /\ AcquireEnds("none")
    /\ UNCHANGED dup

RecoveryFails ==
    /\ acquiring \in {"lost", "refresh"}
    /\ AcquireEnds("err")
    /\ UNCHANGED dup

(* refresh_display_info, and only then does the recovery count. *)
RefreshUncounted ==
    /\ acquiring = "refresh"
    /\ acquiring' = "none"
    /\ bounds' = display
    /\ UNCHANGED <<display, changes, taken, attempts, dup, recoveries, outstanding, frame>>

Refresh ==
    /\ acquiring = "refresh"
    /\ acquiring' = "none"
    /\ bounds' = display
    /\ recoveries' = recoveries + 1
    /\ UNCHANGED <<display, changes, taken, attempts, dup, outstanding, frame>>

AcquireStep ==
    \/ WaitTimeout \/ DuplicationLost \/ AcquireError \/ FrameIsUseless
    \/ \E image, pointer, texture \in BOOLEAN : FrameArrives(image, pointer, texture)
    \/ Reduplicate \/ StillLost \/ RecoveryFails \/ Refresh

-----------------------------------------------------------------------------
CaptureTypeOK ==
    /\ display \in DisplaySizes
    /\ changes \in 0..MaxChanges
    /\ taken \in BOOLEAN
    /\ attempts \in 0..(OpenAttempts - 1)
    /\ dup \in [valid : BOOLEAN, size : DisplaySizes, held : BOOLEAN]
    /\ bounds \in DisplaySizes
    /\ recoveries \in Nat
    /\ outstanding \in BOOLEAN
    /\ acquiring \in Phases
    /\ frame \in Frames

(* AcquireNextFrame is never called while a frame of the same duplication is
   still out: whatever happened to the frame before, a timeout, a lost
   duplication or a frame nobody could use, it was given back or its
   duplication is gone.  DXGI answers INVALID_CALL otherwise. *)
OneFrameOut == acquiring = "waiting" => ~dup.held
=============================================================================
