---------------------------- MODULE InputSession ----------------------------
(***************************************************************************)
(* Replay of the peer's input on the host's desktop (host/input/src/lib.rs)*)
(* for one session, with what the desktop makes of it.                     *)
(*                                                                         *)
(* Three threads share an InputSession behind a mutex: the control stream  *)
(* task replays buttons, wheel, keys and focus and cleans up at the end,   *)
(* the datagram task replays pointer motion, and the video worker updates  *)
(* the display bounds.  A handler holds the mutex from start to end, so it *)
(* is one step.  Every call of the backend may fail; a handler that fails  *)
(* before its first effect changes nothing and is no step at all.  The     *)
(* datagram task and the video worker outlive the control stream: they are *)
(* stopped after its last release_all, so motion may still arrive then.    *)
(*                                                                         *)
(* x and y are treated alike; one coordinate stands for both.              *)
(***************************************************************************)
EXTENDS Integers

CONSTANTS
    Buttons,         \* PointerButton, as numbers in its order
    Keys,            \* HID usages peers send (u16)
    SupportedKeys,   \* those map_hid_usage_to_virtual_key knows
    Coordinates,     \* what peers send as a position (i32)
    Displays,        \* DesktopBounds the capture may report
    BackendMayFail,  \* SetCursorPos and SendInput may fail
    MaxSequence      \* bound on the sequence numbers of pointer events

ASSUME SetsAssumption == Buttons \subseteq Nat /\ Keys \subseteq Nat /\ Coordinates \subseteq Int
ASSUME DisplaysAssumption == Displays \subseteq [left : Int, width : Nat]
ASSUME BackendAssumption == BackendMayFail \in BOOLEAN
ASSUME SequenceAssumption == MaxSequence \in Nat

VARIABLES
    status,                \* "open"; "closed" after the final release_all;
                           \* "dropped" when the task returned before it
    display_bounds,
    input_focus_active,
    pressed_buttons,
    pressed_keys,
    last_pointer_sequence,
    os_buttons,            \* what the desktop holds down for this session
    os_keys,
    cursor,                \* where the pointer was put, and by which event
    newest,                \* highest sequence number replayed (history variable)
    refused                \* a backend call for a button or a key has failed
                           \* (history variable)

tracking == <<pressed_buttons, pressed_keys>>
desktop == <<os_buttons, os_keys, cursor, newest, refused>>
vars == <<status, display_bounds, input_focus_active, tracking,
          last_pointer_sequence, desktop>>

Cursor == [at : Int, by : {"motion", "action"}, sequence : Nat]

Max2(a, b) == IF a >= b THEN a ELSE b

(* The outcome of a backend call, if there is one: TRUE for Ok. *)
Outcomes(called) == IF called /\ BackendMayFail THEN BOOLEAN ELSE {TRUE}
KeyOutcomes(called, k) == IF called /\ k \notin SupportedKeys THEN {FALSE} ELSE Outcomes(called)

-----------------------------------------------------------------------------
(* desktop_point: clamped to the display, with saturating arithmetic. *)
LooseDesktopPoint(x) ==
    display_bounds.left +
        (IF x < 0 THEN 0 ELSE IF x > display_bounds.width THEN display_bounds.width ELSE x)

DesktopPoint(x) ==
    LET last == Max2(display_bounds.width - 1, 0)
    IN  display_bounds.left + (IF x < 0 THEN 0 ELSE IF x > last THEN last ELSE x)

(* with_backend *)
Init ==
    /\ status = "open"
    /\ display_bounds \in Displays
    /\ input_focus_active = TRUE
    /\ pressed_buttons = {}
    /\ pressed_keys = {}
    /\ last_pointer_sequence = 0
    /\ os_buttons = {}
    /\ os_keys = {}
    /\ cursor = [at |-> 0, by |-> "action", sequence |-> 0]
    /\ newest = 0
    /\ refused = FALSE

(* A message of the control stream is replayed. *)
Active == status = "open" /\ input_focus_active

MovePointer(x, by, seq) ==
    /\ cursor' = [at |-> DesktopPoint(x), by |-> by, sequence |-> seq]
    /\ newest' = Max2(newest, seq)

(* A motion datagram, which may be late, lost or duplicated. *)
HandlePointerMotion(x, seq) ==
    /\ input_focus_active
    /\ seq > last_pointer_sequence
    /\ MovePointer(x, "motion", seq)
    /\ last_pointer_sequence' = seq
    /\ UNCHANGED <<status, display_bounds, input_focus_active, tracking,
                   os_buttons, os_keys, refused>>

(* The common start of button and wheel events: they come on the reliable
   stream and move the pointer whatever their sequence number. *)
ForgetfulReposition(x, seq) ==
    /\ Active
    /\ MovePointer(x, "action", seq)
    /\ last_pointer_sequence' = seq
    /\ UNCHANGED <<status, display_bounds, input_focus_active>>

Reposition(x, seq) ==
    /\ Active
    /\ MovePointer(x, "action", seq)
    /\ last_pointer_sequence' = Max2(last_pointer_sequence, seq)
    /\ UNCHANGED <<status, display_bounds, input_focus_active>>

(* A press or lift the session does not track yet, or no longer, is passed on
   to the desktop; the tracking changes first, whatever the desktop answers. *)
HeldAfterPress(S, held, e, ok) == IF ok /\ e \notin S THEN held \cup {e} ELSE held
HeldAfterLift(S, held, e, ok) == IF ok /\ e \in S THEN held \ {e} ELSE held

PointerButtonDown(b, x, seq) ==
    /\ Reposition(x, seq)
    /\ pressed_buttons' = pressed_buttons \cup {b}
    /\ \E ok \in Outcomes(b \notin pressed_buttons) :
          /\ os_buttons' = HeldAfterPress(pressed_buttons, os_buttons, b, ok)
          /\ refused' = (refused \/ ~ok)
    /\ UNCHANGED <<pressed_keys, os_keys>>

PointerButtonUp(b, x, seq) ==
    /\ Reposition(x, seq)
    /\ pressed_buttons' = pressed_buttons \ {b}
    /\ \E ok \in Outcomes(b \in pressed_buttons) :
          /\ os_buttons' = HeldAfterLift(pressed_buttons, os_buttons, b, ok)
          /\ refused' = (refused \/ ~ok)
    /\ UNCHANGED <<pressed_keys, os_keys>>

KeyUntouched == UNCHANGED <<status, display_bounds, input_focus_active, pressed_buttons,
                            last_pointer_sequence, os_buttons, cursor, newest>>

KeyDown(k) ==
    /\ Active
    /\ pressed_keys' = pressed_keys \cup {k}
    /\ \E ok \in KeyOutcomes(k \notin pressed_keys, k) :
          /\ os_keys' = HeldAfterPress(pressed_keys, os_keys, k, ok)
          /\ refused' = (refused \/ ~ok)
    /\ KeyUntouched

KeyUp(k) ==
    /\ Active
    /\ pressed_keys' = pressed_keys \ {k}
    /\ \E ok \in KeyOutcomes(k \in pressed_keys, k) :
          /\ os_keys' = HeldAfterLift(pressed_keys, os_keys, k, ok)
          /\ refused' = (refused \/ ~ok)
    /\ KeyUntouched

HandleWheel(x, seq) ==
    /\ Reposition(x, seq)
    /\ UNCHANGED <<tracking, os_buttons, os_keys, refused>>

-----------------------------------------------------------------------------
(* release_all lifts the buttons and then the keys in ascending order, and
   stops at the first failure with the rest still tracked. *)
Prefix(P, S) == P \subseteq S /\ \A p \in P, q \in S \ P : p < q

AllReleased(bs, ks) == bs = pressed_buttons /\ ks = pressed_keys

StoppedByFailure(bs, ks) ==
    \/ BackendMayFail
    \/ bs = pressed_buttons /\ \E k \in pressed_keys \ ks :
          k \notin SupportedKeys /\ \A q \in pressed_keys \ ks : k <= q

ReleasedButtonsOnly(bs, ks) ==
    /\ bs = pressed_buttons
    /\ ks = pressed_keys
    /\ pressed_buttons' = {}
    /\ os_buttons' = os_buttons \ bs
    /\ UNCHANGED <<pressed_keys, os_keys, cursor, newest, refused>>

Released(bs, ks) ==
    /\ Prefix(bs, pressed_buttons)
    /\ Prefix(ks, pressed_keys)
    /\ ks \subseteq SupportedKeys
    /\ ks # {} => bs = pressed_buttons
    /\ AllReleased(bs, ks) \/ StoppedByFailure(bs, ks)
    /\ pressed_buttons' = pressed_buttons \ bs
    /\ pressed_keys' = pressed_keys \ ks
    /\ os_buttons' = os_buttons \ bs
    /\ os_keys' = os_keys \ ks
    /\ refused' = (refused \/ ~AllReleased(bs, ks))
    /\ UNCHANGED <<cursor, newest>>

FocusLostUnreleased ==
    /\ Active
    /\ input_focus_active' = FALSE
    /\ UNCHANGED <<status, display_bounds, tracking, last_pointer_sequence, desktop>>

FocusLost ==
    /\ Active
    /\ \E bs \in SUBSET pressed_buttons, ks \in SUBSET pressed_keys :
          /\ Released(bs, ks)
          /\ input_focus_active' = ~AllReleased(bs, ks)
    /\ UNCHANGED <<status, display_bounds, last_pointer_sequence>>

FocusGained ==
    /\ status = "open"
    /\ ~input_focus_active
    /\ input_focus_active' = TRUE
    /\ UNCHANGED <<status, display_bounds, tracking, last_pointer_sequence, desktop>>

(* The control stream ended: the task calls release_all and logs a failure. *)
Close ==
    /\ status = "open"
    /\ \E bs \in SUBSET pressed_buttons, ks \in SUBSET pressed_keys : Released(bs, ks)
    /\ status' = "closed"
    /\ UNCHANGED <<display_bounds, input_focus_active, last_pointer_sequence>>

(* The peer broke the control protocol: the task returns through a `?` and
   nobody calls release_all. *)
Drop ==
    /\ status = "open"
    /\ status' = "dropped"
    /\ UNCHANGED <<display_bounds, input_focus_active, tracking,
                   last_pointer_sequence, desktop>>

(* update_display_bounds, from the video worker. *)
UpdateDisplayBounds(d) ==
    /\ display_bounds' = d
    /\ UNCHANGED <<status, input_focus_active, tracking, last_pointer_sequence, desktop>>

PointerEvent(x, seq) ==
    \/ HandlePointerMotion(x, seq)
    \/ \E b \in Buttons : PointerButtonDown(b, x, seq) \/ PointerButtonUp(b, x, seq)
    \/ HandleWheel(x, seq)

Next ==
    \/ \E x \in Coordinates, seq \in 1..MaxSequence : PointerEvent(x, seq)
    \/ \E k \in Keys : KeyDown(k) \/ KeyUp(k)
    \/ FocusLost \/ FocusGained \/ Close \/ Drop
    \/ \E d \in Displays : UpdateDisplayBounds(d)

Spec == Init /\ [][Next]_vars

-----------------------------------------------------------------------------
(* Types of the session and of the desktop. *)
TypeOK ==
    /\ status \in {"open", "closed", "dropped"}
    /\ display_bounds \in Displays
    /\ input_focus_active \in BOOLEAN
    /\ pressed_buttons \subseteq Buttons
    /\ pressed_keys \subseteq Keys
    /\ last_pointer_sequence \in Nat
    /\ os_buttons \subseteq Buttons
    /\ os_keys \subseteq Keys
    /\ cursor \in Cursor
    /\ newest \in Nat
    /\ refused \in BOOLEAN

(* A session without focus tracks nothing: set_input_focus gives the focus up
   only when release_all went through, and no handler presses without it, so
   nothing is pressed again by an event that was on its way. *)
NothingPressedWithoutFocus ==
    ~input_focus_active => pressed_buttons = {} /\ pressed_keys = {}

(* Motion never takes the pointer back: a datagram that arrives late, after a
   later motion or after a later button or wheel event of the control stream,
   is ignored, so where a motion put the pointer is the newest position. *)
MotionIsNewest == cursor.by = "motion" => cursor.sequence = newest

(* The pointer is put on the display, whatever coordinates the peer sends and
   however the display changed, a display of no width included. *)
PointerLandsOnDisplay ==
    [][cursor'.at # cursor.at =>
          /\ cursor'.at >= display_bounds.left
          /\ cursor'.at <= display_bounds.left + Max2(display_bounds.width - 1, 0)]_vars

(* What the desktop holds, the session knows of: as long as no call of the
   backend failed, a button or key is down only while release_all would lift it. *)
HeldIsTracked ==
    status = "open" /\ ~refused => os_buttons \subseteq pressed_buttons /\ os_keys \subseteq pressed_keys

(* Once the focus is gone, or release_all has run at the end of the control
   stream. *)
LetGo == status = "closed" \/ (status = "open" /\ ~input_focus_active)

(* As long as no call of the backend failed, focus loss and the cleanup at the
   end leave nothing down, whatever was pressed in which order before. *)
NothingStuckUnlessRefused == LetGo /\ ~refused => os_buttons = {} /\ os_keys = {}

(* "releases held input on focus loss, disconnect, or failed resume so stuck
   drags and modifiers do not persist" (docs/streaming-v1.md): after focus loss
   or the cleanup at the end the desktop holds nothing. *)
NothingStuck == LetGo => os_buttons = {} /\ os_keys = {}
=============================================================================
