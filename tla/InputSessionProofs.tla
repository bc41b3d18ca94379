------------------------- MODULE InputSessionProofs -------------------------
(***************************************************************************)
(* Theorems about InputSession, for any buttons, keys, displays, positions *)
(* and sequence numbers.                                                   *)
(***************************************************************************)
EXTENDS InputSession, TLAPS

(* The pointer is put at an integer coordinate of the display. *)
LEMMA DesktopPointBounds ==
    ASSUME display_bounds \in Displays, NEW x \in Coordinates
    PROVE  /\ DesktopPoint(x) \in Int
           /\ DesktopPoint(x) >= display_bounds.left
           /\ DesktopPoint(x) <= display_bounds.left + Max2(display_bounds.width - 1, 0)
  BY SetsAssumption, DisplaysAssumption DEF DesktopPoint, Max2

(* The session starts well typed. *)
LEMMA TypeInit == Init => TypeOK
  <1> SUFFICES ASSUME Init PROVE TypeOK
    OBVIOUS
  <1>1. cursor \in Cursor /\ newest \in Nat /\ last_pointer_sequence \in Nat
    BY DEF Init, Cursor
  <1>2. input_focus_active \in BOOLEAN /\ refused \in BOOLEAN
    BY DEF Init
  <1> QED
    BY <1>1, <1>2, Zenon DEF Init, TypeOK

(* Every handler keeps the types. *)
LEMMA TypeNext == TypeOK /\ [Next]_vars => TypeOK'
  <1> SUFFICES ASSUME TypeOK, [Next]_vars PROVE TypeOK'
    OBVIOUS
  <1> USE DEF TypeOK
  <1>1. CASE UNCHANGED vars
    BY <1>1 DEF vars, tracking, desktop
  <1>2. ASSUME NEW x \in Coordinates, NEW seq \in 1..MaxSequence, PointerEvent(x, seq)
        PROVE  TypeOK'
    <2>0. seq \in Nat /\ DesktopPoint(x) \in Int
      BY SequenceAssumption, DesktopPointBounds
    <2>1. CASE HandlePointerMotion(x, seq)
      BY <2>0, <2>1 DEF HandlePointerMotion, MovePointer, Max2, Cursor, tracking
    <2>2. ASSUME Reposition(x, seq)
          PROVE  /\ status' = status /\ display_bounds' = display_bounds
                 /\ input_focus_active' = input_focus_active
                 /\ last_pointer_sequence' \in Nat /\ cursor' \in Cursor /\ newest' \in Nat
      BY <2>0, <2>2 DEF Reposition, MovePointer, Max2, Cursor
    <2>3. ASSUME NEW b \in Buttons, PointerButtonDown(b, x, seq) PROVE TypeOK'
      BY <2>2, <2>3 DEF PointerButtonDown, HeldAfterPress
    <2>4. ASSUME NEW b \in Buttons, PointerButtonUp(b, x, seq) PROVE TypeOK'
      BY <2>2, <2>4 DEF PointerButtonUp, HeldAfterLift
    <2>5. CASE HandleWheel(x, seq)
      BY <2>2, <2>5 DEF HandleWheel, tracking
    <2> QED
      BY <1>2, <2>1, <2>3, <2>4, <2>5 DEF PointerEvent
  <1>3. ASSUME NEW k \in Keys, KeyDown(k) PROVE TypeOK'
    BY <1>3 DEF KeyDown, KeyUntouched, HeldAfterPress
  <1>4. ASSUME NEW k \in Keys, KeyUp(k) PROVE TypeOK'
    BY <1>4 DEF KeyUp, KeyUntouched, HeldAfterLift
  <1>5. CASE FocusLost
    BY <1>5 DEF FocusLost, Released, AllReleased
  <1>6. CASE FocusGained
    BY <1>6 DEF FocusGained, tracking, desktop
  <1>7. CASE Close
    BY <1>7 DEF Close, Released
  <1>8. CASE Drop
    BY <1>8 DEF Drop, tracking, desktop
  <1>9. ASSUME NEW d \in Displays, UpdateDisplayBounds(d) PROVE TypeOK'
    BY <1>9 DEF UpdateDisplayBounds, tracking, desktop
  <1> QED
    BY <1>1, <1>2, <1>3, <1>4, <1>5, <1>6, <1>7, <1>8, <1>9 DEF Next

(* Every reachable state of an input session is well typed. *)
THEOREM InputTypeCorrect == Spec => []TypeOK
  BY TypeInit, TypeNext, PTL DEF Spec

-----------------------------------------------------------------------------
(* Focus and motion, whatever the backend does. *)

(* The sequence number the session compares with is the newest it replayed. *)
SequenceInvariant == MotionIsNewest /\ last_pointer_sequence = newest

(* Focus is given up only with nothing pressed, and nothing is pressed then. *)
LEMMA FocusNext ==
    ASSUME TypeOK, NothingPressedWithoutFocus, [Next]_vars
    PROVE  NothingPressedWithoutFocus'
  <1> USE DEF NothingPressedWithoutFocus
  <1>1. CASE UNCHANGED vars
    BY <1>1 DEF vars, tracking
  <1>2. ASSUME NEW x \in Coordinates, NEW seq \in 1..MaxSequence, PointerEvent(x, seq)
        PROVE  NothingPressedWithoutFocus'
    BY <1>2 DEF PointerEvent, HandlePointerMotion, PointerButtonDown, PointerButtonUp,
                HandleWheel, Reposition, Active
  <1>3. ASSUME NEW k \in Keys, KeyDown(k) \/ KeyUp(k) PROVE NothingPressedWithoutFocus'
    BY <1>3 DEF KeyDown, KeyUp, KeyUntouched, Active
  <1>4. CASE FocusLost
    BY <1>4 DEF FocusLost, Released, AllReleased
  <1>5. CASE FocusGained
    BY <1>5 DEF FocusGained
  <1>6. CASE Close
    BY <1>6 DEF Close, Released
  <1>7. CASE Drop
    BY <1>7 DEF Drop, tracking
  <1>8. ASSUME NEW d \in Displays, UpdateDisplayBounds(d) PROVE NothingPressedWithoutFocus'
    BY <1>8 DEF UpdateDisplayBounds, tracking
  <1> QED
    BY <1>1, <1>2, <1>3, <1>4, <1>5, <1>6, <1>7, <1>8 DEF Next

(* Only pointer events touch the sequence numbers, and they keep them equal. *)
LEMMA SequenceNext ==
    ASSUME TypeOK, SequenceInvariant, [Next]_vars
    PROVE  SequenceInvariant'
  <1>1. ASSUME NEW x \in Coordinates, NEW seq \in 1..MaxSequence, PointerEvent(x, seq)
        PROVE  SequenceInvariant'
    <2>0. seq \in Nat /\ newest \in Nat /\ last_pointer_sequence \in Nat
      BY SequenceAssumption DEF TypeOK
    <2>1. CASE HandlePointerMotion(x, seq)
      BY <2>0, <2>1 DEF HandlePointerMotion, MovePointer, Max2, SequenceInvariant, MotionIsNewest
    <2>2. ASSUME Reposition(x, seq) PROVE SequenceInvariant'
      BY <2>0, <2>2 DEF Reposition, MovePointer, Max2, SequenceInvariant, MotionIsNewest
    <2> QED
      BY <1>1, <2>1, <2>2 DEF PointerEvent, PointerButtonDown, PointerButtonUp, HandleWheel
  <1>2. CASE UNCHANGED <<last_pointer_sequence, cursor, newest>>
    BY <1>2 DEF SequenceInvariant, MotionIsNewest
  <1>3. \/ UNCHANGED <<last_pointer_sequence, cursor, newest>>
        \/ \E x \in Coordinates, seq \in 1..MaxSequence : PointerEvent(x, seq)
    BY DEF Next, vars, desktop, KeyDown, KeyUp, KeyUntouched, FocusLost, FocusGained,
           Close, Drop, UpdateDisplayBounds, Released
  <1> QED
    BY <1>1, <1>2, <1>3

(* After set_input_focus(false) the session tracks nothing, even if release_all
   failed on the way and was tried again, and no later event is replayed. *)
THEOREM FocusLossIsClean == Spec => []NothingPressedWithoutFocus
  <1>1. Init => NothingPressedWithoutFocus
    BY DEF Init, NothingPressedWithoutFocus
  <1>2. TypeOK /\ NothingPressedWithoutFocus /\ [Next]_vars => NothingPressedWithoutFocus'
    BY FocusNext
  <1> QED
    BY <1>1, <1>2, InputTypeCorrect, PTL DEF Spec

(* Late, duplicated and reordered motion datagrams never move the pointer back
   behind anything replayed before, from either channel. *)
THEOREM MotionNeverGoesBack == Spec => []MotionIsNewest
  <1>1. Init => SequenceInvariant
    BY DEF Init, SequenceInvariant, MotionIsNewest
  <1>2. TypeOK /\ SequenceInvariant /\ [Next]_vars => SequenceInvariant'
    BY SequenceNext
  <1>3. SequenceInvariant => MotionIsNewest
    BY DEF SequenceInvariant
  <1> QED
    BY <1>1, <1>2, <1>3, InputTypeCorrect, PTL DEF Spec

(* handle_pointer_motion, handle_pointer_button and handle_wheel put the pointer
   on the display the session has at that moment, whatever the peer sends. *)
THEOREM PointerStaysOnDisplay == Spec => PointerLandsOnDisplay
  <1>1. TypeOK /\ [Next]_vars =>
          [cursor'.at # cursor.at =>
              /\ cursor'.at >= display_bounds.left
              /\ cursor'.at <= display_bounds.left + Max2(display_bounds.width - 1, 0)]_vars
    <2> SUFFICES ASSUME TypeOK, Next, cursor'.at # cursor.at
                 PROVE  /\ cursor'.at >= display_bounds.left
                        /\ cursor'.at <= display_bounds.left + Max2(display_bounds.width - 1, 0)
      OBVIOUS
    <2>1. PICK x \in Coordinates : cursor'.at = DesktopPoint(x)
      BY DEF Next, PointerEvent, HandlePointerMotion, PointerButtonDown, PointerButtonUp,
             HandleWheel, Reposition, MovePointer, KeyDown, KeyUp, KeyUntouched, FocusLost,
             FocusGained, Close, Drop, UpdateDisplayBounds, Released, desktop
    <2> QED
      BY <2>1, DesktopPointBounds DEF TypeOK
  <1> QED
    BY <1>1, InputTypeCorrect, PTL DEF Spec, PointerLandsOnDisplay

-----------------------------------------------------------------------------
(* Nothing stuck, as long as no call of the backend was refused. *)

(* Tracking covers what the desktop holds, and nothing is stuck. *)
HeldInvariant == HeldIsTracked /\ NothingStuckUnlessRefused

(* What the desktop holds is tracked until it is released. *)
LEMMA HeldNext ==
    ASSUME TypeOK, NothingPressedWithoutFocus, HeldInvariant, [Next]_vars
    PROVE  HeldInvariant'
  <1> USE DEF HeldInvariant, HeldIsTracked, NothingStuckUnlessRefused, LetGo, NothingPressedWithoutFocus
  <1>1. CASE UNCHANGED vars
    BY <1>1 DEF vars, tracking, desktop
  <1>2. ASSUME NEW x \in Coordinates, NEW seq \in 1..MaxSequence, PointerEvent(x, seq)
        PROVE  HeldInvariant'
    <2>1. CASE HandlePointerMotion(x, seq) \/ HandleWheel(x, seq)
      BY <2>1 DEF HandlePointerMotion, HandleWheel, Reposition, tracking
    <2>2. ASSUME NEW b \in Buttons, PointerButtonDown(b, x, seq) PROVE HeldInvariant'
      BY <2>2 DEF PointerButtonDown, Reposition, Active, HeldAfterPress
    <2>3. ASSUME NEW b \in Buttons, PointerButtonUp(b, x, seq) PROVE HeldInvariant'
      BY <2>3 DEF PointerButtonUp, Reposition, Active, HeldAfterLift
    <2> QED
      BY <1>2, <2>1, <2>2, <2>3 DEF PointerEvent
  <1>3. ASSUME NEW k \in Keys, KeyDown(k) PROVE HeldInvariant'
    BY <1>3 DEF KeyDown, KeyUntouched, Active, HeldAfterPress
  <1>4. ASSUME NEW k \in Keys, KeyUp(k) PROVE HeldInvariant'
    <2>1. /\ status = "open" /\ input_focus_active
          /\ pressed_keys' = pressed_keys \ {k}
          /\ UNCHANGED <<status, input_focus_active, pressed_buttons, os_buttons>>
      BY <1>4 DEF KeyUp, KeyUntouched, Active
    <2>2. PICK ok \in BOOLEAN : /\ os_keys' = HeldAfterLift(pressed_keys, os_keys, k, ok)
                               /\ refused' = (refused \/ ~ok)
      BY <1>4 DEF KeyUp, KeyOutcomes, Outcomes
    <2>3. ~refused' => os_keys' \subseteq pressed_keys'
      BY <2>1, <2>2 DEF HeldAfterLift
    <2> QED
      BY <2>1, <2>2, <2>3
  <1>5. ASSUME status = "open",
               \E bs \in SUBSET pressed_buttons, ks \in SUBSET pressed_keys : Released(bs, ks)
        PROVE  ~refused' => os_buttons' = {} /\ os_keys' = {}
    BY <1>5 DEF Released, AllReleased
  <1>6. CASE FocusLost
    <2>1. status = "open" /\ status' = status
      BY <1>6 DEF FocusLost, Active
    <2>2. \E bs \in SUBSET pressed_buttons, ks \in SUBSET pressed_keys : Released(bs, ks)
      BY <1>6 DEF FocusLost
    <2>3. ~refused' => os_buttons' = {} /\ os_keys' = {}
      BY <1>5, <2>1, <2>2
    <2> QED
      BY <2>3
  <1>7. CASE FocusGained
    BY <1>7 DEF FocusGained, tracking, desktop
  <1>8. CASE Close
    BY <1>5, <1>8 DEF Close
  <1>9. CASE Drop
    BY <1>9 DEF Drop
  <1>10. ASSUME NEW d \in Displays, UpdateDisplayBounds(d) PROVE HeldInvariant'
    BY <1>10 DEF UpdateDisplayBounds, tracking, desktop
  <1> QED
    BY <1>1, <1>2, <1>3, <1>4, <1>6, <1>7, <1>8, <1>9, <1>10 DEF Next

(* As long as every call for a button or a key succeeded, no button and no key
   stays down after focus loss or after the cleanup at the end of the control
   stream, whatever the peer pressed and lifted.  The unsupported key run of TLC
   shows what one refused key does to the others. *)
THEOREM NothingStaysStuck == Spec => []NothingStuckUnlessRefused
  <1>1. Init => HeldInvariant
    BY DEF Init, HeldInvariant, HeldIsTracked, NothingStuckUnlessRefused, LetGo
  <1>2. TypeOK /\ NothingPressedWithoutFocus /\ HeldInvariant /\ [Next]_vars => HeldInvariant'
    BY HeldNext
  <1>3. HeldInvariant => NothingStuckUnlessRefused
    BY DEF HeldInvariant
  <1> QED
    BY <1>1, <1>2, <1>3, InputTypeCorrect, FocusLossIsClean, PTL DEF Spec
=============================================================================
