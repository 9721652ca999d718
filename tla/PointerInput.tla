---------------------------- MODULE PointerInput ----------------------------
(***************************************************************************)
(* The mouse of a Guacamole display: GuacMouse, which the GuacClient          *)
(* component puts in the place of the library's Guacamole.Mouse, and          *)
(* handleMouseState, which sends its state to the session. One connection,    *)
(* whose display stays in the page.                                          *)
(*                                                                         *)
(* The browser is the environment: it reports what happens over the element, *)
(* and, after a touch, mouse events that only imitate one.                   *)
(***************************************************************************)
EXTENDS Integers

CONSTANTS
  TouchMouseThreshold,   \* mousemove events to ignore after a touch: 3
  ScrollThreshold,       \* pixels for one click of the wheel: 53
  PixelsPerLine,         \* 18
  Turns,                 \* the wheel events: [delta, unit], delta # 0
  MaxTravel              \* bound: pixels the wheel is turned, both ways

ASSUME PointerAssumption ==
  /\ TouchMouseThreshold \in Nat \ {0}
  /\ ScrollThreshold \in Nat \ {0}
  /\ PixelsPerLine \in Nat \ {0}
  /\ Turns \subseteq [delta : Int \ {0}, unit : {"pixel", "line", "page"}]
  /\ MaxTravel \in Nat

VARIABLES
  inside,       \* the pointer is over the element
  pressed,      \* currentState: the buttons the element believes to be down
  sent,         \* the buttons that are down for the session
  ignoring,     \* ignore_mouse
  scrollDelta,  \* scroll_delta
  travelled,    \* the pixels the wheel has been turned
  clicked       \* the clicks of the wheel sent to the session

pointerVars ==
  <<inside, pressed, sent, ignoring, scrollDelta, travelled, clicked>>

Buttons == {"left", "middle", "right"}

PointerTypeOK ==
  /\ inside \in BOOLEAN
  /\ pressed \subseteq Buttons
  /\ sent \subseteq Buttons
  /\ ignoring \in 0..TouchMouseThreshold
  /\ scrollDelta \in Int
  /\ travelled \in [up : Nat, down : Nat]
  /\ clicked \in [up : Nat, down : Nat]

PointerInit ==
  /\ inside = FALSE
  /\ pressed = {}
  /\ sent = {}
  /\ ignoring = 0
  /\ scrollDelta = 0
  /\ travelled = [up |-> 0, down |-> 0]
  /\ clicked = [up |-> 0, down |-> 0]

\* The handler of all three mouse events sends the whole state.
HandleMouseState(buttons) ==
  /\ pressed' = buttons
  /\ sent' = buttons

\* A bug: the counter is not tested.
MouseMove_CountsDown ==
  /\ inside' = TRUE
  /\ HandleMouseState(pressed)
  /\ ignoring' = ignoring - 1
  /\ UNCHANGED <<scrollDelta, travelled, clicked>>

MouseMove ==
  /\ inside' = TRUE
  /\ IF ignoring > 0
     THEN ignoring' = ignoring - 1 /\ UNCHANGED <<pressed, sent>>
     ELSE HandleMouseState(pressed) /\ UNCHANGED ignoring
  /\ UNCHANGED <<scrollDelta, travelled, clicked>>

MouseDown(b) ==
  /\ inside
  /\ IF ignoring > 0 THEN UNCHANGED <<pressed, sent>>
     ELSE HandleMouseState(pressed \cup {b})
  /\ UNCHANGED <<inside, ignoring, scrollDelta, travelled, clicked>>

\* A button may have been pressed elsewhere, and be released here.
MouseUp(b) ==
  /\ inside
  /\ IF ignoring > 0 THEN UNCHANGED <<pressed, sent>>
     ELSE HandleMouseState(pressed \ {b})
  /\ UNCHANGED <<inside, ignoring, scrollDelta, travelled, clicked>>

\* A bug: this event, too, is ignored after a touch.
MouseOut_Ignored ==
  /\ inside
  /\ inside' = FALSE
  /\ IF pressed # {} /\ ignoring = 0
     THEN HandleMouseState({}) ELSE UNCHANGED <<pressed, sent>>
  /\ UNCHANGED <<ignoring, scrollDelta, travelled, clicked>>

\* The pointer leaves the element: what is released outside is not reported.
MouseOut ==
  /\ inside
  /\ inside' = FALSE
  /\ IF pressed # {} THEN HandleMouseState({}) ELSE UNCHANGED <<pressed, sent>>
  /\ UNCHANGED <<ignoring, scrollDelta, travelled, clicked>>

\* touchstart, touchmove and touchend.
Touch ==
  /\ ignoring' = TouchMouseThreshold
  /\ UNCHANGED <<inside, pressed, sent, scrollDelta, travelled, clicked>>

(***************************************************************************)
(* The wheel. A loop clicks for each threshold in what has accumulated, and  *)
(* what is left over is dropped.                                             *)
(***************************************************************************)
Pixels(t) ==
  CASE t.unit = "line" -> t.delta * PixelsPerLine
    [] t.unit = "page" -> t.delta * PixelsPerLine * 16
    [] OTHER -> t.delta

\* A bug: the loop tests before it subtracts.
Clicks_OneMore(distance) ==
  IF distance >= ScrollThreshold THEN distance \div ScrollThreshold + 1 ELSE 0

Clicks(distance) == IF distance > 0 THEN distance \div ScrollThreshold ELSE 0

Wheel(t) ==
  LET d == scrollDelta + Pixels(t)
      far == d >= ScrollThreshold \/ d <= -ScrollThreshold
  IN
  /\ travelled' = IF Pixels(t) < 0
                  THEN [travelled EXCEPT !.up = @ - Pixels(t)]
                  ELSE [travelled EXCEPT !.down = @ + Pixels(t)]
  /\ travelled'.up + travelled'.down <= MaxTravel
  /\ clicked' = [up |-> clicked.up + Clicks(-d), down |-> clicked.down + Clicks(d)]
  /\ scrollDelta' = IF far THEN 0 ELSE d
  /\ sent' = IF far THEN pressed ELSE sent
  /\ UNCHANGED <<inside, pressed, ignoring>>

PointerNext ==
  \/ MouseMove
  \/ \E b \in Buttons : MouseDown(b) \/ MouseUp(b)
  \/ MouseOut
  \/ Touch
  \/ \E t \in Turns : Wheel(t)

(***************************************************************************)
(* Properties.                                                              *)
(***************************************************************************)
\* Nothing is held down in the session once the pointer has left the display,
\* also when a touch came between, after which mouse events are ignored: a
\* button whose release goes unseen is let go of at the latest there.
OutsideNothingHeld == ~inside => pressed = {} /\ sent = {}

\* The session never scrolls farther, in either direction, than the wheel was
\* turned that way, however the turns add up and change direction
\* (GuacMouse.js:243-319).
ScrollBounded ==
  /\ clicked.up * ScrollThreshold <= travelled.up
  /\ clicked.down * ScrollThreshold <= travelled.down

=============================================================================
