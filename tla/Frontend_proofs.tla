-------------------------- MODULE Frontend_proofs --------------------------
(***************************************************************************)
(* Theorems about the frontend: the mouse, the control panel, the client of  *)
(* a session page and signing in. Each invariant is proved of one part; the  *)
(* steps of the other parts leave its variables alone.                      *)
(***************************************************************************)
EXTENDS Frontend, TLAPS

(***************************************************************************)
(* The mouse. The session is told of every change, so it holds what the      *)
(* element believes to be down.                                             *)
(***************************************************************************)
ButtonInv ==
  /\ sent = pressed
  /\ ~inside => pressed = {}

\* A step of the mouse keeps the buttons of the element and of the session
\* equal, and lets go of them where the pointer leaves.
LEMMA ButtonStep ==
  ASSUME ButtonInv, PointerNext
  PROVE  ButtonInv'
<1>1. CASE MouseMove
  BY <1>1 DEF ButtonInv, MouseMove, HandleMouseState
<1>2. CASE \E b \in Buttons : MouseDown(b) \/ MouseUp(b)
  BY <1>2 DEF ButtonInv, MouseDown, MouseUp, HandleMouseState
<1>3. CASE MouseOut
  BY <1>3 DEF ButtonInv, MouseOut, HandleMouseState
<1>4. CASE Touch
  BY <1>4 DEF ButtonInv, Touch
<1>5. CASE \E t \in Turns : Wheel(t)
  <2>1. PICK t \in Turns : Wheel(t)
    BY <1>5
  <2>2. /\ inside' = inside /\ pressed' = pressed
        /\ sent' = pressed \/ sent' = sent
    BY <2>1 DEF Wheel
  <2> QED  BY <2>2 DEF ButtonInv
<1> QED  BY <1>1, <1>2, <1>3, <1>4, <1>5 DEF PointerNext

\* Nothing is held down in the session once the pointer has left the display.
THEOREM MouseLetsGo == FrontSpec => []OutsideNothingHeld
<1>1. FrontInit => ButtonInv
  BY DEF FrontInit, PointerInit, ButtonInv
<1>2. ButtonInv /\ [FrontNext]_frontVars => ButtonInv'
  <2> SUFFICES ASSUME ButtonInv, [FrontNext]_frontVars PROVE ButtonInv'
    OBVIOUS
  <2>1. CASE InPointer(PointerNext)
    BY <2>1, ButtonStep DEF InPointer
  <2>2. CASE UNCHANGED pointerVars
    BY <2>2 DEF pointerVars, ButtonInv
  <2> QED
    BY <2>1, <2>2 DEF FrontNext, InPage, InAuth, InPanel, InPointer, frontVars
<1>3. ButtonInv => OutsideNothingHeld
  BY DEF ButtonInv, OutsideNothingHeld
<1> QED  BY <1>1, <1>2, <1>3, PTL DEF FrontSpec

(***************************************************************************)
(* The wheel. What has been turned one way and not been clicked covers what  *)
(* has accumulated that way, so that a change of direction or the rest that  *)
(* a loop drops never gives a click too many.                               *)
(***************************************************************************)
WheelInv ==
  /\ scrollDelta \in Int
  /\ travelled \in [up : Nat, down : Nat]
  /\ clicked \in [up : Nat, down : Nat]
  /\ travelled.up - clicked.up * ScrollThreshold >= 0
  /\ travelled.up - clicked.up * ScrollThreshold >= -scrollDelta
  /\ travelled.down - clicked.down * ScrollThreshold >= 0
  /\ travelled.down - clicked.down * ScrollThreshold >= scrollDelta

\* The clicks of a distance are the thresholds that fit into it.
LEMMA ClicksFit ==
  ASSUME NEW d \in Int
  PROVE  /\ Clicks(d) \in Nat
         /\ d >= 0 => Clicks(d) * ScrollThreshold <= d
         /\ d < ScrollThreshold => Clicks(d) = 0
<1>1. ScrollThreshold \in Nat /\ ScrollThreshold > 0
  BY PointerAssumption
<1>2. CASE d <= 0
  BY <1>1, <1>2 DEF Clicks
<1>3. CASE d > 0
  BY <1>1, <1>3 DEF Clicks
<1> QED  BY <1>2, <1>3

\* A turn is a whole number of pixels.
LEMMA PixelsAreInts ==
  ASSUME NEW t \in Turns
  PROVE  Pixels(t) \in Int
<1>1. t.delta \in Int /\ PixelsPerLine \in Int
  BY PointerAssumption
<1> QED  BY <1>1 DEF Pixels

\* A turn of the wheel by p pixels, after which d have accumulated: the clicks
\* up and down (one of the two is none) fit into what was turned that way.
LEMMA WheelStep ==
  ASSUME WheelInv, NEW t \in Turns, Wheel(t)
  PROVE  WheelInv'
<1> DEFINE p == Pixels(t)
           d == scrollDelta + p
           up == Clicks(-d)
           down == Clicks(d)
<1>1. p \in Int /\ d \in Int /\ -d \in Int
  BY PixelsAreInts DEF WheelInv
<1>2. /\ up \in Nat /\ down \in Nat
      /\ -d >= 0 => up * ScrollThreshold <= -d
      /\ -d < ScrollThreshold => up = 0
      /\ d >= 0 => down * ScrollThreshold <= d
      /\ d < ScrollThreshold => down = 0
  <2> HIDE DEF d
  <2> QED  BY <1>1, ClicksFit
<1>3. ScrollThreshold \in Nat /\ ScrollThreshold > 0
  BY PointerAssumption
<1>4. /\ clicked' = [up |-> clicked.up + up, down |-> clicked.down + down]
      /\ scrollDelta' = IF d >= ScrollThreshold \/ d <= -ScrollThreshold THEN 0 ELSE d
      /\ travelled' = IF p < 0 THEN [travelled EXCEPT !.up = @ - p]
                       ELSE [travelled EXCEPT !.down = @ + p]
  BY DEF Wheel
<1>5. /\ travelled \in [up : Nat, down : Nat]
      /\ clicked \in [up : Nat, down : Nat]
      /\ scrollDelta \in Int
  BY DEF WheelInv
<1> DEFINE tu == travelled.up  td == travelled.down
           cu == clicked.up    cd == clicked.down
           tu2 == IF p < 0 THEN tu - p ELSE tu
           td2 == IF p < 0 THEN td ELSE td + p
<1>6. /\ travelled' = [up |-> tu2, down |-> td2]
      /\ tu \in Nat /\ td \in Nat /\ cu \in Nat /\ cd \in Nat
      /\ tu2 \in Nat /\ td2 \in Nat
  <2> HIDE DEF p
  <2> QED  BY <1>1, <1>4, <1>5
<1>7. /\ (cu + up) * ScrollThreshold = cu * ScrollThreshold + up * ScrollThreshold
      /\ (cd + down) * ScrollThreshold = cd * ScrollThreshold + down * ScrollThreshold
  <2> HIDE DEF cu, cd, up, down
  <2> QED  BY <1>2, <1>3, <1>6
<1> DEFINE U == cu * ScrollThreshold   D == cd * ScrollThreshold
           V == up * ScrollThreshold   E == down * ScrollThreshold
<1>8. /\ tu - U >= 0
      /\ tu - U >= -scrollDelta
      /\ td - D >= 0
      /\ td - D >= scrollDelta
  BY DEF WheelInv
<1>9. /\ U \in Int /\ D \in Int /\ V \in Int /\ E \in Int
      /\ -d >= 0 => V <= -d
      /\ -d < ScrollThreshold => V = 0
      /\ d >= 0 => E <= d
      /\ d < ScrollThreshold => E = 0
  <2> HIDE DEF up, down, cu, cd, d
  <2> QED  BY <1>1, <1>2, <1>3, <1>6
<1>10. /\ tu2 - (U + V) >= 0
       /\ tu2 - (U + V) >= -scrollDelta'
       /\ td2 - (D + E) >= 0
       /\ td2 - (D + E) >= scrollDelta'
  <2> HIDE DEF U, V, D, E, tu, td, p
  <2>1. CASE p < 0
    BY <2>1, <1>1, <1>3, <1>4, <1>5, <1>6, <1>8, <1>9
  <2>2. CASE p >= 0
    BY <2>2, <1>1, <1>3, <1>4, <1>5, <1>6, <1>8, <1>9
  <2> QED  BY <2>1, <2>2, <1>1
<1>11. scrollDelta' \in Int
  BY <1>1, <1>4
<1>12. /\ travelled'.up = tu2 /\ travelled'.down = td2
       /\ clicked'.up = cu + up /\ clicked'.down = cd + down
       /\ clicked' \in [up : Nat, down : Nat]
       /\ travelled' \in [up : Nat, down : Nat]
  <2> HIDE DEF tu2, td2, up, down
  <2> QED  BY <1>2, <1>4, <1>6
<1> HIDE DEF tu2, td2, up, down, cu, cd
<1> QED  BY <1>7, <1>10, <1>11, <1>12 DEF WheelInv

\* The invariant of the wheel holds in every behaviour of the frontend.
LEMMA WheelInvariant == FrontSpec => []WheelInv
<1>1. FrontInit => WheelInv
  BY PointerAssumption DEF FrontInit, PointerInit, WheelInv
<1>2. WheelInv /\ [FrontNext]_frontVars => WheelInv'
  <2> SUFFICES ASSUME WheelInv, [FrontNext]_frontVars PROVE WheelInv'
    OBVIOUS
  <2>1. CASE \E t \in Turns : Wheel(t)
    BY <2>1, WheelStep
  <2>2. CASE UNCHANGED <<scrollDelta, travelled, clicked>>
    BY <2>2 DEF WheelInv
  <2>3. PointerNext => (\E t \in Turns : Wheel(t))
                         \/ UNCHANGED <<scrollDelta, travelled, clicked>>
    BY DEF PointerNext, MouseMove, MouseDown, MouseUp, MouseOut, Touch
  <2>4. UNCHANGED pointerVars => UNCHANGED <<scrollDelta, travelled, clicked>>
    BY DEF pointerVars
  <2> QED
    BY <2>1, <2>2, <2>3, <2>4
    DEF FrontNext, InPage, InAuth, InPanel, InPointer, frontVars
<1> QED  BY <1>1, <1>2, PTL DEF FrontSpec

\* The session never scrolls farther, either way, than the wheel was turned.
THEOREM ScrollIsBounded == FrontSpec => []ScrollBounded
<1>1. WheelInv => ScrollBounded
  <2>1. ScrollThreshold \in Nat
    BY PointerAssumption
  <2> SUFFICES ASSUME WheelInv PROVE ScrollBounded
    OBVIOUS
  <2>2. /\ clicked.up * ScrollThreshold \in Int
        /\ clicked.down * ScrollThreshold \in Int
        /\ travelled.up \in Int /\ travelled.down \in Int
    BY <2>1 DEF WheelInv
  <2> QED  BY <2>2 DEF WheelInv, ScrollBounded
<1> QED  BY <1>1, WheelInvariant, PTL

(***************************************************************************)
(* The control panel.                                                       *)
(***************************************************************************)
PanelInv ==
  /\ upload \in UploadType
  /\ ticks \in Nat
  /\ OneMark

\* A step of the panel leaves one mark at most: an upload starts with none, and
\* what ends it puts one where there is none, since the tick that a timer takes
\* away may be another upload's but is never put back.
LEMMA PanelStep ==
  ASSUME PanelInv, PanelNext
  PROVE  PanelInv'
<1>1. CASE ChooseFile
  BY <1>1 DEF PanelInv, OneMark, UploadType, ChooseFile
<1>2. CASE UploadAccepted
  <2>1. upload.busy /\ ~upload.failed /\ upload \in UploadType
    BY <1>2 DEF PanelInv, OneMark, UploadAccepted
  <2>2. upload' = [busy |-> FALSE, ticked |-> TRUE, failed |-> upload.failed]
    BY <1>2, <2>1 DEF UploadAccepted, UploadType
  <2>3. upload' \in UploadType
    BY <2>1, <2>2 DEF UploadType
  <2>4. ticks' \in Nat /\ ticks' > 0
    BY <1>2 DEF UploadAccepted, PanelInv
  <2>5. ~upload'.busy /\ upload'.ticked /\ ~upload'.failed
    BY <2>1, <2>2
  <2> QED  BY <2>3, <2>4, <2>5 DEF PanelInv, OneMark
<1>3. CASE UploadFails
  <2>1. upload.busy /\ ~upload.ticked /\ upload \in UploadType
    BY <1>3 DEF PanelInv, OneMark, UploadFails
  <2>2. upload' = [busy |-> FALSE, ticked |-> upload.ticked, failed |-> TRUE]
    BY <1>3, <2>1 DEF UploadFails, UploadType
  <2>3. upload' \in UploadType
    BY <2>1, <2>2 DEF UploadType
  <2>4. ticks' \in Nat
    BY <1>3 DEF UploadFails, PanelInv
  <2>5. ~upload'.busy /\ ~upload'.ticked
    BY <2>1, <2>2
  <2> QED  BY <2>3, <2>4, <2>5 DEF PanelInv, OneMark
<1>4. CASE TickGoes
  <2>1. upload \in UploadType /\ ~(upload.busy /\ upload.failed)
    BY DEF PanelInv, OneMark
  <2>2. upload' = [busy |-> upload.busy, ticked |-> FALSE, failed |-> upload.failed]
    BY <1>4, <2>1 DEF TickGoes, UploadType
  <2>3. upload' \in UploadType
    BY <2>1, <2>2 DEF UploadType
  <2>4. ticks' \in Nat
    BY <1>4 DEF TickGoes, PanelInv
  <2>5. ~upload'.ticked /\ ~(upload'.busy /\ upload'.failed)
    BY <2>1, <2>2
  <2> QED  BY <2>3, <2>4, <2>5 DEF PanelInv, OneMark
<1>5. CASE UNCHANGED <<upload, ticks>>
  BY <1>5 DEF PanelInv, OneMark
<1> QED
  BY <1>1, <1>2, <1>3, <1>4, <1>5
  DEF PanelNext, ToggleExpanded, ShowLogs, CloseLogs, ToggleLog, ShareSession,
      ShareAnswered, CopyFades

\* The panel shows one thing of an upload, however its timers fire.
THEOREM OneMarkShown == FrontSpec => []OneMark
<1>1. FrontInit => PanelInv
  BY DEF FrontInit, PanelInit, PanelInv, OneMark, UploadType
<1>2. PanelInv /\ [FrontNext]_frontVars => PanelInv'
  <2> SUFFICES ASSUME PanelInv, [FrontNext]_frontVars PROVE PanelInv'
    OBVIOUS
  <2>1. CASE InPanel(PanelNext)
    BY <2>1, PanelStep DEF InPanel
  <2>2. CASE UNCHANGED panelVars
    BY <2>2 DEF panelVars, PanelInv, OneMark
  <2> QED
    BY <2>1, <2>2 DEF FrontNext, InPage, InAuth, InPanel, InPointer, frontVars
<1>3. PanelInv => OneMark
  BY DEF PanelInv
<1> QED  BY <1>1, <1>2, <1>3, PTL DEF FrontSpec

(***************************************************************************)
(* The client of a session page. An invariant of one client, and one of the  *)
(* client with the sockets of the tab.                                      *)
(***************************************************************************)
Live(c) == IF c.tunnel \in LiveTunnels THEN 1 ELSE 0

ClientOK(c) ==
  /\ c \in ClientType
  /\ c.tunnel # "none" => c.mounted
  /\ c.shaky <=> c.tunnel = "unstable"
  /\ c.state = "DISCONNECTED" <=> c.tunnel = "closed"
  /\ c.lost <=> c.tunnel = "closed"

ClientInv == ClientOK(client) /\ sockets = Live(client)

\* The client of a new tunnel.
Opening(c) ==
  /\ c \in ClientType
  /\ c.mounted
  /\ c.tunnel = "connecting"
  /\ c.state = "WAITING"
  /\ ~c.shaky
  /\ ~c.lost

\* The client of a fresh mount has a tunnel that opens.
LEMMA NewClientOpening == Opening(NewClient)
<1>1. NoClient \in ClientType /\ ~NoClient.shaky /\ ~NoClient.lost
  BY DEF NoClient, ClientType, LiveTunnels
<1>2. NewClient \in ClientType
  BY <1>1 DEF NewClient, ClientType, LiveTunnels
<1>3. NewClient.mounted = TRUE
  BY <1>1 DEF NewClient, ClientType
<1>4. NewClient.tunnel = "connecting"
  BY <1>1 DEF NewClient, ClientType
<1>5. NewClient.state = "WAITING"
  BY <1>1 DEF NewClient, ClientType
<1>6. NewClient.shaky = NoClient.shaky
  BY <1>1 DEF NewClient, ClientType
<1>7. NewClient.lost = NoClient.lost
  BY <1>1 DEF NewClient, ClientType
<1> QED  BY <1>1, <1>2, <1>3, <1>4, <1>5, <1>6, <1>7 DEF Opening

\* It shows what it should, and has one socket.
LEMMA OpeningIsOK ==
  ASSUME NEW c, Opening(c)
  PROVE  ClientOK(c) /\ Live(c) = 1
BY DEF Opening, ClientOK, Live, LiveTunnels

\* A page without a client has no socket.
LEMMA NoClientOK == ClientOK(NoClient) /\ Live(NoClient) = 0
<1>1. NoClient \in ClientType
  BY DEF NoClient, ClientType, LiveTunnels
<1>2. /\ ~NoClient.mounted /\ ~NoClient.shaky /\ ~NoClient.lost
      /\ NoClient.state = "IDLE" /\ NoClient.tunnel = "none"
  BY DEF NoClient
<1> QED  BY <1>1, <1>2 DEF ClientOK, Live, LiveTunnels

\* A change of the fields that the indicators do not depend on.
LEMMA SameIndicators ==
  ASSUME NEW c, ClientOK(c), NEW d \in ClientType,
         d.mounted = c.mounted, d.tunnel = c.tunnel, d.state = c.state,
         d.shaky = c.shaky, d.lost = c.lost
  PROVE  ClientOK(d) /\ Live(d) = Live(c)
BY DEF ClientOK, Live

\* A tunnel that closes leaves the indicators right, and no socket.
LEMMA ClosedOK ==
  ASSUME NEW c, ClientOK(c), c.tunnel \in LiveTunnels
  PROVE  ClientOK(Closed(c)) /\ Live(Closed(c)) = 0
<1>1. c \in ClientType /\ c.mounted
  BY DEF ClientOK, LiveTunnels
<1>2. Closed(c) \in ClientType
  BY <1>1 DEF Closed, ClientType
<1>3. Closed(c).tunnel = "closed"
  BY <1>1 DEF Closed, ClientType
<1>4. Closed(c).state = "DISCONNECTED"
  BY <1>1 DEF Closed, ClientType
<1>5. Closed(c).shaky = FALSE
  BY <1>1 DEF Closed, ClientType
<1>6. Closed(c).lost = TRUE
  BY <1>1 DEF Closed, ClientType
<1>7. Closed(c).mounted = c.mounted
  BY <1>1 DEF Closed, ClientType
<1> QED
  BY <1>1, <1>2, <1>3, <1>4, <1>5, <1>6, <1>7 DEF ClientOK, Live, LiveTunnels

\* The three ways to a new tunnel: a mount, a reconnection, and a new query.
LEMMA OpeningOK ==
  ASSUME ClientInv,
         \/ client' = NewClient
         \/ client' = [NewClient EXCEPT !.panel = client.panel]
         \/ \E hd \in BOOLEAN :
              client' = [NewClient EXCEPT !.panel = client.panel, !.held = hd]
  PROVE  ClientOK(client') /\ Live(client') = 1
<1>1. client.panel \in {"rest", "armed", "resetting"}
  BY DEF ClientInv, ClientOK, ClientType
<1>2. Opening(NewClient) /\ NewClient \in ClientType
  BY NewClientOpening DEF Opening
<1>3. CASE client' = NewClient
  BY <1>2, <1>3, OpeningIsOK
<1>4. CASE client' = [NewClient EXCEPT !.panel = client.panel]
  <2>1. client' \in ClientType
    BY <1>1, <1>2, <1>4 DEF ClientType
  <2>2. /\ client'.mounted = NewClient.mounted /\ client'.tunnel = NewClient.tunnel
        /\ client'.state = NewClient.state /\ client'.shaky = NewClient.shaky
        /\ client'.lost = NewClient.lost
    BY <1>2, <1>4 DEF ClientType
  <2>3. Opening(client')
    BY <1>2, <2>1, <2>2 DEF Opening
  <2> QED  BY <2>3, OpeningIsOK
<1>5. ASSUME NEW hd \in BOOLEAN,
             client' = [NewClient EXCEPT !.panel = client.panel, !.held = hd]
      PROVE  ClientOK(client') /\ Live(client') = 1
  <2>1. client' \in ClientType
    BY <1>1, <1>2, <1>5 DEF ClientType
  <2>2. /\ client'.mounted = NewClient.mounted /\ client'.tunnel = NewClient.tunnel
        /\ client'.state = NewClient.state /\ client'.shaky = NewClient.shaky
        /\ client'.lost = NewClient.lost
    BY <1>2, <1>5 DEF ClientType
  <2>3. Opening(client')
    BY <1>2, <2>1, <2>2 DEF Opening
  <2> QED  BY <2>3, OpeningIsOK
<1> QED  BY <1>3, <1>4, <1>5

\* What Closing counts is the socket of the client.
LEMMA ClosingIsLive == Closing = Live(client) /\ Live(client) \in {0, 1}
BY DEF Closing, Live

\* A render of a page mounts, restarts, renders again or unmounts its client.
LEMMA RenderStep ==
  ASSUME ClientInv, NEW p, Render(p)
  PROVE  ClientInv'
<1> USE ClosingIsLive
<1>1. CASE UnmountClient
  BY <1>1, NoClientOK DEF ClientInv, UnmountClient
<1>2. CASE ~client.mounted /\ MountClient
  <2>1. Live(client) = 0
    BY <1>2 DEF ClientInv, ClientOK, Live, LiveTunnels
  <2> QED  BY <1>2, <2>1, OpeningOK DEF ClientInv, MountClient
<1>3. CASE Restart
  <2>1. (client.state # "WAITING" \/ client.shaky) \in BOOLEAN
    OBVIOUS
  <2>2. ClientOK(client') /\ Live(client') = 1
    BY <1>3, <2>1, OpeningOK DEF Restart
  <2> QED  BY <1>3, <2>2 DEF ClientInv, Restart
<1>4. CASE Rerender
  <2>1. client' = [client EXCEPT !.held = TRUE] /\ client \in ClientType
    BY <1>4 DEF Rerender, ClientInv, ClientOK
  <2>2. client' \in ClientType
    BY <2>1 DEF ClientType
  <2>3. /\ client'.mounted = client.mounted /\ client'.tunnel = client.tunnel
        /\ client'.state = client.state /\ client'.shaky = client.shaky
        /\ client'.lost = client.lost
    BY <2>1 DEF ClientType
  <2> QED  BY <1>4, <2>2, <2>3, SameIndicators DEF ClientInv, Rerender
<1> QED  BY <1>1, <1>2, <1>3, <1>4 DEF Render

\* The page is replaced by another one, with a client or without.
LEMMA ReplaceStep ==
  ASSUME ClientInv, NEW p, Replace(p)
  PROVE  ClientInv'
<1> USE ClosingIsLive
<1>1. CASE ShowsClient(p)
  BY <1>1, OpeningOK DEF ClientInv, Replace
<1>2. CASE ~ShowsClient(p)
  BY <1>2, NoClientOK DEF ClientInv, Replace
<1> QED  BY <1>1, <1>2

\* The events of the tunnel, and the Reconnect button of the dialog.
LEMMA TunnelStep ==
  ASSUME ClientInv,
         TunnelOpens \/ TunnelUnstable \/ TunnelFails \/ Reconnect
  PROVE  ClientInv'
<1> USE ClosingIsLive
<1>0. client \in ClientType /\ sockets = Live(client)
  BY DEF ClientInv, ClientOK
<1>1. CASE TunnelOpens
  <2>1. /\ client.mounted /\ ~client.lost /\ client.tunnel \in LiveTunnels
        /\ sockets' = sockets
    BY <1>1 DEF ClientInv, ClientOK, TunnelOpens, LiveTunnels
  <2>2. client' = [ mounted |-> client.mounted, state |-> "CONNECTED",
                    tunnel |-> "open", shaky |-> FALSE, lost |-> client.lost,
                    panel |-> client.panel, held |-> TRUE,
                    resized |-> client.resized ]
    BY <1>0, <1>1 DEF TunnelOpens, ClientType
  <2>3. client' \in ClientType
    BY <1>0, <2>2 DEF ClientType, LiveTunnels
  <2>4. /\ client'.tunnel = "open" /\ client'.state = "CONNECTED"
        /\ ~client'.shaky /\ ~client'.lost /\ client'.mounted
    BY <2>1, <2>2
  <2> QED  BY <1>0, <2>1, <2>3, <2>4 DEF ClientInv, ClientOK, Live, LiveTunnels
<1>2. CASE TunnelUnstable
  <2>1. /\ client.mounted /\ ~client.lost /\ client.tunnel \in LiveTunnels
        /\ client.state # "DISCONNECTED" /\ sockets' = sockets
    BY <1>2 DEF ClientInv, ClientOK, TunnelUnstable, LiveTunnels
  <2>2. client' = [ mounted |-> client.mounted, state |-> client.state,
                    tunnel |-> "unstable", shaky |-> TRUE, lost |-> client.lost,
                    panel |-> client.panel, held |-> TRUE,
                    resized |-> client.resized ]
    BY <1>0, <1>2 DEF TunnelUnstable, ClientType
  <2>3. client' \in ClientType
    BY <1>0, <2>2 DEF ClientType, LiveTunnels
  <2>4. /\ client'.tunnel = "unstable" /\ client'.state # "DISCONNECTED"
        /\ client'.shaky /\ ~client'.lost /\ client'.mounted
    BY <2>1, <2>2
  <2> QED  BY <1>0, <2>1, <2>3, <2>4 DEF ClientInv, ClientOK, Live, LiveTunnels
<1>3. CASE TunnelFails
  <2>1. client' = Closed(client) /\ sockets' = sockets - 1 /\ Live(client) = 1
    BY <1>3 DEF TunnelFails, Live
  <2> QED  BY <1>0, <1>3, <2>1, ClosedOK DEF ClientInv, TunnelFails
<1>4. CASE Reconnect
  BY <1>0, <1>4, OpeningOK DEF ClientInv, Reconnect
<1> QED  BY <1>1, <1>2, <1>3, <1>4

\* The window, the panel's button and its rest leave the tunnel alone.
LEMMA PanelFieldsStep ==
  ASSUME ClientInv,
         \/ client' = [client EXCEPT !.resized = TRUE]
         \/ client' = [client EXCEPT !.panel = "armed"]
         \/ client' = [client EXCEPT !.panel = "resetting"]
         \/ client' = [client EXCEPT !.panel = "rest"]
  PROVE  ClientOK(client') /\ Live(client') = Live(client)
<1>1. client \in ClientType /\ ClientOK(client)
  BY DEF ClientInv, ClientOK
<1>2. client' \in ClientType
  BY <1>1 DEF ClientType
<1>3. /\ client'.mounted = client.mounted /\ client'.tunnel = client.tunnel
      /\ client'.state = client.state /\ client'.shaky = client.shaky
      /\ client'.lost = client.lost
  BY <1>1 DEF ClientType
<1> QED  BY <1>1, <1>2, <1>3, SameIndicators

\* The Disconnect button closes the tunnel that clientRef knows, and no other.
LEMMA DisconnectStep ==
  ASSUME ClientInv, NEW k, NEW id, AnimationDone(k, id)
  PROVE  ClientInv'
<1> DEFINE c == [client EXCEPT !.panel = "resetting"]
           closes == client.held /\ client.tunnel \in LiveTunnels
<1>1. /\ client' = IF closes THEN Closed(c) ELSE c
      /\ sockets' = sockets - (IF closes THEN 1 ELSE 0)
  BY DEF AnimationDone
<1>2. client \in ClientType /\ ClientOK(client) /\ sockets = Live(client)
  BY DEF ClientInv, ClientOK
<1>3. c \in ClientType
  BY <1>2 DEF ClientType
<1>4. /\ c.mounted = client.mounted /\ c.tunnel = client.tunnel
      /\ c.state = client.state /\ c.shaky = client.shaky /\ c.lost = client.lost
  BY <1>2 DEF ClientType
<1> HIDE DEF c
<1>5. ClientOK(c) /\ Live(c) = Live(client)
  BY <1>2, <1>3, <1>4, SameIndicators
<1>6. CASE closes
  <2>1. c.tunnel \in LiveTunnels /\ Live(client) = 1
    BY <1>4, <1>6 DEF Live
  <2> QED  BY <1>1, <1>2, <1>5, <1>6, <2>1, ClosedOK DEF ClientInv
<1>7. CASE ~closes
  <2>1. client' = c /\ sockets' = sockets - 0
    BY <1>1, <1>7
  <2>2. sockets' = sockets
    BY <1>2, <2>1, ClosingIsLive
  <2> QED  BY <1>2, <1>5, <2>1, <2>2 DEF ClientInv
<1> QED  BY <1>6, <1>7

\* What a step of the page does to the client: it replaces or renders the page,
\* or leaves the client to itself.
PageDoes ==
  \/ \E p : Replace(p)
  \/ \E p : Render(p)
  \/ UNCHANGED <<client, sockets>>

\* Whatever the page does to its client, the sockets are counted.
LEMMA PageDoesStep ==
  ASSUME ClientInv, PageDoes
  PROVE  ClientInv'
<1>1. CASE UNCHANGED <<client, sockets>>
  BY <1>1 DEF ClientInv
<1> QED  BY <1>1, RenderStep, ReplaceStep DEF PageDoes

\* handleDisconnect renders the page it belongs to, if that is still mounted.
LEMMA LeaveDoes ==
  ASSUME NEW k, NEW id, NEW live, Leave(k, id, live)
  PROVE  PageDoes
<1>1. CASE live
  BY <1>1 DEF Leave, PageDoes
<1>2. CASE ~live
  BY <1>2 DEF Leave, PageDoes
<1> QED  BY <1>1, <1>2

\* The answer to a request renders the page that waits for it, if any.
LEMMA AnswerDoes ==
  ASSUME Answer
  PROVE  PageDoes
<1>1. PICK r \in reqs : DeployAnswered(r) \/ ConnectAnswered(r)
  BY DEF Answer
<1>2. AnswerFails(r) => PageDoes
  BY DEF AnswerFails, PageDoes
<1>3. CASE DeployAnswered(r)
  BY <1>2, <1>3 DEF DeployAnswered, PageDoes
<1>4. CASE ConnectAnswered(r)
  <2>1. CASE AnswerFails(r)
    BY <1>2, <2>1
  <2>2. ASSUME NEW p, IF r.live THEN Render(p) /\ store' = Saved(store, p)
                      ELSE UNCHANGED <<page, client, sockets, store>>
        PROVE  PageDoes
    BY <2>2 DEF PageDoes
  <2> QED  BY <1>4, <2>1, <2>2 DEF ConnectAnswered
<1> QED  BY <1>1, <1>3, <1>4

\* Every step of the page, its client and the servers keeps ClientInv.
LEMMA PageStep ==
  ASSUME ClientInv, PageNext
  PROVE  ClientInv'
<1>1. CASE \/ \E k \in Kinds : Navigate(k)
           \/ \E k \in Kinds, c \in Ids : OpenLink(k, c)
           \/ Reload
  <2>1. PageDoes
    BY <1>1 DEF Navigate, OpenLink, Reload, Load, PageDoes
  <2> QED  BY <2>1, PageDoesStep
<1>2. CASE \/ Deploy \/ (\E c \in Ids : TypeJoin(c)) \/ TryAgain
           \/ EnableSharing \/ CopyShareUrl \/ CopyShown
  <2>1. PageDoes
    BY <1>2 DEF Deploy, TypeJoin, TryAgain, EnableSharing, CopyShareUrl,
                CopyShown, PageDoes
  <2> QED  BY <2>1, PageDoesStep
<1>3. CASE ShareSubmit
  <2>1. PageDoes
    BY <1>3 DEF ShareSubmit, PageDoes
  <2> QED  BY <2>1, PageDoesStep
<1>4. CASE Answer
  BY <1>4, AnswerDoes, PageDoesStep
<1>5. CASE ClickDisconnect \/ LossTimer \/ LeaveTimer
  <2>1. PageDoes
    BY <1>5, LeaveDoes DEF ClickDisconnect, LossTimer, LeaveTimer
  <2> QED  BY <2>1, PageDoesStep
<1>6. CASE SameLink \/ StopServed
           \/ (\E c \in Ids : SessionStarts(c) \/ SessionEnds(c))
  <2>1. UNCHANGED <<client, sockets>>
    BY <1>6 DEF SameLink, StopServed, SessionStarts, SessionEnds, clientVars
  <2> QED  BY <2>1, PageDoesStep DEF PageDoes
<1>7. CASE PanelDone
  BY <1>7, DisconnectStep DEF PanelDone
<1>8. CASE ClientStep
  <2>1. CASE TunnelOpens \/ TunnelUnstable \/ TunnelFails \/ Reconnect
    BY <2>1, TunnelStep
  <2>2. CASE WindowResizes \/ PressDisconnect \/ PanelRests
    <3>1. ClientOK(client') /\ Live(client') = Live(client) /\ sockets' = sockets
      BY <2>2, PanelFieldsStep DEF WindowResizes, PressDisconnect, PanelRests
    <3> QED  BY <3>1 DEF ClientInv
  <2> QED  BY <1>8, <2>1, <2>2 DEF ClientStep
<1> QED
  BY <1>1, <1>2, <1>3, <1>4, <1>5, <1>6, <1>7, <1>8 DEF PageNext

\* ClientInv is an invariant of the frontend.
LEMMA ClientInvariant == FrontSpec => []ClientInv
<1>1. FrontInit => ClientInv
  BY NoClientOK DEF FrontInit, PageInit, ClientInit, ClientInv
<1>2. ClientInv /\ [FrontNext]_frontVars => ClientInv'
  <2> SUFFICES ASSUME ClientInv, [FrontNext]_frontVars PROVE ClientInv'
    OBVIOUS
  <2>1. CASE InPage(PageNext)
    BY <2>1, PageStep DEF InPage
  <2>2. CASE UNCHANGED tabVars
    BY <2>2 DEF tabVars, clientVars, ClientInv
  <2> QED
    BY <2>1, <2>2 DEF FrontNext, InPage, InAuth, InPanel, InPointer, frontVars
<1> QED  BY <1>1, <1>2, PTL DEF FrontSpec

\* The tab has one websocket open while the page's tunnel lives, and none
\* otherwise, whatever restarts, reconnections, losses and pages came before.
THEOREM SocketsAreCounted == FrontSpec => []OneSocket
<1>1. ClientInv => OneSocket
  BY ClosingIsLive DEF ClientInv, OneSocket
<1> QED  BY <1>1, ClientInvariant, PTL

\* What the page shows of its connection is the state of the tunnel.
THEOREM IndicatorsAreRight == FrontSpec => []IndicatorsAgree
<1>1. ClientInv => IndicatorsAgree
  <2> SUFFICES ASSUME ClientInv PROVE IndicatorsAgree
    OBVIOUS
  <2>1. client.shaky \in BOOLEAN /\ client.lost \in BOOLEAN
    BY DEF ClientInv, ClientOK, ClientType
  <2>2. client.shaky = (client.tunnel = "unstable")
    BY <2>1 DEF ClientInv, ClientOK
  <2>3. client.lost = (client.tunnel = "closed")
    BY <2>1 DEF ClientInv, ClientOK
  <2>4. (client.state = "DISCONNECTED") = (client.tunnel = "closed")
    BY DEF ClientInv, ClientOK
  <2> QED  BY <2>2, <2>3, <2>4 DEF IndicatorsAgree
<1> QED  BY <1>1, ClientInvariant, PTL

(***************************************************************************)
(* Signing in. Away from the pages with the sidebar the browser is logged    *)
(* in and only asks who is; nobody on /auth/success gets beyond asking,      *)
(* because each answer cancels the run that waits for it.                   *)
(***************************************************************************)
AuthPlaces ==
  /\ \A r \in runs : ~r.cancelled => r.phase = "asking"
  /\ where # "success" => ~late /\ runs = {}
  /\ where = "success" => calls # {}
  /\ homing # "none" => where = "verified"
  /\ where # "home" => cookie /\ ~form.open /\ \A c \in calls : c.op = "me"
  /\ reliable => \A c \in calls : c.res # "lost"

\* What a request under way means for the cookie, when the context shows the
\* user u: the answer of the server is still to be told, all else is known.
Due(u, c) ==
  CASE c.op = "me" -> /\ c.res \in {"sent", "ok", "refused"}
                      /\ c.res = "ok" => cookie
                      /\ c.res = "refused" => ~cookie
    [] c.op = "login" -> IF c.res = "ok" THEN cookie ELSE u = cookie
    [] c.op = "logout" -> /\ c.res \in {"sent", "ok"}
                          /\ IF c.res = "ok" THEN ~cookie ELSE u = cookie
    [] OTHER -> u = cookie

AlmostAgrees(u, cs) ==
  calm /\ reliable /\ where # "success" =>
    /\ \A c, d \in cs : c = d
    /\ cs = {} => u = cookie
    /\ \A c \in cs : Due(u, c)

AuthInv == AuthTypeOK /\ AuthPlaces /\ AlmostAgrees(auth.user, calls)

\* The same requests, if with other listeners.
SameRequests(cs2, cs) ==
  /\ cs2 \in SUBSET CallType
  /\ \A c \in cs2 : \E d \in cs : c.op = d.op /\ c.res = d.res
  /\ (\A c, d \in cs : c = d) => \A c, d \in cs2 : c = d
  /\ cs2 = {} <=> cs = {}

LEMMA RelabelledAre ==
  ASSUME NEW cs \in SUBSET CallType, NEW old,
         NEW new \in {"app", "form", "run", "stale"}
  PROVE  SameRequests(Relabelled(cs, old, new), cs) /\ SameRequests(cs, cs)
<1> DEFINE f(c) == IF c.by = old THEN [c EXCEPT !.by = new] ELSE c
<1>1. \A c \in cs : f(c) \in CallType /\ f(c).op = c.op /\ f(c).res = c.res
  BY DEF CallType
<1>2. Relabelled(cs, old, new) = {f(c) : c \in cs}
  BY DEF Relabelled
<1> HIDE DEF f
<1>3. /\ Relabelled(cs, old, new) \in SUBSET CallType
      /\ \A c \in Relabelled(cs, old, new) :
           \E d \in cs : c.op = d.op /\ c.res = d.res
  BY <1>1, <1>2
<1>4. Relabelled(cs, old, new) = {} <=> cs = {}
  BY <1>2
<1>5. (\A c, d \in cs : c = d) =>
        \A c, d \in Relabelled(cs, old, new) : c = d
  BY <1>2
<1> QED  BY <1>3, <1>4, <1>5 DEF SameRequests

\* The records the model writes have their types.
LEMMA AuthRecords ==
  /\ InitialAuth \in AuthType /\ ~InitialAuth.user
  /\ NoForm \in FormType /\ ~NoForm.open
  /\ NewRun \in RunType /\ NewRun.phase = "asking" /\ ~NewRun.cancelled
  /\ \A by \in {"app", "form", "run", "stale"} :
       /\ Me(by) \in CallType /\ Me(by).op = "me" /\ Me(by).res = "sent"
  /\ \A op \in Ops :
       /\ FormCall(op) \in CallType
       /\ FormCall(op).op = op /\ FormCall(op).res = "sent"
BY AttemptsAssumption
DEF InitialAuth, AuthType, NoForm, FormType, NewRun, RunType, Me, CallType,
    FormCall, Ops

\* A cancelled run stays one.
LEMMA CancelledAre ==
  ASSUME NEW rs \in SUBSET RunType
  PROVE  /\ Cancelled(rs) \in SUBSET RunType
         /\ \A r \in Cancelled(rs) : r.cancelled
BY DEF Cancelled, RunType

\* A dispatch keeps the invariant if what it is given does.
LEMMA DispatchKeeps ==
  ASSUME AuthInv,
         NEW a \in AuthType, NEW cs \in SUBSET CallType,
         NEW f \in FormType, NEW rs \in SUBSET RunType,
         f.open => form.open,
         where # "success" => rs = {},
         where # "home" => \A c \in cs : c.op = "me",
         reliable => \A c \in cs : c.res # "lost",
         AlmostAgrees(a.user, cs),
         Dispatch(a, cs, f, rs),
         UNCHANGED <<where, cookie, late, calm, reliable>>
  PROVE  AuthInv'
<1>1. /\ auth' = a
      /\ form' \in FormType /\ (form'.open => form.open)
      /\ homing' \in HomingTimers \cup {"none"}
      /\ homing' # "none" => where = "verified"
  BY AuthRecords DEF Dispatch, HomingTimers, SetAgain
<1>2. CASE where = "success"
  <2>1. /\ calls' = Relabelled(cs, "run", "stale") \cup {Me("run")}
        /\ runs' = Cancelled(rs) \cup {NewRun}
        /\ arrival' = "checking"
    BY <1>2 DEF Dispatch
  <2>2. /\ calls' \in SUBSET CallType /\ calls' # {}
        /\ \A c \in calls' :
             \/ c.op = "me" /\ c.res = "sent"
             \/ \E d \in cs : c.op = d.op /\ c.res = d.res
    BY <2>1, RelabelledAre, AuthRecords DEF SameRequests
  <2>3. /\ runs' \in SUBSET RunType
        /\ \A r \in runs' : ~r.cancelled => r.phase = "asking"
    BY <2>1, CancelledAre, AuthRecords
  <2>4. AuthTypeOK'
    BY <1>1, <2>1, <2>2, <2>3 DEF AuthInv, AuthTypeOK
  <2>5. AuthPlaces'
    BY <1>1, <1>2, <2>2, <2>3 DEF AuthInv, AuthPlaces
  <2> QED
    BY <1>2, <2>4, <2>5 DEF AuthInv, AlmostAgrees
<1>3. CASE where # "success"
  <2>1. /\ calls' = IF a.user THEN Relabelled(cs, "form", "app") ELSE cs
        /\ runs' = {} /\ arrival' = arrival
    BY <1>3 DEF Dispatch
  <2>2. SameRequests(calls', cs)
    BY <2>1, RelabelledAre
  <2>3. AuthTypeOK'
    <3>1. calls' \in SUBSET CallType /\ runs' \subseteq RunType
      BY <2>1, <2>2 DEF SameRequests
    <3> QED  BY <1>1, <2>1, <3>1 DEF AuthInv, AuthTypeOK
  <2>4. AuthPlaces'
    BY <1>1, <1>3, <2>1, <2>2 DEF AuthInv, AuthPlaces, SameRequests
  <2>5. AlmostAgrees(auth.user, calls)'
    BY <1>1, <2>2 DEF AlmostAgrees, Due, SameRequests
  <2> QED
    BY <2>3, <2>4, <2>5 DEF AuthInv
<1> QED  BY <1>2, <1>3

\* So does a load, at a landing page for a browser that is logged in.
LEMMA LoadKeeps ==
  ASSUME AuthInv, NEW w \in {"home", "success", "verified"}, LoadAt(w),
         cookie' \in BOOLEAN, w # "home" => cookie'
  PROVE  AuthInv'
<1>1. /\ where' = w /\ auth' = InitialAuth /\ form' = NoForm
      /\ arrival' = "checking" /\ late' = (w = "success")
      /\ homing' = IF w = "verified" THEN "first" ELSE "none"
      /\ UNCHANGED <<calm, reliable>>
      /\ calls' = {Me("app")} \cup (IF w = "success" THEN {Me("run")} ELSE {})
      /\ runs' = IF w = "success" THEN {NewRun} ELSE {}
  BY DEF LoadAt
<1>2. AuthTypeOK'
  BY <1>1, AuthRecords DEF AuthInv, AuthTypeOK, HomingTimers
<1>3. AuthPlaces'
  BY <1>1, AuthRecords DEF AuthPlaces
<1>4. w # "success" =>
        /\ calls' = {Me("app")}
        /\ Me("app").op = "me" /\ Me("app").res = "sent"
  BY <1>1, AuthRecords
<1>5. AlmostAgrees(auth.user, calls)'
  BY <1>1, <1>4 DEF AlmostAgrees, Due
<1> QED  BY <1>2, <1>3, <1>5 DEF AuthInv

\* The records the reducer makes of the state.
LEMMA ReducerTypes ==
  ASSUME auth \in AuthType
  PROVE  /\ \A u \in BOOLEAN : SetUser(u) \in AuthType /\ SetUser(u).user = u
         /\ SetError \in AuthType /\ SetError.user = auth.user
         /\ ClearError \in AuthType /\ ClearError.user = auth.user
         /\ NeedVerification \in AuthType /\ NeedVerification.user = auth.user
         /\ StartLoading \in AuthType /\ StartLoading.user = auth.user
         /\ [auth EXCEPT !.loading = FALSE] \in AuthType
         /\ [auth EXCEPT !.loading = FALSE].user = auth.user
BY DEF AuthType, SetUser, SetError, ClearError, NeedVerification, StartLoading

\* A form whose flags change.
LEMMA FormTypes ==
  ASSUME form \in FormType
  PROVE  /\ \A b \in BOOLEAN :
              /\ [form EXCEPT !.busy = b] \in FormType
              /\ [form EXCEPT !.busy = b].open = form.open
              /\ [form EXCEPT !.sending = b] \in FormType
              /\ [form EXCEPT !.sending = b].open = form.open
         /\ form.busy \in BOOLEAN /\ form.sending \in BOOLEAN
         /\ form.open \in BOOLEAN /\ form.mode \in {"login", "register"}
BY DEF FormType

\* What the user does with the dialog.
LEMMA DialogKeeps ==
  ASSUME AuthInv, OpenDialog \/ CloseDialog \/ SwitchForm
  PROVE  AuthInv'
<1>1. form' \in FormType
  BY DEF OpenDialog, CloseDialog, SwitchForm, AuthInv, AuthTypeOK, FormType
<1>2. calls' = calls \/ calls' = Relabelled(calls, "form", "app")
  BY DEF OpenDialog, CloseDialog, SwitchForm
<1>3. SameRequests(calls', calls)
  <2>1. calls \in SUBSET CallType
    BY DEF AuthInv, AuthTypeOK
  <2> QED  BY <1>2, <2>1, RelabelledAre
<1>4. UNCHANGED <<where, cookie, auth, runs, arrival, late, homing, calm, reliable>>
  <2>1. CASE OpenDialog
    BY <2>1 DEF OpenDialog
  <2>2. CASE CloseDialog
    BY <2>2 DEF CloseDialog
  <2>3. CASE SwitchForm
    BY <2>3 DEF SwitchForm
  <2> QED  BY <2>1, <2>2, <2>3
<1>5. where = "home"
  BY DEF OpenDialog, LoginOffered, CloseDialog, SwitchForm, FormShown, AuthInv,
         AuthPlaces
<1>6. AuthTypeOK' /\ AuthPlaces'
  BY <1>1, <1>3, <1>4, <1>5
  DEF AuthInv, AuthTypeOK, AuthPlaces, SameRequests
<1>7. AlmostAgrees(auth.user, calls)'
  BY <1>3, <1>4 DEF AuthInv, AlmostAgrees, Due, SameRequests
<1> QED  BY <1>6, <1>7 DEF AuthInv

\* Neither an edit nor the Back button touches a request.
LEMMA EditKeeps ==
  ASSUME AuthInv, EditOrBack
  PROVE  AuthInv'
<1> DEFINE b == form.busy /\ ~(auth.verify /\ form.mode = "register")
           f == [form EXCEPT !.busy = b]
<1>1. /\ b \in BOOLEAN /\ auth \in AuthType /\ form \in FormType
      /\ calls \in SUBSET CallType /\ runs \in SUBSET RunType
  BY DEF AuthInv, AuthTypeOK
<1>2. f \in FormType /\ f.open = form.open
  <2> HIDE DEF b
  <2> QED  BY <1>1, FormTypes
<1>3. ClearError \in AuthType /\ ClearError.user = auth.user
  BY <1>1, ReducerTypes
<1>4. Dispatch(ClearError, calls, f, runs)
  BY DEF EditOrBack
<1>5. AlmostAgrees(ClearError.user, calls)
  BY <1>3 DEF AuthInv
<1>6. /\ UNCHANGED <<where, cookie, late, calm, reliable>>
      /\ where # "success" => runs = {}
      /\ where # "home" => \A c \in calls : c.op = "me"
      /\ reliable => \A c \in calls : c.res # "lost"
  BY DEF EditOrBack, AuthInv, AuthPlaces
<1> HIDE DEF f
<1> QED  BY <1>1, <1>2, <1>3, <1>4, <1>5, <1>6, DispatchKeeps

\* A form that asks: a user who waits for his answers has none to wait for.
LEMMA FormAsksKeep ==
  ASSUME AuthInv, Submit \/ Resend
  PROVE  AuthInv'
<1>1. PICK op \in {"login", "register", "resend"}, f \in FormType :
        /\ Dispatch(StartLoading, calls \cup {FormCall(op)}, f, runs)
        /\ f.open = form.open
  <2>1. form \in FormType
    BY DEF AuthInv, AuthTypeOK
  <2>2. CASE Submit
    BY <2>1, <2>2, FormTypes DEF Submit
  <2>3. CASE Resend
    BY <2>1, <2>3, FormTypes DEF Resend
  <2> QED  BY <2>2, <2>3
<1>2. /\ Calm /\ form.open
      /\ UNCHANGED <<where, cookie, late, calm, reliable>>
  BY DEF Submit, Resend, FormUsable, FormShown, ResendUsable, VerificationShown
<1>3. where = "home"
  BY <1>2 DEF AuthInv, AuthPlaces
<1>4. /\ op \in Ops /\ StartLoading \in AuthType /\ StartLoading.user = auth.user
      /\ runs \in SUBSET RunType
  BY ReducerTypes DEF Ops, AuthInv, AuthTypeOK
<1> DEFINE cs == calls \cup {FormCall(op)}
<1>5. /\ cs \in SUBSET CallType
      /\ FormCall(op).op = op /\ FormCall(op).res = "sent"
  BY <1>4, AuthRecords DEF AuthInv, AuthTypeOK
<1>6. AlmostAgrees(StartLoading.user, cs)
  <2> SUFFICES ASSUME calm, reliable
               PROVE  /\ \A c, d \in cs : c = d
                      /\ \A c \in cs : Due(auth.user, c)
    BY <1>4 DEF AlmostAgrees
  <2>1. cs = {FormCall(op)} /\ auth.user = cookie
    BY <1>2, <1>3 DEF Calm, AuthInv, AlmostAgrees
  <2>2. Due(auth.user, FormCall(op))
    BY <1>5, <2>1 DEF Due
  <2> QED  BY <2>1, <2>2
<1>7. reliable => \A c \in cs : c.res # "lost"
  BY <1>5 DEF AuthInv, AuthPlaces
<1>8. runs = {}
  BY <1>3 DEF AuthInv, AuthPlaces
<1> HIDE DEF cs
<1> QED  BY <1>1, <1>2, <1>3, <1>4, <1>5, <1>6, <1>7, <1>8, DispatchKeeps DEF cs

\* The ways a document is loaded: two of them log the browser in.
LEMMA LoadsKeep ==
  ASSUME AuthInv, LoginWithGitHub \/ OpenVerificationLink \/ ReloadTab
  PROVE  AuthInv'
<1>1. CASE LoginWithGitHub
  BY <1>1, LoadKeeps DEF LoginWithGitHub
<1>2. CASE OpenVerificationLink
  BY <1>2, LoadKeeps DEF OpenVerificationLink
<1>3. CASE ReloadTab
  <2>1. /\ cookie' = cookie /\ cookie \in BOOLEAN
        /\ where \in {"home", "success", "verified"}
        /\ where # "home" => cookie
    BY <1>3 DEF ReloadTab, AuthInv, AuthTypeOK, AuthPlaces
  <2>2. LoadAt(where) \/ LoadAt("home")
    BY <1>3 DEF ReloadTab
  <2> QED  BY <2>1, <2>2, LoadKeeps
<1> QED  BY <1>1, <1>2, <1>3

\* The user menu and the profile page.
LEMMA AppCallKeeps ==
  ASSUME AuthInv, NEW op \in {"logout", "profile"}, AppCall(op)
  PROVE  AuthInv'
<1> DEFINE c0 == [op |-> op, by |-> "app", res |-> "sent"]
<1>1. /\ c0 \in CallType /\ c0.op = op /\ c0.res = "sent"
      /\ calls' = calls \cup {c0} /\ Calm /\ where = "home"
      /\ UNCHANGED <<where, cookie, auth, form, runs, arrival, late, homing,
                     calm, reliable>>
  BY DEF AppCall, CallType, Ops
<1> HIDE DEF c0
<1>2. AuthTypeOK' /\ AuthPlaces'
  BY <1>1 DEF AuthInv, AuthTypeOK, AuthPlaces
<1>3. AlmostAgrees(auth.user, calls)'
  <2> SUFFICES ASSUME calm, reliable
               PROVE  /\ \A c, d \in calls' : c = d
                      /\ \A c \in calls' : Due(auth.user, c)'
    BY <1>1 DEF AlmostAgrees
  <2>1. calls' = {c0} /\ auth.user = cookie
    BY <1>1 DEF Calm, AuthInv, AlmostAgrees
  <2> QED  BY <1>1, <2>1 DEF Due
<1> QED  BY <1>2, <1>3 DEF AuthInv

\* The server, which alone changes the cookie while nothing is loaded.
LEMMA ServeKeeps ==
  ASSUME AuthInv, NEW op \in Ops, Serve(op)
  PROVE  AuthInv'
<1>1. PICK c \in calls, r \in Results(op) :
        /\ c.op = op /\ c.res = "sent"
        /\ calls' = (calls \ {c}) \cup {[c EXCEPT !.res = r]}
        /\ cookie' = CASE op = "login" /\ r = "ok" -> TRUE
                       [] op = "logout" -> FALSE
                       [] OTHER -> cookie
        /\ UNCHANGED <<where, auth, form, runs, arrival, late, homing, calm,
                       reliable>>
  BY DEF Serve
<1> DEFINE c2 == [c EXCEPT !.res = r]
<1>2. /\ r \in {"ok", "refused", "unverified"}
      /\ op = "me" => r = IF cookie THEN "ok" ELSE "refused"
      /\ op = "logout" => r = "ok"
  BY DEF Results, Ops
<1>3. /\ c2 \in CallType /\ c2.op = op /\ c2.res = r
      /\ calls' \in SUBSET CallType
  BY <1>1, <1>2 DEF AuthInv, AuthTypeOK, CallType
<1>4. /\ cookie' \in BOOLEAN
      /\ op = "login" => cookie' = (IF r = "ok" THEN TRUE ELSE cookie)
      /\ op = "logout" => cookie' = FALSE
      /\ op \notin {"login", "logout"} => cookie' = cookie
  BY <1>1 DEF AuthInv, AuthTypeOK
<1>5. calls' = (calls \ {c}) \cup {c2}
  BY <1>1
<1> HIDE DEF c2
<1>6. AuthTypeOK'
  BY <1>1, <1>3, <1>4 DEF AuthInv, AuthTypeOK
<1>7. AuthPlaces'
  BY <1>1, <1>2, <1>3, <1>4, <1>5 DEF AuthInv, AuthPlaces
<1>8. AlmostAgrees(auth.user, calls)'
  <2> SUFFICES ASSUME calm, reliable, where # "success"
               PROVE  /\ \A d, e \in calls' : d = e
                      /\ \A d \in calls' : Due(auth.user, d)'
    BY <1>1, <1>5 DEF AlmostAgrees
  <2>1. (\A d, e \in calls : d = e) /\ Due(auth.user, c)
    BY <1>1 DEF AuthInv, AlmostAgrees
  <2>2. calls' = {c2}
    BY <1>1, <1>5, <2>1
  <2>3. Due(auth.user, c2)'
    <3>1. CASE op = "me"
      BY <1>1, <1>2, <1>3, <1>4, <3>1 DEF Due
    <3>2. CASE op = "login"
      BY <1>1, <1>2, <1>3, <1>4, <2>1, <3>2 DEF Due
    <3>3. CASE op = "logout"
      BY <1>1, <1>2, <1>3, <1>4, <3>3 DEF Due
    <3>4. CASE op \notin {"me", "login", "logout"}
      BY <1>1, <1>3, <1>4, <2>1, <3>4 DEF Due
    <3> QED  BY <3>1, <3>2, <3>3, <3>4
  <2> QED  BY <2>2, <2>3
<1> QED  BY <1>6, <1>7, <1>8 DEF AuthInv

\* What is lost says nothing of a reliable network.
LEMMA LoseKeeps ==
  ASSUME AuthInv, Lose
  PROVE  AuthInv'
<1>1. PICK c \in calls : calls' = (calls \ {c}) \cup {[c EXCEPT !.res = "lost"]}
  BY DEF Lose
<1>2. [c EXCEPT !.res = "lost"] \in CallType /\ [c EXCEPT !.res = "lost"].op = c.op
  BY DEF AuthInv, AuthTypeOK, CallType
<1>3. calls' \in SUBSET CallType /\ calls' # {}
  BY <1>1, <1>2 DEF AuthInv, AuthTypeOK
<1>4. \A d \in calls' : \E e \in calls : d.op = e.op
  BY <1>1, <1>2
<1>5. /\ UNCHANGED <<where, cookie, auth, form, runs, arrival, late, homing,
                     calm, reliable>>
      /\ ~reliable
  BY DEF Lose
<1> QED
  BY <1>3, <1>4, <1>5 DEF AuthInv, AuthTypeOK, AuthPlaces, AlmostAgrees

\* The runs an answer to /auth/me sends to sleep.
LEMMA NappingAre ==
  ASSUME runs \in SUBSET RunType, NEW c
  PROVE  /\ Napping(c) \in SUBSET RunType
         /\ runs = {} => Napping(c) = {}
BY DEF Napping, RunType

\* An answer is told to the context, and whoever waited for it goes on.
LEMMA AnswerKeeps ==
  ASSUME AuthInv, NEW op \in Ops \ {"profile"}, AnswerCall(op)
  PROVE  AuthInv'
<1>1. PICK c \in calls :
        /\ c.op = op /\ c.res # "sent"
        /\ CASE op = "me" -> MeAnswered(c)
             [] op \in {"login", "register"} -> FormAnswered(c)
             [] op = "resend" -> ResendAnswered(c)
             [] op = "logout" -> LogoutAnswered(c)
             [] OTHER -> ProfileAnswered(c)
        /\ UNCHANGED <<where, cookie, late, calm, reliable>>
  BY DEF AnswerCall
<1> DEFINE cs == calls \ {c}
<1>2. /\ auth \in AuthType /\ form \in FormType /\ cs \in SUBSET CallType
      /\ runs \in SUBSET RunType /\ cookie \in BOOLEAN /\ c \in CallType
  BY DEF AuthInv, AuthTypeOK
<1>3. /\ where # "success" => runs = {}
      /\ where # "home" => \A d \in cs : d.op = "me"
      /\ reliable => (\A d \in cs : d.res # "lost") /\ c.res # "lost"
  BY DEF AuthInv, AuthPlaces
<1>4. calm /\ reliable /\ where # "success" => cs = {} /\ Due(auth.user, c)
  BY DEF AuthInv, AlmostAgrees
<1> HIDE DEF cs
<1>5. ASSUME NEW a \in AuthType, NEW f \in FormType, NEW rs \in SUBSET RunType,
             f.open = form.open, where # "success" => rs = {},
             Dispatch(a, calls \ {c}, f, rs),
             calm /\ reliable /\ where # "success" => a.user = cookie
      PROVE  AuthInv'
  <2>1. AlmostAgrees(a.user, cs)
    BY <1>4, <1>5 DEF AlmostAgrees
  <2>2. Dispatch(a, cs, f, rs)
    BY <1>5 DEF cs
  <2> QED  BY <1>1, <1>2, <1>3, <1>5, <2>1, <2>2, DispatchKeeps
<1>6. CASE op = "me"
  <2>1. \E rs \in {runs, Napping(c)} :
          Dispatch(SetUser(c.res = "ok"), calls \ {c}, form, rs)
    BY <1>1, <1>6 DEF MeAnswered
  <2>2. /\ SetUser(c.res = "ok") \in AuthType
        /\ SetUser(c.res = "ok").user = (c.res = "ok")
    BY <1>2, ReducerTypes
  <2>3. calm /\ reliable /\ where # "success" => (c.res = "ok") = cookie
    BY <1>1, <1>2, <1>4, <1>6 DEF Due
  <2>4. \A rs \in {runs, Napping(c)} :
          rs \in SUBSET RunType /\ (where # "success" => rs = {})
    BY <1>2, <1>3, NappingAre
  <2> QED  BY <1>2, <1>5, <2>1, <2>2, <2>3, <2>4
<1>7. CASE op \in {"login", "register"}
  <2> DEFINE registered == c.op = "register" /\ c.res = "ok"
             a == IF c.op = "login" /\ c.res = "ok" THEN SetUser(TRUE)
                  ELSE IF registered \/ c.res = "unverified" THEN NeedVerification
                  ELSE SetError
             idle == c.by = "form" /\ (c.op = "register" \/ c.res # "ok")
             b == form.busy /\ ~idle
  <2>1. FormAnswered(c)
    BY <1>1, <1>7
  <2>2. Dispatch(a, calls \ {c}, [form EXCEPT !.busy = b], runs)
    BY <2>1 DEF FormAnswered
  <2>3. a \in AuthType /\ a.user = IF op = "login" /\ c.res = "ok" THEN TRUE ELSE auth.user
    BY <1>1, <1>2, ReducerTypes
  <2>4. /\ [form EXCEPT !.busy = b] \in FormType
        /\ [form EXCEPT !.busy = b].open = form.open
    <3>1. b \in BOOLEAN
      BY <1>2, FormTypes
    <3> HIDE DEF b
    <3> QED  BY <1>2, <3>1, FormTypes
  <2>5. calm /\ reliable /\ where # "success" => a.user = cookie
    BY <1>1, <1>2, <1>4, <1>7, <2>3 DEF Due
  <2> HIDE DEF a, b
  <2> QED  BY <1>2, <1>3, <1>5, <2>2, <2>3, <2>4, <2>5
<1>8. CASE op = "resend"
  <2> DEFINE a == IF c.res = "ok" THEN [auth EXCEPT !.loading = FALSE] ELSE SetError
             b == form.sending /\ c.by # "form"
  <2>1. ResendAnswered(c)
    BY <1>1, <1>8
  <2>2. Dispatch(a, calls \ {c}, [form EXCEPT !.sending = b], runs)
    BY <2>1 DEF ResendAnswered
  <2>3. a \in AuthType /\ a.user = auth.user
    BY <1>2, ReducerTypes
  <2>4. /\ [form EXCEPT !.sending = b] \in FormType
        /\ [form EXCEPT !.sending = b].open = form.open
    <3>1. b \in BOOLEAN
      BY <1>2, FormTypes
    <3> HIDE DEF b
    <3> QED  BY <1>2, <3>1, FormTypes
  <2>5. calm /\ reliable /\ where # "success" => a.user = cookie
    BY <1>1, <1>4, <1>8, <2>3 DEF Due
  <2> HIDE DEF a, b
  <2> QED  BY <1>2, <1>3, <1>5, <2>2, <2>3, <2>4, <2>5
<1>9. CASE op = "logout"
  <2>1. LogoutAnswered(c)
    BY <1>1, <1>9
  <2>2. SetUser(FALSE) \in AuthType /\ SetUser(FALSE).user = FALSE
    BY <1>2, ReducerTypes
  <2>3. calm /\ reliable /\ where # "success" => cookie = FALSE
    BY <1>1, <1>2, <1>4, <1>9 DEF Due
  <2> QED
    BY <1>2, <1>3, <1>5, <2>1, <2>2, <2>3 DEF LogoutAnswered
<1> QED  BY <1>6, <1>7, <1>8, <1>9 DEF Ops

\* A saved profile is read again, by a request that is yet to be served.
LEMMA ProfileKeeps ==
  ASSUME AuthInv, AnswerCall("profile")
  PROVE  AuthInv'
<1>1. PICK c \in calls :
        /\ c.op = "profile" /\ c.res # "sent"
        /\ ProfileAnswered(c)
        /\ UNCHANGED <<where, cookie, late, calm, reliable>>
  BY DEF AnswerCall
<1>2. /\ calls' = (calls \ {c}) \cup (IF c.res = "ok" THEN {Me("app")} ELSE {})
      /\ UNCHANGED <<auth, form, runs, arrival, homing>>
  BY <1>1 DEF ProfileAnswered
<1>3. where = "home"
  BY <1>1 DEF AuthInv, AuthPlaces
<1>4. calls' \in SUBSET CallType
  BY <1>2, AuthRecords DEF AuthInv, AuthTypeOK
<1>5. AuthTypeOK' /\ AuthPlaces'
  BY <1>1, <1>2, <1>3, <1>4, AuthRecords DEF AuthInv, AuthTypeOK, AuthPlaces
<1>6. AlmostAgrees(auth.user, calls)'
  <2> SUFFICES ASSUME calm, reliable
               PROVE  /\ \A d, e \in calls' : d = e
                      /\ calls' = {} => auth.user = cookie
                      /\ \A d \in calls' : Due(auth.user, d)'
    BY <1>1, <1>2 DEF AlmostAgrees
  <2>1. calls \ {c} = {} /\ auth.user = cookie
    BY <1>1, <1>3 DEF AuthInv, AlmostAgrees, Due
  <2>2. \A d \in calls' : d = Me("app") /\ d.op = "me" /\ d.res = "sent"
    BY <1>2, <2>1, AuthRecords
  <2> QED  BY <2>1, <2>2 DEF Due
<1> QED  BY <1>5, <1>6 DEF AuthInv

\* The timers of the landing pages.
LEMMA TimersKeep ==
  ASSUME AuthInv,
         LateCheck \/ Wake \/ \E timer \in HomingTimers : GoHome(timer)
  PROVE  AuthInv'
<1> USE DEF AuthInv
<1>1. CASE LateCheck
  <2>1. /\ where = "success" /\ late' = FALSE
        /\ calls' = calls \cup {Me("app")}
        /\ UNCHANGED <<where, cookie, auth, form, runs, arrival, homing, calm,
                       reliable>>
    BY <1>1 DEF LateCheck, AuthPlaces
  <2>2. AuthTypeOK' /\ AuthPlaces'
    BY <2>1, AuthRecords DEF AuthTypeOK, AuthPlaces
  <2> QED  BY <2>1, <2>2 DEF AlmostAgrees
<1>2. CASE Wake
  <2>1. PICK r \in runs : /\ r.cancelled /\ runs' = runs \ {r}
                          /\ arrival' = arrival /\ calls' = calls
                          /\ where' = where
    BY <1>2 DEF Wake, AuthPlaces
  <2>2. UNCHANGED <<cookie, auth, form, late, homing, calm, reliable>>
    BY <1>2 DEF Wake
  <2> QED
    BY <2>1, <2>2 DEF AuthTypeOK, AuthPlaces, AlmostAgrees, Due
<1>3. CASE \E timer \in HomingTimers : GoHome(timer)
  <2>1. /\ where' = "home" /\ homing' = "none"
        /\ UNCHANGED <<cookie, auth, calls, form, runs, arrival, late, calm,
                       reliable>>
    BY <1>3 DEF GoHome
  <2>2. where # "success"
    BY <1>3 DEF GoHome, HomingTimers, AuthPlaces
  <2> QED
    BY <2>1, <2>2 DEF AuthTypeOK, AuthPlaces, AlmostAgrees, Due
<1> QED  BY <1>1, <1>2, <1>3

\* Every step of signing in keeps the invariant.
LEMMA AuthStep ==
  ASSUME AuthInv, AuthNext
  PROVE  AuthInv'
BY DialogKeeps, EditKeeps, FormAsksKeep, LoadsKeep, AppCallKeeps, ServeKeeps,
   LoseKeeps, AnswerKeeps, ProfileKeeps, TimersKeep
DEF AuthNext, HandleLogout, SaveProfile, Ops

\* So do both of its beginnings.
LEMMA AuthInitially ==
  ASSUME NEW a \in AuthType, ~a.user, NEW cs \in SUBSET {Me("app")},
         AuthStarts(a, cs), cs = {} => ~cookie
  PROVE  AuthInv
<1>1. /\ auth \in AuthType /\ auth.user = FALSE
      /\ calls \in SUBSET {Me("app")} /\ (calls = {} => ~cookie)
  BY DEF AuthStarts, AuthType
<1>2. AuthTypeOK
  BY <1>1, AuthRecords DEF AuthStarts, AuthTypeOK
<1>3. AuthPlaces
  BY <1>1, AuthRecords DEF AuthStarts, AuthPlaces
<1>4. \A c \in calls : Due(auth.user, c)
  BY <1>1, AuthRecords DEF Due
<1>5. calls = {} => auth.user = cookie
  BY <1>1, <1>2 DEF AuthTypeOK
<1> QED  BY <1>1, <1>2, <1>3, <1>4, <1>5 DEF AuthInv, AlmostAgrees

\* The invariant holds in every behaviour of the frontend.
LEMMA AuthInvariant == FrontSpec => []AuthInv
<1>1. FrontInit => AuthInv
  <2>1. CASE AuthInit
    <3>1. {Me("app")} \in SUBSET {Me("app")} /\ {Me("app")} # {}
      OBVIOUS
    <3> QED  BY <2>1, <3>1, AuthRecords, AuthInitially DEF AuthInit
  <2>2. CASE AuthRests
    <3> DEFINE a == [InitialAuth EXCEPT !.loading = FALSE]
    <3>1. a \in AuthType /\ ~a.user
      BY DEF AuthType, InitialAuth
    <3>2. AuthStarts(a, {}) /\ ~cookie
      BY <2>2 DEF AuthRests
    <3> HIDE DEF a
    <3> QED  BY <3>1, <3>2, AuthInitially
  <2> QED  BY <2>1, <2>2 DEF FrontInit
<1>2. AuthInv /\ [FrontNext]_frontVars => AuthInv'
  <2> SUFFICES ASSUME AuthInv, [FrontNext]_frontVars PROVE AuthInv'
    OBVIOUS
  <2>1. CASE InAuth(AuthNext)
    BY <2>1, AuthStep DEF InAuth
  <2>2. CASE UNCHANGED authVars
    BY <2>2
    DEF authVars, AuthInv, AuthTypeOK, AuthPlaces, AlmostAgrees, Due
  <2> QED
    BY <2>1, <2>2 DEF FrontNext, InPage, InAuth, InPanel, InPointer, frontVars
<1> QED  BY <1>1, <1>2, PTL DEF FrontSpec

\* Once everything is answered, a user who waits for his answers sees whether
\* the browser is logged in, whatever he did and the landing pages asked.
THEOREM SettledAgreement == FrontSpec => []SettledAgrees
<1>1. AuthInv => SettledAgrees
  BY DEF AuthInv, AuthPlaces, AlmostAgrees, SettledAgrees
<1> QED  BY <1>1, AuthInvariant, PTL

=============================================================================
