------------------------------ MODULE Frontend ------------------------------
(***************************************************************************)
(* The frontend: a session page with its Guacamole client, the control panel *)
(* of that client, the mouse of its display, and signing in.                 *)
(*                                                                         *)
(* The four parts share no state: a page asks nobody who is logged in, the    *)
(* panel keeps its uploads to itself (its Disconnect button is part of the    *)
(* page), and the mouse is a matter of one display. What one part does        *)
(* neither enables nor disables a step of another, so a property of one       *)
(* part holds in every interleaving when it holds of the part alone; a        *)
(* behaviour of this module therefore follows one part and leaves the others  *)
(* at rest.                                                                 *)
(***************************************************************************)
EXTENDS SessionPage, AuthClient, ControlPanel, PointerInput

VARIABLE focus     \* the part this behaviour follows

frontVars == <<tabVars, authVars, panelVars, pointerVars, focus>>

Parts == {"page", "auth", "panel", "pointer"}

\* Every variable of the frontend keeps its type; the counter of ignored mouse
\* events stays between 0 and the threshold it is set to.
FrontTypeOK ==
  /\ focus \in Parts
  /\ PageTypeOK
  /\ AuthTypeOK
  /\ PanelTypeOK
  /\ PointerTypeOK

\* A part that is not followed is at rest.
FrontInit ==
  /\ focus \in Parts
  /\ PageInit /\ (focus # "page" => patient)
  /\ IF focus = "auth" THEN AuthInit ELSE AuthRests
  /\ PanelInit
  /\ PointerInit

InPage(A) == focus = "page" /\ A /\ UNCHANGED <<focus, authVars, panelVars, pointerVars>>
InAuth(A) == focus = "auth" /\ A /\ UNCHANGED <<focus, tabVars, panelVars, pointerVars>>
InPanel(A) == focus = "panel" /\ A /\ UNCHANGED <<focus, tabVars, authVars, pointerVars>>
InPointer(A) == focus = "pointer" /\ A /\ UNCHANGED <<focus, tabVars, authVars, panelVars>>

FrontNext ==
  \/ InPage(PageNext)
  \/ InAuth(AuthNext)
  \/ InPanel(PanelNext)
  \/ InPointer(PointerNext)

\* The fairness of the parts: timers fire and requests are answered, if only
\* with an error. Users owe nothing.
FrontFairness ==
  /\ WF_frontVars(InPage(Answer))
  /\ WF_frontVars(InPage(LossTimer))
  /\ WF_frontVars(InPage(LeaveTimer))
  /\ WF_frontVars(InPage(PanelDone))
  /\ WF_frontVars(InPage(StopServed))
  /\ \A op \in Ops : WF_frontVars(InAuth(Serve(op))) /\ WF_frontVars(InAuth(AnswerCall(op)))
  /\ WF_frontVars(InAuth(LateCheck))
  /\ WF_frontVars(InAuth(Wake))
  /\ \A timer \in HomingTimers : WF_frontVars(InAuth(GoHome(timer)))

FrontSpec == FrontInit /\ [][FrontNext]_frontVars /\ FrontFairness

=============================================================================
