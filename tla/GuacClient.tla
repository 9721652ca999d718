----------------------------- MODULE GuacClient -----------------------------
(***************************************************************************)
(* The Guacamole client of a session page: the GuacClient component, the   *)
(* hook useGuacWebSocket that owns its tunnel, the dialog that reports the  *)
(* state of the connection and the Disconnect button of the control panel. *)
(*                                                                         *)
(* GuacClient calls the hook with four arguments, so the hook's session     *)
(* UUID is null and its own reconnection, storage and sharing never run;    *)
(* what is left of it is the effect that opens a tunnel for a query string  *)
(* and closes it again, and the handlers that turn the library's tunnel     *)
(* states into the connection state the page renders.                       *)
(*                                                                         *)
(* React renders once per batch, so only the last state of a batch is kept: *)
(* opening a tunnel leaves WAITING on the screen, and a tunnel that fails   *)
(* leaves DISCONNECTED, its TUNNEL_ERROR overwritten in the same batch.     *)
(***************************************************************************)
EXTENDS Integers

CONSTANTS
  Ids,       \* the UUIDs of the sessions, numbered in the order they start
  NoId       \* null: no session

ASSUME IdsAssumption == Ids \subseteq Nat /\ NoId \notin Ids

VARIABLES
  client,    \* the mounted GuacClient, with its hook and its control panel
  sockets,   \* how many websockets the tab has open
  leaving    \* the 100 ms timers of handleDisconnect that are still to run

clientVars == <<client, sockets, leaving>>

Kinds == {"office", "browser", "share"}

LiveTunnels == {"connecting", "open", "unstable"}

ClientType ==
  [ mounted : BOOLEAN,
    state   : {"IDLE", "WAITING", "CONNECTED", "DISCONNECTED"},
    tunnel  : LiveTunnels \cup {"none", "closed"},
    shaky   : BOOLEAN,    \* isConnectionUnstable
    lost    : BOOLEAN,    \* the 1 s timer that reports a lost connection runs
    panel   : {"rest", "armed", "resetting"},
    held    : BOOLEAN,    \* clientRef names the client of the latest tunnel
    resized : BOOLEAN ]   \* the window has another size than the query says

LeavingType == [kind : Kinds, id : Ids, live : BOOLEAN]

ClientTypeOK ==
  /\ client \in ClientType
  /\ sockets \in Int
  /\ leaving \subseteq LeavingType

NoClient ==
  [ mounted |-> FALSE, state |-> "IDLE", tunnel |-> "none", shaky |-> FALSE,
    lost |-> FALSE, panel |-> "rest", held |-> FALSE, resized |-> FALSE ]

\* What the first renders leave: the hook has a query string, opens its tunnel
\* and hands the new client to the component.
NewClient ==
  [ NoClient EXCEPT !.mounted = TRUE, !.state = "WAITING",
                    !.tunnel = "connecting", !.held = TRUE ]

ClientInit ==
  /\ client = NoClient
  /\ sockets = 0
  /\ leaving = {}

\* The sockets the hook's cleanup closes: the one of its tunnel, if open.
Closing == IF client.tunnel \in LiveTunnels THEN 1 ELSE 0

(***************************************************************************)
(* What a render of the page does to the client below it.                   *)
(***************************************************************************)
MountClient ==
  /\ client' = NewClient
  /\ sockets' = sockets + 1

UnmountClient ==
  /\ client' = NoClient
  /\ sockets' = sockets - Closing

\* A bug: the new tunnel is opened beside the old one.
Restart_NoCleanup ==
  /\ client' = [NewClient EXCEPT !.panel = client.panel]
  /\ sockets' = sockets + 1

\* Another query string: the effect cleans up and opens a new tunnel. When no
\* state of the hook changes in the end, React skips the component's effects
\* and clientRef keeps the client of the old tunnel.
Restart ==
  /\ client' = [ NewClient EXCEPT
                   !.panel = client.panel,
                   !.held = client.state # "WAITING" \/ client.shaky ]
  /\ sockets' = sockets - Closing + 1

Rerender ==
  /\ client' = [client EXCEPT !.held = TRUE]
  /\ UNCHANGED sockets

(***************************************************************************)
(* The tunnel's own events.                                                 *)
(***************************************************************************)
\* A message arrives, the first one or the first after a silence.
TunnelOpens ==
  /\ client.tunnel \in {"connecting", "unstable"}
  /\ client' = [ client EXCEPT !.tunnel = "open", !.state = "CONNECTED",
                               !.shaky = FALSE, !.held = TRUE ]
  /\ UNCHANGED <<sockets, leaving>>

\* 1.5 s of silence.
TunnelUnstable ==
  /\ client.tunnel \in {"connecting", "open"}
  /\ client' = [client EXCEPT !.tunnel = "unstable", !.shaky = TRUE, !.held = TRUE]
  /\ UNCHANGED <<sockets, leaving>>

\* A bug: isConnectionUnstable is not reset.
Closed_StaysShaky(c) ==
  [c EXCEPT !.tunnel = "closed", !.state = "DISCONNECTED", !.lost = TRUE, !.held = TRUE]

\* What the page shows of a tunnel that closes, whoever closed it: the effect
\* on the connection state starts the timer that will tell the page.
Closed(c) ==
  [ c EXCEPT !.tunnel = "closed", !.state = "DISCONNECTED", !.shaky = FALSE,
             !.lost = TRUE, !.held = TRUE ]

\* The server closes the socket, an error instruction, or 15 s of silence.
TunnelFails ==
  /\ client.tunnel \in LiveTunnels
  /\ client' = Closed(client)
  /\ sockets' = sockets - 1
  /\ UNCHANGED leaving

\* handleReconnect, from the dialog, which offers it when disconnected only.
\* Setting connected to false cleans up, the next effect sets it to true again.
Reconnect ==
  /\ client.state = "DISCONNECTED"
  /\ client' = [NewClient EXCEPT !.panel = client.panel]
  /\ sockets' = sockets - Closing + 1
  /\ UNCHANGED leaving

WindowResizes ==
  /\ client.mounted /\ ~client.resized
  /\ client' = [client EXCEPT !.resized = TRUE]
  /\ UNCHANGED <<sockets, leaving>>

(***************************************************************************)
(* The Disconnect button of the control panel: 800 ms of animation, then    *)
(* the client is disconnected, and 100 ms later the page is told.           *)
(***************************************************************************)
PressDisconnect ==
  /\ client.state \in {"CONNECTED", "WAITING"}
  /\ client.panel = "rest"
  /\ client' = [client EXCEPT !.panel = "armed"]
  /\ UNCHANGED <<sockets, leaving>>

\* The end of the animation: handleDisconnect of GuacClient, for the page of
\* kind k that shows session id. It closes the tunnel clientRef knows.
AnimationDone(k, id) ==
  /\ client.panel = "armed"
  /\ LET c == [client EXCEPT !.panel = "resetting"]
         closes == client.held /\ client.tunnel \in LiveTunnels
     IN  /\ client' = IF closes THEN Closed(c) ELSE c
         /\ sockets' = sockets - (IF closes THEN 1 ELSE 0)
  /\ leaving' = leaving \cup {[kind |-> k, id |-> id, live |-> TRUE]}

PanelRests ==
  /\ client.panel = "resetting"
  /\ client' = [client EXCEPT !.panel = "rest"]
  /\ UNCHANGED <<sockets, leaving>>

(***************************************************************************)
(* Properties.                                                              *)
(***************************************************************************)
\* However often the connection is restarted, reconnected, disconnected or
\* lost, the tab has one websocket open while the page's tunnel lives and none
\* otherwise: a leaked one would hold a second client in the session, as the
\* cleanup of the hook's effect (useGuacWebSocket.js:479-517) is to prevent.
OneSocket == sockets = Closing

\* What the user sees is the state of the tunnel: "Unstable" exactly while it
\* is, "Disconnected" and the 1 s timer that ends the session exactly while the
\* tunnel is closed. A timer that outlived a reconnection would end a session
\* that works (GuacClient.jsx:95-105, useGuacWebSocket.js:370-425).
IndicatorsAgree ==
  client.mounted =>
    /\ client.shaky = (client.tunnel = "unstable")
    /\ (client.state = "DISCONNECTED") = (client.tunnel = "closed")
    /\ client.lost = (client.tunnel = "closed")

=============================================================================
