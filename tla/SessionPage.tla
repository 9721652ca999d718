---------------------------- MODULE SessionPage -----------------------------
(***************************************************************************)
(* One browser tab and the page it shows: OfficeSession, BrowserSession or  *)
(* ShareWSSession, each of which creates, joins, shows, restores and stops   *)
(* a session. A page keeps its session in three places, its React state,    *)
(* the uuid of the tab's URL and localStorage; requests and timers started   *)
(* by a page outlive it when the user walks to another one.                 *)
(*                                                                         *)
(* The servers are the environment here: sessions start and end, requests   *)
(* are answered or fail, a stop may be lost.                                *)
(***************************************************************************)
EXTENDS GuacClient, FiniteSets

CONSTANTS
  MaxRequests,   \* bound: fetches of a page in flight
  MaxLeaving,    \* bound: timers of handleDisconnect to run
  MaxHasty       \* bound: sessions that start around a user who is not patient

ASSUME BoundsAssumption ==
  MaxRequests \in Nat \ {0} /\ MaxLeaving \in Nat \ {0} /\ MaxHasty \in Nat

VARIABLES
  page,      \* the mounted page and its sessionState
  url,       \* the uuid of the tab's URL
  store,     \* localStorage, one entry for each kind of page
  reqs,      \* the fetches whose answer a page waits for
  stops,     \* DELETE /sessions/:id/stop in flight: nobody waits for them
  session,   \* what the servers know of each session
  patient    \* a user who lets a page settle before he does something else

pageVars == <<page, url, store, reqs, stops, session, patient>>
tabVars == <<clientVars, pageVars>>

MaybeId == Ids \cup {NoId}

\* sharingEnabled and isShared: off, on, or a session that was joined, which
\* sets both.
Sharing == {"off", "on", "joined"}

PageType ==
  [ kind   : Kinds,
    status : {"idle", "creating", "ready", "error"},
    id     : MaybeId,
    share  : Sharing,
    copied : BOOLEAN ]     \* copySuccess

StoreType == [id : MaybeId, share : Sharing]

RequestType ==
  [ op   : {"deploy", "connect", "join"},
    id   : MaybeId,
    live : BOOLEAN ]       \* the page that asked is still mounted

PageTypeOK ==
  /\ ClientTypeOK
  /\ page \in PageType
  /\ url \in MaybeId
  /\ store \in [Kinds -> StoreType]
  /\ reqs \subseteq RequestType
  /\ stops \subseteq Ids
  /\ session \in [Ids -> {"new", "running", "stopped"}]
  /\ patient \in BOOLEAN

Nothing == [id |-> NoId, share |-> "off"]

IdlePage(k) ==
  [kind |-> k, status |-> "idle", id |-> NoId, share |-> "off", copied |-> FALSE]

PageInit ==
  /\ ClientInit
  /\ page = IdlePage("office")
  /\ url = NoId
  /\ store = [k \in Kinds |-> Nothing]
  /\ reqs = {}
  /\ stops = {}
  /\ session = [c \in Ids |-> "new"]
  /\ patient \in BOOLEAN

Join(id) == [op |-> "join", id |-> id, live |-> TRUE]

\* Setting the state of a component that is gone does nothing.
Orphaned(set) == {[x EXCEPT !.live = FALSE] : x \in set}

\* The bound on the requests, for an action that starts those of r.
RoomFor(r) == Cardinality(r) <= MaxRequests

\* The session that starts next, within the bound.
CanStart(c) ==
  /\ session[c] = "new"
  /\ \A d \in Ids : d < c => session[d] # "new"
  /\ patient \/ Cardinality({d \in Ids : session[d] # "new"}) < MaxHasty

\* A patient user has nothing of his last click under way.
Settled == patient => reqs = {} /\ leaving = {} /\ stops = {}

(***************************************************************************)
(* Rendering. A page shows the client of its session while it is ready.     *)
(***************************************************************************)
ShowsClient(p) == p.status = "ready"

Render(p) ==
  /\ page' = p
  /\ IF ~ShowsClient(p) THEN UnmountClient
     ELSE IF ~client.mounted THEN MountClient
     ELSE IF p.id # page.id \/ client.resized THEN Restart
     ELSE Rerender

\* A bug: what is stored is never written over.
Saved_Once(s, p) ==
  IF p.status = "ready" /\ s[p.kind].id = NoId
  THEN [s EXCEPT ![p.kind] = [id |-> p.id, share |-> p.share]]
  ELSE s

\* The effect that saves a ready page each time its state changes.
Saved(s, p) ==
  IF p.status = "ready"
  THEN [s EXCEPT ![p.kind] = [id |-> p.id, share |-> p.share]]
  ELSE s

\* The session a page of kind k shows when it is mounted with uuid u.
MountTarget(k, u) == IF u # NoId THEN u ELSE store[k].id

\* The mount effect of the three pages: Office asks for the session of its URL
\* and restores a stored one as it is, Browser asks in both cases, and Share
\* asks in none.
MountAsks(k, u) ==
  IF \/ k = "browser" /\ MountTarget(k, u) # NoId
     \/ k = "office" /\ u # NoId
  THEN {Join(MountTarget(k, u))} ELSE {}

Mounted(k, u) ==
  LET t == MountTarget(k, u) IN
  IF MountAsks(k, u) # {} THEN [IdlePage(k) EXCEPT !.status = "creating"]
  ELSE IF t = NoId THEN IdlePage(k)
  ELSE [ IdlePage(k) EXCEPT
           !.status = "ready", !.id = t,
           !.share = IF k = "office" THEN store[k].share ELSE "off" ]

\* The client of the page before is unmounted, that of the new one mounted.
Replace(p) ==
  /\ page' = p
  /\ client' = IF ShowsClient(p) THEN NewClient ELSE NoClient
  /\ sockets' = sockets - Closing + (IF ShowsClient(p) THEN 1 ELSE 0)
  /\ store' = Saved(store, p)

\* A link of the sidebar to another page: no load, so what the old page has
\* started goes on and its answers find nobody.
Navigate(k) ==
  /\ Settled
  /\ k # page.kind
  /\ reqs' = Orphaned(reqs) \cup MountAsks(k, NoId)
  /\ RoomFor(reqs')
  /\ Replace(Mounted(k, NoId))
  /\ url' = MountTarget(k, NoId)
  /\ leaving' = Orphaned(leaving)
  /\ UNCHANGED <<stops, session, patient>>

\* The link to the page that is shown: the same component stays mounted, and
\* only the uuid of the URL goes.
SameLink ==
  /\ Settled
  /\ url' = NoId
  /\ UNCHANGED <<clientVars, page, store, reqs, stops, session, patient>>

\* A load of the tab, a link with a uuid or a reload: nothing of the old
\* document goes on, except what the server makes of a request.
Load(k, u) ==
  /\ Settled
  /\ reqs' = MountAsks(k, u)
  /\ Replace(Mounted(k, u))
  /\ url' = MountTarget(k, u)
  /\ leaving' = {}
  /\ UNCHANGED <<stops, session, patient>>

OpenLink(k, c) == session[c] # "new" /\ c \notin stops /\ Load(k, c)

\* F5, or the Reconnect button of the status card, which is always offered:
\* nobody calls onConnectionStateChange, so the card sees IDLE for ever.
Reload == Load(page.kind, url)

(***************************************************************************)
(* Creating and joining.                                                    *)
(***************************************************************************)
\* What an idle page offers: a session of its kind, the session of an id that
\* the user types in the office page, or the form of the share page.
OffersDeploy == page.kind \in {"office", "browser"} /\ page.status = "idle"
OffersJoin == page.kind = "office" /\ page.status = "idle"
OffersShareForm == page.kind = "share" /\ page.status = "idle"

\* createSession.
Deploy ==
  /\ Settled
  /\ OffersDeploy
  /\ reqs' = reqs \cup {[op |-> "deploy", id |-> NoId, live |-> TRUE]}
  /\ RoomFor(reqs')
  /\ Render([page EXCEPT !.status = "creating"])
  /\ UNCHANGED <<leaving, url, store, stops, session, patient>>

\* joinSession.
TypeJoin(c) ==
  /\ Settled
  /\ OffersJoin
  /\ session[c] # "new" /\ c \notin stops
  /\ reqs' = reqs \cup {Join(c)}
  /\ RoomFor(reqs')
  /\ Render([page EXCEPT !.status = "creating"])
  /\ UNCHANGED <<leaving, url, store, stops, session, patient>>

\* The catch of the three: the error is shown, if the page is still there.
AnswerFails(r) ==
  IF r.live THEN Render([page EXCEPT !.status = "error"])
  ELSE UNCHANGED <<page, client, sockets>>

\* The answer to a deployment: a new session, whose URL is asked for next, or
\* a failure.
DeployAnswered(r) ==
  /\ r.op = "deploy"
  /\ \/ \E c \in Ids :
          /\ CanStart(c)
          /\ session' = [session EXCEPT ![c] = "running"]
          /\ reqs' = (reqs \ {r}) \cup {[r EXCEPT !.op = "connect", !.id = c]}
          /\ UNCHANGED <<page, client, sockets>>
     \/ /\ reqs' = reqs \ {r}
        /\ AnswerFails(r)
        /\ UNCHANGED session
  /\ UNCHANGED <<leaving, url, store, stops, patient>>

\* The answer to GET /test/connect/:id. A page that created its session writes
\* the URL whatever the tab shows by then; one that joined leaves it.
ConnectAnswered(r) ==
  /\ r.op \in {"connect", "join"}
  /\ reqs' = reqs \ {r}
  /\ \/ LET p == [ page EXCEPT
                     !.status = "ready", !.id = r.id,
                     !.share = IF r.op = "join" /\ page.kind = "office"
                               THEN "joined" ELSE "off" ]
        IN  /\ session[r.id] = "running"
            /\ IF r.live THEN Render(p) /\ store' = Saved(store, p)
                         ELSE UNCHANGED <<page, client, sockets, store>>
            /\ url' = IF r.op = "connect" THEN r.id ELSE url
     \/ AnswerFails(r) /\ UNCHANGED <<url, store>>
  /\ UNCHANGED <<leaving, stops, session, patient>>

Answer == \E r \in reqs : DeployAnswered(r) \/ ConnectAnswered(r)

\* handleSubmit of the share page: a well-formed UUID is taken as it is.
ShareSubmit ==
  /\ Settled
  /\ OffersShareForm
  /\ \E c \in {x \in Ids : session[x] # "new" /\ x \notin stops} \cup {NoId} :
       LET p == IF c = NoId THEN [page EXCEPT !.status = "error"]
                ELSE [page EXCEPT !.status = "ready", !.id = c]
       IN  /\ Render(p)
           /\ store' = Saved(store, p)
           /\ url' = IF c = NoId THEN url ELSE c
  /\ UNCHANGED <<leaving, reqs, stops, session, patient>>

\* The share page alone offers a way out of an error.
TryAgain ==
  /\ page.kind = "share" /\ page.status = "error"
  /\ Render(IdlePage("share"))
  /\ UNCHANGED <<leaving, url, store, reqs, stops, session, patient>>

(***************************************************************************)
(* A ready office page: sharing is switched on in the page only, and its     *)
(* URL copied, which renders the page again, as the end of "copied" does.    *)
(***************************************************************************)
EnableSharing ==
  LET p == [page EXCEPT !.share = "on"] IN
  /\ page.kind = "office" /\ page.status = "ready" /\ page.share = "off"
  /\ Render(p)
  /\ store' = Saved(store, p)
  /\ UNCHANGED <<leaving, url, reqs, stops, session, patient>>

CopyShareUrl ==
  /\ page.status = "ready" /\ page.share = "on" /\ ~page.copied
  /\ Render([page EXCEPT !.copied = TRUE])
  /\ UNCHANGED <<leaving, url, store, reqs, stops, session, patient>>

CopyShown ==
  /\ page.copied
  /\ Render([page EXCEPT !.copied = FALSE])
  /\ UNCHANGED <<leaving, url, store, reqs, stops, session, patient>>

\* Bugs: the URL is forgotten; the browser page does not ask for the end.
Leave_KeepsUrl(k, id, live) ==
  /\ stops' = IF k # "share" THEN stops \cup ({id} \ {NoId}) ELSE stops
  /\ store' = [store EXCEPT ![k] = Nothing]
  /\ IF live THEN Render(IdlePage(k)) ELSE UNCHANGED <<page, client, sockets>>
  /\ UNCHANGED <<url, reqs, session, patient>>

Leave_OfficeOnly(k, id, live) ==
  /\ stops' = IF k = "office" THEN stops \cup ({id} \ {NoId}) ELSE stops
  /\ store' = [store EXCEPT ![k] = Nothing]
  /\ url' = NoId
  /\ IF live THEN Render(IdlePage(k)) ELSE UNCHANGED <<page, client, sockets>>
  /\ UNCHANGED <<reqs, session, patient>>

(***************************************************************************)
(* handleDisconnect of a page of kind k that showed session id. An office or *)
(* a browser page asks for the end of the session and waits for no answer;  *)
(* all three forget it. The state is set if the component is still there.   *)
(***************************************************************************)
Leave(k, id, live) ==
  /\ stops' = IF k # "share" THEN stops \cup ({id} \ {NoId}) ELSE stops
  /\ store' = [store EXCEPT ![k] = Nothing]
  /\ url' = NoId
  /\ IF live THEN Render(IdlePage(k)) ELSE UNCHANGED <<page, client, sockets>>
  /\ UNCHANGED <<reqs, session, patient>>

\* The button above the client, or that of the status card.
ClickDisconnect ==
  /\ page.status = "ready"
  /\ Leave(page.kind, page.id, TRUE)
  /\ UNCHANGED leaving

\* A bug: the session is ended and forgotten, and its page stays.
LossTimer_KeepsPage ==
  /\ client.lost
  /\ Leave(page.kind, page.id, FALSE)
  /\ UNCHANGED leaving

\* The connection has been lost for one second.
LossTimer ==
  /\ client.lost
  /\ Leave(page.kind, page.id, TRUE)
  /\ UNCHANGED leaving

\* 100 ms after the client was disconnected from the control panel; the page
\* may have changed in between.
LeaveTimer ==
  \E l \in leaving :
    /\ leaving' = leaving \ {l}
    /\ Leave(l.kind, l.id, l.live)

(***************************************************************************)
(* The client of a ready page, and the servers.                             *)
(***************************************************************************)
PanelDone ==
  /\ Cardinality(leaving) < MaxLeaving
  /\ AnimationDone(page.kind, page.id)
  /\ UNCHANGED pageVars

ClientStep ==
  /\ \/ page.id # NoId /\ session[page.id] = "running" /\ TunnelOpens
     \/ TunnelUnstable
     \/ TunnelFails
     \/ Reconnect
     \/ WindowResizes
     \/ PressDisconnect
     \/ PanelRests
  /\ UNCHANGED pageVars

\* Somebody else's session, or one whose creator does not listen any more.
SessionStarts(c) ==
  /\ CanStart(c)
  /\ session' = [session EXCEPT ![c] = "running"]
  /\ UNCHANGED <<clientVars, page, url, store, reqs, stops, patient>>

\* The servers end a session of their own accord.
SessionEnds(c) ==
  /\ session[c] = "running"
  /\ session' = [session EXCEPT ![c] = "stopped"]
  /\ UNCHANGED <<clientVars, page, url, store, reqs, stops, patient>>

\* A stop request arrives, or is lost: its failure is logged and forgotten.
StopServed ==
  \E c \in stops, arrives \in BOOLEAN :
    /\ stops' = stops \ {c}
    /\ session' = IF arrives THEN [session EXCEPT ![c] = "stopped"] ELSE session
    /\ UNCHANGED <<clientVars, page, url, store, reqs, patient>>

PageNext ==
  \/ \E k \in Kinds : Navigate(k)
  \/ SameLink
  \/ \E k \in Kinds, c \in Ids : OpenLink(k, c)
  \/ Reload
  \/ Deploy
  \/ \E c \in Ids : TypeJoin(c)
  \/ Answer
  \/ ShareSubmit
  \/ TryAgain
  \/ EnableSharing
  \/ CopyShareUrl
  \/ CopyShown
  \/ ClickDisconnect
  \/ LossTimer
  \/ LeaveTimer
  \/ PanelDone
  \/ ClientStep
  \/ \E c \in Ids : SessionStarts(c) \/ SessionEnds(c)
  \/ StopServed

\* Timers fire and requests are answered, if only with an error.
PageFairness ==
  /\ WF_tabVars(Answer)
  /\ WF_tabVars(LossTimer)
  /\ WF_tabVars(LeaveTimer)
  /\ WF_tabVars(PanelDone)
  /\ WF_tabVars(StopServed)

PageSpec == PageInit /\ [][PageNext]_tabVars /\ PageFairness

(***************************************************************************)
(* Properties.                                                              *)
(***************************************************************************)
\* Whatever a patient user did before, a reload brings back the session he has
\* on the screen: the URL and localStorage, which each page writes in its own
\* way and at its own times, never name another one.
ReloadShowsSame ==
  patient /\ page.status = "ready" => MountTarget(page.kind, url) = page.id

\* While the request that ends a session is on its way, a patient user neither
\* sees the session nor gets it back by a reload: the three disconnect paths
\* clear the screen, the URL and the stored copy, not just one of them.
StoppedIsForgotten ==
  patient => \A c \in stops : page.id # c /\ MountTarget(page.kind, url) # c

\* The stored session of an office or a browser page is dropped only with a
\* request to end that very session: no path forgets a session that then
\* keeps its pod (a session that another one replaces is not dropped).
ForgottenIsStopped ==
  [][\A k \in {"office", "browser"} :
       patient /\ store[k].id # NoId /\ store'[k].id = NoId
         => store[k].id \in stops']_tabVars

\* A closed connection does not stay on the screen: it is connected again, or
\* the page is told and leaves the session.
LossEnds == client.tunnel = "closed" ~> client.tunnel # "closed"

=============================================================================
