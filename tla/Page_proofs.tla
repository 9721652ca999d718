---------------------------- MODULE Page_proofs -----------------------------
(***************************************************************************)
(* Theorems about the session pages: where a page keeps its session, for     *)
(* every user, and what follows for a patient one.                          *)
(***************************************************************************)
EXTENDS Frontend_proofs

(***************************************************************************)
(* The shape of a page, for every user: a ready page has a session, a page   *)
(* that is not ready has no client, and a request that asks for a session    *)
(* names it.                                                                *)
(***************************************************************************)
PageTypes ==
  /\ page \in PageType
  /\ url \in MaybeId
  /\ store \in [Kinds -> StoreType]
  /\ reqs \subseteq RequestType
  /\ stops \subseteq Ids
  /\ leaving \subseteq LeavingType
  /\ session \in [Ids -> {"new", "running", "stopped"}]
  /\ patient \in BOOLEAN

Placed ==
  /\ page.status = "ready" => page.id \in Ids
  /\ page.status # "ready" => client = NoClient
  /\ \A r \in reqs : r.op # "deploy" => r.id \in Ids

ShapeInv == ClientInv /\ PageTypes /\ Placed

\* What is stored of a ready page has the type of what is stored.
LEMMA SavedType ==
  ASSUME NEW s \in [Kinds -> StoreType], NEW p \in PageType
  PROVE  /\ Saved(s, p) \in [Kinds -> StoreType]
         /\ p.status = "ready" => Saved(s, p)[p.kind].id = p.id
         /\ p.status # "ready" => Saved(s, p) = s
         /\ \A k \in Kinds : k # p.kind => Saved(s, p)[k] = s[k]
<1>1. p.kind \in Kinds /\ p.id \in MaybeId /\ p.share \in Sharing
  BY DEF PageType
<1>2. [id |-> p.id, share |-> p.share] \in StoreType
  BY <1>1 DEF StoreType
<1> QED  BY <1>1, <1>2 DEF Saved

\* A page without a session.
LEMMA IdlePageIs ==
  ASSUME NEW k \in Kinds
  PROVE  /\ IdlePage(k) \in PageType
         /\ IdlePage(k).kind = k
         /\ IdlePage(k).status = "idle"
         /\ IdlePage(k).id = NoId
BY DEF IdlePage, PageType, Sharing, MaybeId, Kinds

\* A page that changes one of its fields.
LEMMA PageFields ==
  ASSUME page \in PageType
  PROVE  /\ \A s \in {"idle", "creating", "ready", "error"} :
              /\ [page EXCEPT !.status = s] \in PageType
              /\ [page EXCEPT !.status = s].status = s
              /\ [page EXCEPT !.status = s].kind = page.kind
              /\ [page EXCEPT !.status = s].id = page.id
         /\ \A b \in BOOLEAN :
              /\ [page EXCEPT !.copied = b] \in PageType
              /\ [page EXCEPT !.copied = b].status = page.status
              /\ [page EXCEPT !.copied = b].kind = page.kind
              /\ [page EXCEPT !.copied = b].id = page.id
         /\ /\ [page EXCEPT !.share = "on"] \in PageType
            /\ [page EXCEPT !.share = "on"].status = page.status
            /\ [page EXCEPT !.share = "on"].kind = page.kind
            /\ [page EXCEPT !.share = "on"].id = page.id
BY DEF PageType, Sharing

\* The page of a session that was created or joined.
LEMMA ReadyPageIs ==
  ASSUME page \in PageType, NEW c \in Ids, NEW s \in Sharing
  PROVE  LET p == [page EXCEPT !.status = "ready", !.id = c, !.share = s]
         IN  /\ p \in PageType
             /\ p.status = "ready" /\ p.kind = page.kind /\ p.id = c
BY DEF PageType, MaybeId

\* The page of a session whose id was typed in the form of the share page.
LEMMA TypedPageIs ==
  ASSUME page \in PageType, NEW c \in Ids
  PROVE  LET p == [page EXCEPT !.status = "ready", !.id = c]
         IN  /\ p \in PageType
             /\ p.status = "ready" /\ p.kind = page.kind /\ p.id = c
BY DEF PageType, MaybeId

\* The request to join a session.
LEMMA JoinType ==
  ASSUME NEW c \in Ids
  PROVE  /\ Join(c) \in RequestType /\ Join(c).id = c /\ Join(c).live
         /\ Join(c).op = "join"
BY DEF Join, RequestType, MaybeId

\* What a page of kind k is mounted with and asks for.
LEMMA MountedIs ==
  ASSUME store \in [Kinds -> StoreType], NEW k \in Kinds, NEW u \in MaybeId
  PROVE  LET t == MountTarget(k, u) IN
         /\ t \in MaybeId
         /\ Mounted(k, u) \in PageType /\ Mounted(k, u).kind = k
         /\ \/ /\ Mounted(k, u).status = "idle" /\ t = NoId
               /\ Mounted(k, u).id = NoId /\ MountAsks(k, u) = {}
            \/ /\ Mounted(k, u).status = "ready" /\ t \in Ids
               /\ Mounted(k, u).id = t /\ MountAsks(k, u) = {}
            \/ /\ Mounted(k, u).status = "creating" /\ t \in Ids
               /\ Mounted(k, u).id = NoId /\ MountAsks(k, u) = {Join(t)}
<1> DEFINE t == MountTarget(k, u)
<1>1. store[k] \in StoreType
  OBVIOUS
<1>2. t \in MaybeId /\ store[k].share \in Sharing
  BY <1>1 DEF MountTarget, StoreType
<1>3. MountAsks(k, u) = {} \/ (MountAsks(k, u) = {Join(t)} /\ t # NoId)
  BY IdsAssumption DEF MountAsks, MountTarget
<1> HIDE DEF t
<1>4. CASE MountAsks(k, u) # {}
  <2>1. Mounted(k, u) = [IdlePage(k) EXCEPT !.status = "creating"]
    BY <1>4 DEF Mounted
  <2>2. /\ Mounted(k, u) \in PageType /\ Mounted(k, u).kind = k
        /\ Mounted(k, u).status = "creating" /\ Mounted(k, u).id = NoId
    BY <2>1, IdlePageIs DEF PageType
  <2>3. MountAsks(k, u) = {Join(t)} /\ t \in Ids
    BY <1>2, <1>3, <1>4 DEF MaybeId
  <2> QED  BY <1>2, <2>2, <2>3 DEF t
<1>5. CASE MountAsks(k, u) = {} /\ t = NoId
  <2>1. Mounted(k, u) = IdlePage(k)
    BY <1>5 DEF Mounted, t
  <2> QED  BY <1>2, <1>5, <2>1, IdlePageIs DEF t
<1>6. CASE MountAsks(k, u) = {} /\ t # NoId
  <2> DEFINE sh == IF k = "office" THEN store[k].share ELSE "off"
  <2>1. Mounted(k, u) = [IdlePage(k) EXCEPT !.status = "ready", !.id = t, !.share = sh]
    BY <1>6 DEF Mounted, t
  <2>2. t \in Ids /\ sh \in Sharing
    BY <1>2, <1>6 DEF MaybeId, Sharing
  <2> HIDE DEF sh
  <2>3. /\ Mounted(k, u) \in PageType /\ Mounted(k, u).kind = k
        /\ Mounted(k, u).status = "ready" /\ Mounted(k, u).id = t
    BY <2>1, <2>2, IdlePageIs DEF PageType, MaybeId
  <2> QED  BY <1>2, <1>6, <2>2, <2>3 DEF t
<1> QED  BY <1>4, <1>5, <1>6

\* A page that is rendered or mounted without a session has no client.
LEMMA RenderIs ==
  ASSUME NEW p, Render(p) \/ Replace(p)
  PROVE  page' = p /\ (p.status # "ready" => client' = NoClient)
BY DEF Render, Replace, ShowsClient, UnmountClient

\* The steps of the client leave a page without one as it is.
LEMMA ClientStays ==
  ASSUME client = NoClient
  PROVE  /\ ~TunnelOpens /\ ~TunnelUnstable /\ ~TunnelFails /\ ~Reconnect
         /\ ~WindowResizes /\ ~PressDisconnect /\ ~PanelRests /\ ~client.lost
         /\ \A k, id : ~AnimationDone(k, id)
<1>1. /\ NoClient.tunnel = "none" /\ NoClient.state = "IDLE"
      /\ NoClient.mounted = FALSE /\ NoClient.panel = "rest"
      /\ NoClient.lost = FALSE
  BY DEF NoClient
<1> QED
  BY <1>1 DEF TunnelOpens, TunnelUnstable, TunnelFails, Reconnect, WindowResizes,
              PressDisconnect, PanelRests, AnimationDone, LiveTunnels

\* A page that is mounted in the place of another one.
LEMMA ReplaceShape ==
  ASSUME ShapeInv, NEW k \in Kinds, NEW u \in MaybeId, Replace(Mounted(k, u)),
         reqs' \subseteq Orphaned(reqs) \cup MountAsks(k, u),
         url' = MountTarget(k, u),
         leaving' \subseteq LeavingType,
         UNCHANGED <<stops, session, patient>>
  PROVE  PageTypes' /\ Placed'
<1> DEFINE p == Mounted(k, u)
           t == MountTarget(k, u)
<1>1. /\ page \in PageType /\ store \in [Kinds -> StoreType]
      /\ reqs \subseteq RequestType /\ stops \subseteq Ids
      /\ session \in [Ids -> {"new", "running", "stopped"}] /\ patient \in BOOLEAN
  BY DEF ShapeInv, PageTypes
<1>2. /\ t \in MaybeId /\ p \in PageType
      /\ p.status = "ready" => p.id \in Ids
      /\ MountAsks(k, u) = {} \/ (MountAsks(k, u) = {Join(t)} /\ t \in Ids)
  BY <1>1, MountedIs
<1> HIDE DEF p, t
<1>3. page' = p /\ (p.status # "ready" => client' = NoClient) /\ store' = Saved(store, p)
  BY RenderIs DEF Replace, p
<1>4. store' \in [Kinds -> StoreType]
  BY <1>1, <1>2, <1>3, SavedType
<1>5. \A r \in Orphaned(reqs) : r \in RequestType /\ (r.op # "deploy" => r.id \in Ids)
  <2> SUFFICES ASSUME NEW r \in reqs
               PROVE  LET o == [r EXCEPT !.live = FALSE]
                      IN  o \in RequestType /\ (o.op # "deploy" => o.id \in Ids)
    BY DEF Orphaned
  <2>1. r \in RequestType /\ (r.op # "deploy" => r.id \in Ids)
    BY <1>1 DEF ShapeInv, Placed
  <2> QED  BY <2>1 DEF RequestType
<1>6. \A r \in MountAsks(k, u) : r \in RequestType /\ (r.op # "deploy" => r.id \in Ids)
  BY <1>2, JoinType
<1>7. \A r \in reqs' : r \in RequestType /\ (r.op # "deploy" => r.id \in Ids)
  BY <1>5, <1>6
<1>8. url' \in MaybeId
  BY <1>2 DEF t
<1> QED
  BY <1>1, <1>2, <1>3, <1>4, <1>7, <1>8 DEF PageTypes, Placed

\* A navigation, a link or a load.
LEMMA MountShape ==
  ASSUME ShapeInv,
         \/ \E k \in Kinds : Navigate(k)
         \/ \E k \in Kinds, c \in Ids : OpenLink(k, c)
         \/ Reload
  PROVE  PageTypes' /\ Placed'
<1>1. ASSUME NEW k \in Kinds, Navigate(k)
      PROVE  PageTypes' /\ Placed'
  <2>1. leaving' \subseteq LeavingType
    <3> SUFFICES ASSUME NEW l \in leaving
                 PROVE  [l EXCEPT !.live = FALSE] \in LeavingType
      BY <1>1 DEF Navigate, Orphaned
    <3>1. l \in LeavingType
      BY DEF ShapeInv, PageTypes
    <3> QED  BY <3>1 DEF LeavingType
  <2>2. NoId \in MaybeId
    BY DEF MaybeId
  <2> QED  BY <1>1, <2>1, <2>2, ReplaceShape DEF Navigate
<1>2. ASSUME NEW k \in Kinds, NEW u \in MaybeId, Load(k, u)
      PROVE  PageTypes' /\ Placed'
  BY <1>2, ReplaceShape DEF Load
<1>3. page.kind \in Kinds /\ url \in MaybeId /\ Ids \subseteq MaybeId
  BY DEF ShapeInv, PageTypes, PageType, MaybeId
<1> QED  BY <1>1, <1>2, <1>3 DEF OpenLink, Reload

\* A page that renders itself, with the requests and the session of before.
LEMMA RenderShape ==
  ASSUME ShapeInv, NEW p \in PageType, Render(p),
         p.status = "ready" => p.id \in Ids,
         store' \in [Kinds -> StoreType],
         url' \in MaybeId,
         \A r \in reqs' : r \in RequestType /\ (r.op # "deploy" => r.id \in Ids),
         stops' \subseteq Ids, leaving' \subseteq LeavingType,
         session' \in [Ids -> {"new", "running", "stopped"}], patient' \in BOOLEAN
  PROVE  PageTypes' /\ Placed'
<1>1. page' = p /\ (p.status # "ready" => client' = NoClient)
  BY RenderIs
<1> QED  BY <1>1 DEF PageTypes, Placed

\* The same without a render.
LEMMA QuietShape ==
  ASSUME ShapeInv, UNCHANGED <<page, client>>,
         store' \in [Kinds -> StoreType],
         url' \in MaybeId,
         \A r \in reqs' : r \in RequestType /\ (r.op # "deploy" => r.id \in Ids),
         stops' \subseteq Ids, leaving' \subseteq LeavingType,
         session' \in [Ids -> {"new", "running", "stopped"}], patient' \in BOOLEAN
  PROVE  PageTypes' /\ Placed'
BY DEF ShapeInv, PageTypes, Placed

\* What ShapeInv says, as facts.
LEMMA ShapeFacts ==
  ASSUME ShapeInv
  PROVE  /\ page \in PageType /\ page.kind \in Kinds /\ page.id \in MaybeId
         /\ url \in MaybeId /\ NoId \in MaybeId
         /\ store \in [Kinds -> StoreType]
         /\ \A r \in reqs : r \in RequestType /\ (r.op # "deploy" => r.id \in Ids)
         /\ stops \subseteq Ids /\ leaving \subseteq LeavingType
         /\ session \in [Ids -> {"new", "running", "stopped"}]
         /\ patient \in BOOLEAN
         /\ page.status = "ready" => page.id \in Ids
         /\ page.status # "ready" => client = NoClient
BY DEF ShapeInv, PageTypes, Placed, PageType, MaybeId

\* The buttons that ask for a session.
LEMMA AskShape ==
  ASSUME ShapeInv, Deploy \/ (\E c \in Ids : TypeJoin(c))
  PROVE  PageTypes' /\ Placed'
<1> DEFINE p == [page EXCEPT !.status = "creating"]
           d == [op |-> "deploy", id |-> NoId, live |-> TRUE]
<1>1. p \in PageType /\ p.status = "creating"
  BY ShapeFacts, PageFields
<1>2. PICK r : /\ Render(p)
               /\ reqs' = reqs \cup {r}
               /\ r \in RequestType /\ (r.op # "deploy" => r.id \in Ids)
               /\ UNCHANGED <<leaving, url, store, stops, session, patient>>
  <2>1. CASE Deploy
    <3>1. d \in RequestType /\ d.op = "deploy"
      BY DEF RequestType, MaybeId
    <3> QED  BY <2>1, <3>1 DEF Deploy
  <2>2. ASSUME NEW c \in Ids, TypeJoin(c)
        PROVE  \E r : /\ Render(p)
                      /\ reqs' = reqs \cup {r}
                      /\ r \in RequestType /\ (r.op # "deploy" => r.id \in Ids)
                      /\ UNCHANGED <<leaving, url, store, stops, session, patient>>
    BY <2>2, JoinType DEF TypeJoin
  <2> QED  BY <2>1, <2>2
<1> HIDE DEF p
<1> QED  BY <1>1, <1>2, ShapeFacts, RenderShape

\* The answers.
LEMMA AnswerShape ==
  ASSUME ShapeInv, Answer
  PROVE  PageTypes' /\ Placed'
<1>1. PICK r \in reqs : DeployAnswered(r) \/ ConnectAnswered(r)
  BY DEF Answer
<1>2. r \in RequestType /\ (r.op # "deploy" => r.id \in Ids)
  BY ShapeFacts
<1> DEFINE e == [page EXCEPT !.status = "error"]
<1>3. e \in PageType /\ e.status = "error"
  BY ShapeFacts, PageFields
<1>4. AnswerFails(r) => Render(e) \/ UNCHANGED <<page, client>>
  BY DEF AnswerFails
<1> HIDE DEF e
<1>5. CASE DeployAnswered(r)
  <2>1. ASSUME NEW c \in Ids,
               session' = [session EXCEPT ![c] = "running"],
               reqs' = (reqs \ {r}) \cup {[r EXCEPT !.op = "connect", !.id = c]},
               UNCHANGED <<page, client, sockets>>
        PROVE  PageTypes' /\ Placed'
    <3> DEFINE q == [r EXCEPT !.op = "connect", !.id = c]
    <3>1. q \in RequestType /\ q.id \in Ids
      BY <1>2 DEF RequestType, MaybeId
    <3>2. session' \in [Ids -> {"new", "running", "stopped"}]
      BY <2>1, ShapeFacts
    <3> HIDE DEF q
    <3>3. reqs' = (reqs \ {r}) \cup {q}
      BY <2>1 DEF q
    <3>4. UNCHANGED <<leaving, url, store, stops, patient>>
      BY <1>5 DEF DeployAnswered
    <3> QED  BY <2>1, <3>1, <3>2, <3>3, <3>4, ShapeFacts, QuietShape
  <2>2. CASE reqs' = reqs \ {r} /\ AnswerFails(r) /\ UNCHANGED session
    <3>1. UNCHANGED <<leaving, url, store, stops, patient>>
      BY <1>5 DEF DeployAnswered
    <3>2. CASE Render(e)
      BY <1>3, <2>2, <3>1, <3>2, ShapeFacts, RenderShape
    <3>3. CASE UNCHANGED <<page, client>>
      BY <2>2, <3>1, <3>3, ShapeFacts, QuietShape
    <3> QED  BY <1>4, <2>2, <3>2, <3>3
  <2> QED  BY <1>5, <2>1, <2>2 DEF DeployAnswered
<1>6. CASE ConnectAnswered(r)
  <2> DEFINE sh == IF r.op = "join" /\ page.kind = "office" THEN "joined" ELSE "off"
             p == [page EXCEPT !.status = "ready", !.id = r.id, !.share = sh]
  <2>1. r.id \in Ids /\ r.id \in MaybeId /\ reqs' = reqs \ {r}
        /\ UNCHANGED <<leaving, stops, session, patient>>
    BY <1>2, <1>6 DEF ConnectAnswered, MaybeId
  <2>2. sh \in Sharing
    BY DEF Sharing
  <2>3. p \in PageType /\ p.status = "ready" /\ p.id = r.id
    <3> HIDE DEF sh
    <3> QED  BY <2>1, <2>2, ShapeFacts, ReadyPageIs
  <2>4. CASE /\ IF r.live THEN Render(p) /\ store' = Saved(store, p)
                          ELSE UNCHANGED <<page, client, sockets, store>>
             /\ url' = IF r.op = "connect" THEN r.id ELSE url
    <3> HIDE DEF p
    <3>1. url' \in MaybeId
      BY <2>1, <2>4, ShapeFacts
    <3>2. Saved(store, p) \in [Kinds -> StoreType]
      BY <2>3, ShapeFacts, SavedType
    <3>3. CASE Render(p) /\ store' = Saved(store, p)
      BY <2>1, <2>3, <3>1, <3>2, <3>3, ShapeFacts, RenderShape
    <3>4. CASE UNCHANGED <<page, client, sockets, store>>
      BY <2>1, <3>1, <3>4, ShapeFacts, QuietShape
    <3> QED  BY <2>4, <3>3, <3>4
  <2>5. CASE AnswerFails(r) /\ UNCHANGED <<url, store>>
    <3>1. CASE Render(e)
      BY <1>3, <2>1, <2>5, <3>1, ShapeFacts, RenderShape
    <3>2. CASE UNCHANGED <<page, client>>
      BY <2>1, <2>5, <3>2, ShapeFacts, QuietShape
    <3> QED  BY <1>4, <2>5, <3>1, <3>2
  <2> QED  BY <1>6, <2>4, <2>5 DEF ConnectAnswered
<1> QED  BY <1>1, <1>5, <1>6

\* The form of the share page.
LEMMA SubmitShape ==
  ASSUME ShapeInv, ShareSubmit
  PROVE  PageTypes' /\ Placed'
<1>1. UNCHANGED <<leaving, reqs, stops, session, patient>>
  BY DEF ShareSubmit
<1>2. PICK c \in {x \in Ids : session[x] # "new" /\ x \notin stops} \cup {NoId} :
        LET p == IF c = NoId THEN [page EXCEPT !.status = "error"]
                 ELSE [page EXCEPT !.status = "ready", !.id = c]
        IN  /\ Render(p)
            /\ store' = Saved(store, p)
            /\ url' = IF c = NoId THEN url ELSE c
  BY DEF ShareSubmit
<1>3. CASE c = NoId
  <2> DEFINE p == [page EXCEPT !.status = "error"]
  <2>1. Render(p) /\ store' = Saved(store, p) /\ url' = url
    BY <1>2, <1>3
  <2>2. p \in PageType /\ p.status = "error"
    BY ShapeFacts, PageFields
  <2> HIDE DEF p
  <2>3. store' \in [Kinds -> StoreType]
    BY <2>1, <2>2, ShapeFacts, SavedType
  <2> QED  BY <1>1, <2>1, <2>2, <2>3, ShapeFacts, RenderShape
<1>4. CASE c # NoId
  <2> DEFINE p == [page EXCEPT !.status = "ready", !.id = c]
  <2>1. Render(p) /\ store' = Saved(store, p) /\ url' = c
    BY <1>2, <1>4
  <2>2. c \in Ids /\ c \in MaybeId
    BY <1>4 DEF MaybeId
  <2>3. p \in PageType /\ p.id = c
    BY <2>2, ShapeFacts, TypedPageIs
  <2> HIDE DEF p
  <2>4. store' \in [Kinds -> StoreType]
    BY <2>1, <2>3, ShapeFacts, SavedType
  <2> QED  BY <1>1, <2>1, <2>2, <2>3, <2>4, ShapeFacts, RenderShape
<1> QED  BY <1>3, <1>4

\* The steps that only render the page again.
LEMMA AgainShape ==
  ASSUME ShapeInv, TryAgain \/ EnableSharing \/ CopyShareUrl \/ CopyShown
  PROVE  PageTypes' /\ Placed'
<1>1. CASE TryAgain
  <2>1. "share" \in Kinds
    BY DEF Kinds
  <2> QED  BY <1>1, <2>1, ShapeFacts, IdlePageIs, RenderShape DEF TryAgain
<1>2. CASE EnableSharing
  <2> DEFINE p == [page EXCEPT !.share = "on"]
  <2>1. p \in PageType /\ p.status = page.status /\ p.id = page.id
    BY ShapeFacts, PageFields
  <2> HIDE DEF p
  <2>2. /\ Render(p) /\ store' = Saved(store, p)
        /\ UNCHANGED <<leaving, url, reqs, stops, session, patient>>
    BY <1>2 DEF EnableSharing, p
  <2>3. store' \in [Kinds -> StoreType]
    BY <2>1, <2>2, ShapeFacts, SavedType
  <2> QED  BY <2>1, <2>2, <2>3, ShapeFacts, RenderShape
<1>3. CASE CopyShareUrl \/ CopyShown
  <2>1. PICK b \in BOOLEAN :
          /\ Render([page EXCEPT !.copied = b])
          /\ UNCHANGED <<leaving, url, store, reqs, stops, session, patient>>
    BY <1>3 DEF CopyShareUrl, CopyShown
  <2> QED  BY <2>1, ShapeFacts, PageFields, RenderShape
<1> QED  BY <1>1, <1>2, <1>3

\* handleDisconnect of the page.
LEMMA LeaveShape ==
  ASSUME ShapeInv, NEW k \in Kinds, NEW id \in MaybeId, NEW live,
         Leave(k, id, live), leaving' \subseteq LeavingType
  PROVE  PageTypes' /\ Placed'
<1>1. UNCHANGED <<reqs, session, patient>> /\ url' = NoId
  BY DEF Leave
<1>2. stops' \subseteq Ids
  BY ShapeFacts DEF Leave, MaybeId
<1>3. store' \in [Kinds -> StoreType]
  <2>1. Nothing \in StoreType
    BY DEF Nothing, StoreType, MaybeId, Sharing
  <2> QED  BY <2>1, ShapeFacts DEF Leave
<1>4. CASE live
  BY <1>1, <1>2, <1>3, <1>4, ShapeFacts, IdlePageIs, RenderShape DEF Leave
<1>5. CASE ~live
  BY <1>1, <1>2, <1>3, <1>5, ShapeFacts, QuietShape DEF Leave
<1> QED  BY <1>4, <1>5

\* The button, and the two timers.
LEMMA LeavingShape ==
  ASSUME ShapeInv, ClickDisconnect \/ LossTimer \/ LeaveTimer
  PROVE  PageTypes' /\ Placed'
<1>1. CASE ClickDisconnect \/ LossTimer
  BY <1>1, ShapeFacts, LeaveShape DEF ClickDisconnect, LossTimer
<1>2. CASE LeaveTimer
  <2>1. PICK l \in leaving : leaving' = leaving \ {l} /\ Leave(l.kind, l.id, l.live)
    BY <1>2 DEF LeaveTimer
  <2>2. l \in LeavingType /\ leaving' \subseteq LeavingType
    BY <2>1, ShapeFacts
  <2>3. l.kind \in Kinds /\ l.id \in MaybeId
    BY <2>2 DEF LeavingType, MaybeId
  <2> QED  BY <2>1, <2>2, <2>3, LeaveShape
<1> QED  BY <1>1, <1>2

\* The client and the servers.
LEMMA OutsideShape ==
  ASSUME ShapeInv,
         \/ SameLink \/ PanelDone \/ ClientStep \/ StopServed
         \/ \E c \in Ids : SessionStarts(c) \/ SessionEnds(c)
  PROVE  PageTypes' /\ Placed'
<1>1. CASE SameLink
  BY <1>1, ShapeFacts, QuietShape DEF SameLink, clientVars
<1>2. CASE PanelDone
  <2>1. UNCHANGED pageVars /\ AnimationDone(page.kind, page.id)
    BY <1>2 DEF PanelDone
  <2>2. page.status = "ready" /\ page.id \in Ids
    BY <2>1, ShapeFacts, ClientStays
  <2>3. leaving' \subseteq LeavingType
    <3>1. [kind |-> page.kind, id |-> page.id, live |-> TRUE] \in LeavingType
      BY <2>2, ShapeFacts DEF LeavingType
    <3> QED  BY <2>1, <3>1, ShapeFacts DEF AnimationDone
  <2> QED
    BY <2>1, <2>2, <2>3 DEF ShapeInv, PageTypes, Placed, pageVars
<1>3. CASE ClientStep
  <2>1. UNCHANGED pageVars /\ UNCHANGED leaving
    BY <1>3 DEF ClientStep, TunnelOpens, TunnelUnstable, TunnelFails, Reconnect,
                WindowResizes, PressDisconnect, PanelRests
  <2>2. page.status = "ready"
    BY <1>3, ShapeFacts, ClientStays DEF ClientStep
  <2> QED  BY <2>1, <2>2 DEF ShapeInv, PageTypes, Placed, pageVars
<1>4. CASE StopServed
  <2>1. PICK c \in stops, arrives \in BOOLEAN :
          /\ stops' = stops \ {c}
          /\ session' = IF arrives THEN [session EXCEPT ![c] = "stopped"] ELSE session
          /\ UNCHANGED <<clientVars, page, url, store, reqs, patient>>
    BY <1>4 DEF StopServed
  <2>2. session' \in [Ids -> {"new", "running", "stopped"}]
    BY <2>1, ShapeFacts
  <2> QED  BY <2>1, <2>2, ShapeFacts, QuietShape DEF clientVars
<1>5. CASE \E c \in Ids : SessionStarts(c) \/ SessionEnds(c)
  <2>1. session' \in [Ids -> {"new", "running", "stopped"}]
    BY <1>5, ShapeFacts DEF SessionStarts, SessionEnds
  <2>2. UNCHANGED <<clientVars, page, url, store, reqs, stops, patient>>
    BY <1>5 DEF SessionStarts, SessionEnds
  <2> QED  BY <2>1, <2>2, ShapeFacts, QuietShape DEF clientVars
<1> QED  BY <1>1, <1>2, <1>3, <1>4, <1>5

\* Every step of the page keeps its shape.
LEMMA ShapeStep ==
  ASSUME ShapeInv, PageNext
  PROVE  ShapeInv'
<1>1. ClientInv'
  BY PageStep DEF ShapeInv
<1>2. PageTypes' /\ Placed'
  BY MountShape, AskShape, AnswerShape, SubmitShape, AgainShape, LeavingShape,
     OutsideShape
  DEF PageNext
<1> QED  BY <1>1, <1>2 DEF ShapeInv

\* The shape of the page, whoever uses it.
LEMMA ShapeInvariant == FrontSpec => []ShapeInv
<1>1. FrontInit => PageTypes /\ Placed
  <2> SUFFICES ASSUME FrontInit PROVE PageTypes /\ Placed
    OBVIOUS
  <2>1. "office" \in Kinds /\ NoId \in MaybeId /\ Nothing \in StoreType
    BY DEF Kinds, MaybeId, Nothing, StoreType, Sharing
  <2>2. page = IdlePage("office") /\ client = NoClient /\ leaving = {} /\ reqs = {}
    BY DEF FrontInit, PageInit, ClientInit
  <2>3. page \in PageType /\ page.status = "idle"
    BY <2>1, <2>2, IdlePageIs
  <2> QED
    BY <2>1, <2>2, <2>3 DEF FrontInit, PageInit, PageTypes, Placed
<1>2. ShapeInv /\ [FrontNext]_frontVars => (PageTypes /\ Placed)'
  <2> SUFFICES ASSUME ShapeInv, [FrontNext]_frontVars PROVE (PageTypes /\ Placed)'
    OBVIOUS
  <2>1. CASE InPage(PageNext)
    BY <2>1, ShapeStep DEF InPage, ShapeInv
  <2>2. CASE UNCHANGED tabVars
    BY <2>2 DEF tabVars, clientVars, pageVars, ShapeInv, PageTypes, Placed
  <2> QED
    BY <2>1, <2>2 DEF FrontNext, InPage, InAuth, InPanel, InPointer, frontVars
<1>3. ClientInv /\ PageTypes /\ Placed => ShapeInv
  BY DEF ShapeInv
<1> QED  BY <1>1, <1>2, <1>3, ClientInvariant, PTL DEF FrontSpec

(***************************************************************************)
(* A patient user. He starts nothing before his last click has settled, so   *)
(* a page that asks for a session has nothing else under way, a ready page   *)
(* and what is stored of it name the same session, and a page that has let   *)
(* go of its session has forgotten it in all three places. Requests that     *)
(* end a session are on their way only while such a page is shown.          *)
(***************************************************************************)
ReadyKept ==
  page.status = "ready" =>
    /\ store[page.kind].id = page.id
    /\ url \in {NoId, page.id}
    /\ stops = {}
    /\ \A l \in leaving : l.id = page.id

IdleForgot ==
  page.status = "idle" \/ (page.status = "error" /\ page.kind = "share") =>
    url = NoId /\ store[page.kind].id = NoId

OthersRest ==
  /\ page.status # "ready" => page.id = NoId
  /\ page.status \in {"creating", "error"} => leaving = {} /\ stops = {}

OneAsked ==
  /\ \A r \in reqs :
       /\ r.live /\ page.status = "creating" /\ page.kind # "share"
       /\ url \in (IF r.op = "deploy" THEN {NoId} ELSE {NoId, r.id})
  /\ \A r, s \in reqs : r = s

LeavingOwn == \A l \in leaving : l.live /\ l.kind = page.kind

Habits == ReadyKept /\ IdleForgot /\ OthersRest /\ OneAsked /\ LeavingOwn

PatientInv == patient => Habits

\* A navigation, a link or a load, from a page where everything has settled.
LEMMA MountHabits ==
  ASSUME ShapeInv, NEW k \in Kinds, NEW u \in MaybeId, Replace(Mounted(k, u)),
         reqs' = MountAsks(k, u), url' = MountTarget(k, u),
         leaving' = {}, stops' = {}
  PROVE  Habits'
<1> DEFINE p == Mounted(k, u)
           t == MountTarget(k, u)
<1>1. /\ p \in PageType /\ p.kind = k
      /\ \/ p.status = "idle" /\ t = NoId /\ p.id = NoId /\ reqs' = {}
         \/ p.status = "ready" /\ t \in Ids /\ p.id = t /\ reqs' = {}
         \/ /\ p.status = "creating" /\ t \in Ids /\ p.id = NoId
            /\ reqs' = {Join(t)}
            /\ k # "share"
  <2>1. MountAsks(k, u) # {} => k # "share"
    BY DEF MountAsks
  <2> QED  BY <2>1, ShapeFacts, MountedIs
<1>2. t = NoId => store[k].id = NoId
  BY DEF MountTarget
<1>3. url' = t
  OBVIOUS
<1> HIDE DEF p, t
<1>4. page' = p /\ store' = Saved(store, p)
  BY DEF Replace, p
<1>5. /\ p.status = "ready" => store'[k].id = p.id
      /\ p.status # "ready" => store' = store
  BY <1>1, <1>4, ShapeFacts, SavedType
<1>6. CASE p.status = "idle" /\ t = NoId /\ p.id = NoId /\ reqs' = {}
  BY <1>1, <1>2, <1>3, <1>4, <1>5, <1>6
  DEF Habits, ReadyKept, IdleForgot, OthersRest, OneAsked, LeavingOwn
<1>7. CASE p.status = "ready" /\ t \in Ids /\ p.id = t /\ reqs' = {}
  BY <1>1, <1>3, <1>4, <1>5, <1>7
  DEF Habits, ReadyKept, IdleForgot, OthersRest, OneAsked, LeavingOwn
<1>8. CASE /\ p.status = "creating" /\ t \in Ids /\ p.id = NoId
           /\ reqs' = {Join(t)} /\ k # "share"
  <2>1. Join(t).live /\ Join(t).op = "join" /\ Join(t).id = t
    BY <1>8, JoinType
  <2> QED
    BY <1>1, <1>3, <1>4, <1>8, <2>1
    DEF Habits, ReadyKept, IdleForgot, OthersRest, OneAsked, LeavingOwn
<1> QED  BY <1>1, <1>6, <1>7, <1>8

\* The navigations and loads of a patient user.
LEMMA MountsKeep ==
  ASSUME ShapeInv, Habits, patient,
         \/ \E k \in Kinds : Navigate(k)
         \/ \E k \in Kinds, c \in Ids : OpenLink(k, c)
         \/ Reload
  PROVE  Habits'
<1>1. ASSUME NEW k \in Kinds, Navigate(k)
      PROVE  Habits'
  <2>1. Orphaned({}) = {}
    BY DEF Orphaned
  <2>2. /\ reqs' = MountAsks(k, NoId) /\ url' = MountTarget(k, NoId)
        /\ leaving' = {} /\ stops' = {} /\ Replace(Mounted(k, NoId))
    BY <1>1, <2>1 DEF Navigate, Settled
  <2> QED  BY <2>2, ShapeFacts, MountHabits
<1>2. ASSUME NEW k \in Kinds, NEW u \in MaybeId, Load(k, u)
      PROVE  Habits'
  <2>1. /\ reqs' = MountAsks(k, u) /\ url' = MountTarget(k, u)
        /\ leaving' = {} /\ stops' = {} /\ Replace(Mounted(k, u))
    BY <1>2 DEF Load, Settled
  <2> QED  BY <2>1, MountHabits
<1>3. page.kind \in Kinds /\ url \in MaybeId /\ Ids \subseteq MaybeId
  BY ShapeFacts DEF MaybeId
<1> QED  BY <1>1, <1>2, <1>3 DEF OpenLink, Reload

\* The buttons of an idle page that ask for a session.
LEMMA AsksKeep ==
  ASSUME ShapeInv, Habits, patient, Deploy \/ (\E c \in Ids : TypeJoin(c))
  PROVE  Habits'
<1> DEFINE p == [page EXCEPT !.status = "creating"]
<1>1. /\ p.status = "creating" /\ p.kind = page.kind /\ p.id = page.id
  BY ShapeFacts, PageFields
<1> HIDE DEF p
<1>2. /\ page.status = "idle" /\ page.kind # "share" /\ page' = p
      /\ reqs = {} /\ leaving' = {} /\ stops' = {} /\ url' = url
      /\ \E r : r.live /\ reqs' = reqs \cup {r}
  <2>1. CASE Deploy
    BY <2>1, RenderIs DEF Deploy, OffersDeploy, Settled, p
  <2>2. ASSUME NEW c \in Ids, TypeJoin(c)
        PROVE  /\ page.status = "idle" /\ page.kind # "share" /\ page' = p
               /\ reqs = {} /\ leaving' = {} /\ stops' = {} /\ url' = url
               /\ \E r : r.live /\ reqs' = reqs \cup {r}
    BY <2>2, RenderIs, JoinType DEF TypeJoin, OffersJoin, Settled, p
  <2> QED  BY <2>1, <2>2
<1>3. page.id = NoId /\ url' = NoId
  BY <1>2 DEF Habits, IdleForgot, OthersRest
<1> QED
  BY <1>1, <1>2, <1>3
  DEF Habits, ReadyKept, IdleForgot, OthersRest, OneAsked, LeavingOwn

\* The answers a patient user waits for.
LEMMA AnswersKeep ==
  ASSUME ShapeInv, Habits, patient, Answer
  PROVE  Habits'
<1>1. PICK r \in reqs : DeployAnswered(r) \/ ConnectAnswered(r)
  BY DEF Answer
<1>2. /\ r \in RequestType /\ (r.op # "deploy" => r.id \in Ids)
      /\ reqs = {r} /\ r.live /\ page.status = "creating" /\ page.kind # "share"
      /\ url \in (IF r.op = "deploy" THEN {NoId} ELSE {NoId, r.id})
      /\ page.id = NoId /\ leaving = {} /\ stops = {}
  BY ShapeFacts DEF Habits, OneAsked, OthersRest
<1>3. leaving' = {} /\ stops' = {}
  BY <1>1, <1>2 DEF DeployAnswered, ConnectAnswered
<1>4. ASSUME AnswerFails(r), reqs' = reqs \ {r}
      PROVE  Habits'
  <2> DEFINE e == [page EXCEPT !.status = "error"]
  <2>1. e.status = "error" /\ e.kind = page.kind /\ e.id = page.id
    BY ShapeFacts, PageFields
  <2>2. page' = e
    BY <1>2, <1>4, RenderIs DEF AnswerFails
  <2> HIDE DEF e
  <2>3. reqs' = {}
    BY <1>2, <1>4
  <2> QED
    BY <1>2, <1>3, <2>1, <2>2, <2>3
    DEF Habits, ReadyKept, IdleForgot, OthersRest, OneAsked, LeavingOwn
<1>5. ASSUME NEW c \in Ids, r.op = "deploy",
             reqs' = (reqs \ {r}) \cup {[r EXCEPT !.op = "connect", !.id = c]},
             UNCHANGED <<page, url>>
      PROVE  Habits'
  <2> DEFINE q == [r EXCEPT !.op = "connect", !.id = c]
  <2>1. q.op = "connect" /\ q.live
    BY <1>2 DEF RequestType
  <2>2. reqs' = {q}
    BY <1>2, <1>5
  <2> HIDE DEF q
  <2> QED
    BY <1>2, <1>3, <1>5, <2>1, <2>2
    DEF Habits, ReadyKept, IdleForgot, OthersRest, OneAsked, LeavingOwn
<1>6. ASSUME r.op # "deploy", reqs' = reqs \ {r},
             NEW sh \in Sharing,
             LET p == [page EXCEPT !.status = "ready", !.id = r.id, !.share = sh]
             IN  Render(p) /\ store' = Saved(store, p),
             url' = IF r.op = "connect" THEN r.id ELSE url
      PROVE  Habits'
  <2> DEFINE p == [page EXCEPT !.status = "ready", !.id = r.id, !.share = sh]
  <2>0. r.id \in Ids
    BY <1>2, <1>6
  <2>1. p \in PageType /\ p.status = "ready" /\ p.kind = page.kind /\ p.id = r.id
    BY <2>0, ShapeFacts, ReadyPageIs
  <2>2. page' = p /\ store' = Saved(store, p)
    BY <1>6, RenderIs
  <2> HIDE DEF p
  <2>3. store'[page.kind].id = r.id
    BY <2>1, <2>2, ShapeFacts, SavedType
  <2>4. reqs' = {} /\ url' \in {NoId, r.id}
    BY <1>2, <1>6
  <2> QED
    BY <1>3, <2>1, <2>2, <2>3, <2>4
    DEF Habits, ReadyKept, IdleForgot, OthersRest, OneAsked, LeavingOwn
<1>7. CASE DeployAnswered(r)
  BY <1>4, <1>5, <1>7 DEF DeployAnswered
<1>8. CASE ConnectAnswered(r)
  <2> DEFINE sh == IF r.op = "join" /\ page.kind = "office" THEN "joined" ELSE "off"
  <2>1. sh \in Sharing
    BY DEF Sharing
  <2>2. r.op # "deploy" /\ reqs' = reqs \ {r}
    BY <1>8 DEF ConnectAnswered
  <2>3. CASE AnswerFails(r)
    BY <1>4, <2>2, <2>3
  <2>4. CASE ~AnswerFails(r)
    <3>1. /\ LET p == [page EXCEPT !.status = "ready", !.id = r.id, !.share = sh]
             IN  Render(p) /\ store' = Saved(store, p)
          /\ url' = IF r.op = "connect" THEN r.id ELSE url
      BY <1>2, <1>8, <2>4 DEF ConnectAnswered
    <3> HIDE DEF sh
    <3> QED  BY <1>6, <2>1, <2>2, <3>1
  <2> QED  BY <2>3, <2>4
<1> QED  BY <1>1, <1>7, <1>8

\* The form of the share page.
LEMMA SubmitKeeps ==
  ASSUME ShapeInv, Habits, patient, ShareSubmit
  PROVE  Habits'
<1>1. /\ page.status = "idle" /\ page.kind = "share" /\ page.id = NoId
      /\ url = NoId /\ store[page.kind].id = NoId
      /\ reqs' = {} /\ leaving' = {} /\ stops' = {}
  BY DEF ShareSubmit, OffersShareForm, Settled, Habits, IdleForgot, OthersRest
<1>2. PICK c \in {x \in Ids : session[x] # "new" /\ x \notin stops} \cup {NoId} :
        LET p == IF c = NoId THEN [page EXCEPT !.status = "error"]
                 ELSE [page EXCEPT !.status = "ready", !.id = c]
        IN  /\ Render(p)
            /\ store' = Saved(store, p)
            /\ url' = IF c = NoId THEN url ELSE c
  BY DEF ShareSubmit
<1>3. CASE c = NoId
  <2> DEFINE p == [page EXCEPT !.status = "error"]
  <2>1. page' = p /\ store' = Saved(store, p) /\ url' = url
    BY <1>2, <1>3, RenderIs
  <2>2. p \in PageType /\ p.status = "error" /\ p.kind = page.kind /\ p.id = page.id
    BY ShapeFacts, PageFields
  <2> HIDE DEF p
  <2>3. store' = store
    BY <2>1, <2>2, ShapeFacts, SavedType
  <2> QED
    BY <1>1, <2>1, <2>2, <2>3
    DEF Habits, ReadyKept, IdleForgot, OthersRest, OneAsked, LeavingOwn
<1>4. CASE c # NoId
  <2> DEFINE p == [page EXCEPT !.status = "ready", !.id = c]
  <2>1. page' = p /\ store' = Saved(store, p) /\ url' = c
    BY <1>2, <1>4, RenderIs
  <2>2. p \in PageType /\ p.status = "ready" /\ p.kind = page.kind /\ p.id = c
    BY <1>4, ShapeFacts, TypedPageIs
  <2> HIDE DEF p
  <2>3. store'[page.kind].id = c
    BY <2>1, <2>2, ShapeFacts, SavedType
  <2> QED
    BY <1>1, <2>1, <2>2, <2>3
    DEF Habits, ReadyKept, IdleForgot, OthersRest, OneAsked, LeavingOwn
<1> QED  BY <1>3, <1>4

\* The steps that only render the page again.
LEMMA AgainKeeps ==
  ASSUME ShapeInv, Habits, TryAgain \/ EnableSharing \/ CopyShareUrl \/ CopyShown
  PROVE  Habits'
<1>1. ASSUME page'.kind = page.kind, page'.status = page.status, page'.id = page.id,
             store'[page.kind].id = store[page.kind].id,
             UNCHANGED <<leaving, url, reqs, stops>>
      PROVE  Habits'
  BY <1>1 DEF Habits, ReadyKept, IdleForgot, OthersRest, OneAsked, LeavingOwn
<1>2. CASE TryAgain
  <2>1. page' = IdlePage("share") /\ UNCHANGED <<leaving, url, store, reqs, stops>>
    BY <1>2, RenderIs DEF TryAgain
  <2>2. "share" \in Kinds /\ page.kind = "share" /\ page.status = "error"
    BY <1>2 DEF TryAgain, Kinds
  <2>3. page'.kind = "share" /\ page'.status = "idle" /\ page'.id = NoId
    BY <2>1, <2>2, IdlePageIs
  <2> QED
    BY <2>1, <2>2, <2>3
    DEF Habits, ReadyKept, IdleForgot, OthersRest, OneAsked, LeavingOwn
<1>3. CASE EnableSharing
  <2> DEFINE p == [page EXCEPT !.share = "on"]
  <2>1. /\ p \in PageType /\ p.kind = page.kind
        /\ p.status = page.status /\ p.id = page.id
    BY ShapeFacts, PageFields
  <2>2. /\ page.status = "ready" /\ page' = p /\ store' = Saved(store, p)
        /\ UNCHANGED <<leaving, url, reqs, stops>>
    BY <1>3, RenderIs DEF EnableSharing
  <2> HIDE DEF p
  <2>3. store'[page.kind].id = page.id /\ store[page.kind].id = page.id
    BY <2>1, <2>2, ShapeFacts, SavedType DEF Habits, ReadyKept
  <2> QED  BY <1>1, <2>1, <2>2, <2>3
<1>4. CASE CopyShareUrl \/ CopyShown
  <2>1. PICK b \in BOOLEAN :
          /\ page' = [page EXCEPT !.copied = b]
          /\ UNCHANGED <<leaving, url, store, reqs, stops>>
    BY <1>4, RenderIs DEF CopyShareUrl, CopyShown
  <2> QED  BY <1>1, <2>1, ShapeFacts, PageFields
<1> QED  BY <1>2, <1>3, <1>4

\* The button and the two timers leave the session the page shows or, once
\* the page has let go of it, no other one; the page is still there.
LEMMA LeavesOwn ==
  ASSUME ShapeInv, Habits, ClickDisconnect \/ LossTimer \/ LeaveTimer
  PROVE  /\ \E id \in MaybeId :
              /\ Leave(page.kind, id, TRUE)
              /\ page.status = "ready" => id = page.id
         /\ leaving' \subseteq leaving
         /\ page.status \in {"idle", "ready"}
<1>1. CASE ClickDisconnect
  BY <1>1, ShapeFacts DEF ClickDisconnect
<1>2. CASE LossTimer
  BY <1>2, ShapeFacts, ClientStays DEF LossTimer
<1>3. CASE LeaveTimer
  <2>1. PICK l \in leaving : leaving' = leaving \ {l} /\ Leave(l.kind, l.id, l.live)
    BY <1>3 DEF LeaveTimer
  <2>2. l.live \in BOOLEAN /\ l.id \in MaybeId
    BY ShapeFacts DEF LeavingType, MaybeId
  <2>3. l.live = TRUE /\ l.kind = page.kind
    BY <2>2 DEF Habits, LeavingOwn
  <2>4. page.status = "ready" => l.id = page.id
    BY DEF Habits, ReadyKept
  <2>5. page.status \in {"idle", "ready"}
    BY ShapeFacts DEF PageType, Habits, OthersRest
  <2> QED  BY <2>1, <2>2, <2>3, <2>4, <2>5
<1> QED  BY <1>1, <1>2, <1>3

\* A page that leaves its session has forgotten it.
LEMMA LeavesKeep ==
  ASSUME ShapeInv, Habits, ClickDisconnect \/ LossTimer \/ LeaveTimer
  PROVE  Habits'
<1>1. PICK id \in MaybeId : Leave(page.kind, id, TRUE)
  BY LeavesOwn
<1>2. leaving' \subseteq leaving /\ page.status \in {"idle", "ready"}
  BY LeavesOwn
<1>3. /\ page' = IdlePage(page.kind) /\ url' = NoId /\ reqs' = reqs
      /\ store'[page.kind].id = NoId
  BY <1>1, ShapeFacts, RenderIs DEF Leave, Nothing
<1>4. page'.status = "idle" /\ page'.kind = page.kind /\ page'.id = NoId
  BY <1>3, ShapeFacts, IdlePageIs
<1>5. reqs = {}
  BY <1>2 DEF Habits, OneAsked
<1> QED
  BY <1>2, <1>3, <1>4, <1>5
  DEF Habits, ReadyKept, IdleForgot, OthersRest, OneAsked, LeavingOwn

\* The client and the servers.
LEMMA OutsideKeeps ==
  ASSUME ShapeInv, Habits, patient,
         \/ SameLink \/ PanelDone \/ ClientStep \/ StopServed
         \/ \E c \in Ids : SessionStarts(c) \/ SessionEnds(c)
  PROVE  Habits'
<1>1. CASE SameLink
  BY <1>1
  DEF SameLink, Settled, clientVars, Habits, ReadyKept, IdleForgot, OthersRest,
      OneAsked, LeavingOwn
<1>2. CASE PanelDone
  <2>1. /\ UNCHANGED <<page, url, store, reqs, stops>>
        /\ page.status = "ready"
        /\ leaving' = leaving \cup {[kind |-> page.kind, id |-> page.id, live |-> TRUE]}
    BY <1>2, ShapeFacts, ClientStays DEF PanelDone, AnimationDone, pageVars
  <2> QED
    BY <2>1 DEF Habits, ReadyKept, IdleForgot, OthersRest, OneAsked, LeavingOwn
<1>3. CASE ClientStep \/ StopServed \/ \E c \in Ids : SessionStarts(c) \/ SessionEnds(c)
  <2>1. UNCHANGED <<page, url, store, reqs, leaving>> /\ stops' \subseteq stops
    BY <1>3 DEF ClientStep, TunnelOpens, TunnelUnstable, TunnelFails, Reconnect,
                WindowResizes, PressDisconnect, PanelRests, StopServed,
                SessionStarts, SessionEnds, clientVars, pageVars
  <2> QED
    BY <2>1 DEF Habits, ReadyKept, IdleForgot, OthersRest, OneAsked, LeavingOwn
<1> QED  BY <1>1, <1>2, <1>3

\* A user is patient from the start or never.
LEMMA PatienceStays ==
  ASSUME ShapeInv, PageNext
  PROVE  patient' = patient
<1>1. CASE Answer
  BY <1>1 DEF Answer, DeployAnswered, ConnectAnswered
<1>2. CASE ClickDisconnect \/ LossTimer \/ LeaveTimer
  BY <1>2 DEF ClickDisconnect, LossTimer, LeaveTimer, Leave
<1>3. CASE \/ \E k \in Kinds : Navigate(k)
           \/ SameLink
           \/ \E k \in Kinds, c \in Ids : OpenLink(k, c)
           \/ Reload
  BY <1>3 DEF Navigate, SameLink, OpenLink, Reload, Load
<1>4. CASE \/ Deploy \/ (\E c \in Ids : TypeJoin(c)) \/ ShareSubmit \/ TryAgain
           \/ EnableSharing \/ CopyShareUrl \/ CopyShown
  BY <1>4 DEF Deploy, TypeJoin, ShareSubmit, TryAgain, EnableSharing,
              CopyShareUrl, CopyShown
<1>5. CASE \/ PanelDone \/ ClientStep \/ StopServed
           \/ \E c \in Ids : SessionStarts(c) \/ SessionEnds(c)
  BY <1>5 DEF PanelDone, ClientStep, StopServed, SessionStarts, SessionEnds, pageVars
<1> QED  BY <1>1, <1>2, <1>3, <1>4, <1>5 DEF PageNext

\* Every step of a patient user's page.
LEMMA PatientStep ==
  ASSUME ShapeInv, PatientInv, PageNext
  PROVE  PatientInv'
<1> SUFFICES ASSUME patient PROVE Habits'
  BY PatienceStays DEF PatientInv
<1>1. Habits
  BY DEF PatientInv
<1> QED
  BY <1>1, MountsKeep, AsksKeep, AnswersKeep, SubmitKeeps, AgainKeeps, LeavesKeep,
     OutsideKeeps
  DEF PageNext

\* What a patient user may count on.
LEMMA PatientInvariant == FrontSpec => []PatientInv
<1>1. FrontInit => PatientInv
  <2> SUFFICES ASSUME FrontInit PROVE Habits
    BY DEF PatientInv
  <2>1. "office" \in Kinds
    BY DEF Kinds
  <2>2. /\ page = IdlePage("office") /\ url = NoId /\ leaving = {}
        /\ reqs = {} /\ stops = {} /\ store["office"].id = NoId
    BY <2>1 DEF FrontInit, PageInit, ClientInit, Nothing
  <2>3. page.kind = "office" /\ page.status = "idle" /\ page.id = NoId
    BY <2>1, <2>2, IdlePageIs
  <2> QED
    BY <2>2, <2>3
    DEF Habits, ReadyKept, IdleForgot, OthersRest, OneAsked, LeavingOwn
<1>2. ShapeInv /\ PatientInv /\ [FrontNext]_frontVars => PatientInv'
  <2> SUFFICES ASSUME ShapeInv, PatientInv, [FrontNext]_frontVars PROVE PatientInv'
    OBVIOUS
  <2>1. CASE InPage(PageNext)
    BY <2>1, PatientStep DEF InPage
  <2>2. CASE UNCHANGED tabVars
    BY <2>2
    DEF tabVars, clientVars, pageVars, PatientInv, Habits, ReadyKept, IdleForgot,
        OthersRest, OneAsked, LeavingOwn
  <2> QED
    BY <2>1, <2>2 DEF FrontNext, InPage, InAuth, InPanel, InPointer, frontVars
<1> QED  BY <1>1, <1>2, ShapeInvariant, PTL DEF FrontSpec

\* The URL and the stored copy never name another session than the one a
\* patient user sees: a reload of the page brings it back.
THEOREM ReloadsShowSame == FrontSpec => []ReloadShowsSame
<1>1. PatientInv => ReloadShowsSame
  BY DEF PatientInv, Habits, ReadyKept, ReloadShowsSame, MountTarget
<1> QED  BY <1>1, PatientInvariant, PTL

\* While the request that ends a session is on its way, a patient user does
\* not see the session, and no reload brings it back.
THEOREM StoppedAreForgotten == FrontSpec => []StoppedIsForgotten
<1>1. ShapeInv /\ PatientInv => StoppedIsForgotten
  <2> SUFFICES ASSUME ShapeInv, PatientInv, patient, NEW c \in stops
               PROVE  page.id # c /\ MountTarget(page.kind, url) # c
    BY DEF StoppedIsForgotten
  <2>1. c # NoId
    BY ShapeFacts, IdsAssumption
  <2>2. page.status = "idle"
    BY ShapeFacts DEF PageType, PatientInv, Habits, ReadyKept, OthersRest
  <2>3. page.id = NoId /\ url = NoId /\ store[page.kind].id = NoId
    BY <2>2 DEF PatientInv, Habits, IdleForgot, OthersRest
  <2> QED  BY <2>1, <2>3 DEF MountTarget
<1> QED  BY <1>1, ShapeInvariant, PatientInvariant, PTL

\* A step that forgets a stored session is one of those that leave it.
LEMMA ForgettingLeaves ==
  ASSUME ShapeInv, PageNext, NEW k \in Kinds,
         store[k].id # NoId, store'[k].id = NoId
  PROVE  ClickDisconnect \/ LossTimer \/ LeaveTimer
<1>1. ASSUME NEW p \in PageType, p.status = "ready" => p.id # NoId,
             store' = Saved(store, p)
      PROVE  FALSE
  BY <1>1, ShapeFacts, SavedType
<1>2. ASSUME NEW i \in Kinds, NEW u \in MaybeId, Replace(Mounted(i, u))
      PROVE  FALSE
  <2>1. /\ Mounted(i, u) \in PageType
        /\ Mounted(i, u).status = "ready" => Mounted(i, u).id # NoId
    BY ShapeFacts, MountedIs, IdsAssumption
  <2>2. store' = Saved(store, Mounted(i, u))
    BY <1>2 DEF Replace
  <2> QED  BY <1>1, <2>1, <2>2
<1>3. CASE \/ \E i \in Kinds : Navigate(i)
           \/ \E i \in Kinds, c \in Ids : OpenLink(i, c)
           \/ Reload
  <2>1. page.kind \in Kinds /\ url \in MaybeId /\ NoId \in MaybeId /\ Ids \subseteq MaybeId
    BY ShapeFacts DEF MaybeId
  <2> QED  BY <1>2, <1>3, <2>1 DEF Navigate, OpenLink, Reload, Load
<1>4. CASE Answer
  <2>1. PICK r \in reqs : DeployAnswered(r) \/ ConnectAnswered(r)
    BY <1>4 DEF Answer
  <2> DEFINE sh == IF r.op = "join" /\ page.kind = "office" THEN "joined" ELSE "off"
             p == [page EXCEPT !.status = "ready", !.id = r.id, !.share = sh]
  <2>2. store' = Saved(store, p) /\ r.op # "deploy"
    BY <2>1 DEF DeployAnswered, ConnectAnswered, AnswerFails
  <2>3. sh \in Sharing /\ r.id \in Ids
    BY <2>2, ShapeFacts DEF Sharing
  <2>4. p \in PageType /\ p.id = r.id
    <3> HIDE DEF sh
    <3> QED  BY <2>3, ShapeFacts, ReadyPageIs
  <2> HIDE DEF p
  <2> QED  BY <1>1, <2>2, <2>3, <2>4, IdsAssumption
<1>5. CASE ShareSubmit
  <2>1. PICK c \in Ids \cup {NoId} :
          store' = Saved(store, IF c = NoId THEN [page EXCEPT !.status = "error"]
                                ELSE [page EXCEPT !.status = "ready", !.id = c])
    BY <1>5 DEF ShareSubmit
  <2>2. CASE c = NoId
    <3> DEFINE p == [page EXCEPT !.status = "error"]
    <3>1. p \in PageType /\ p.status = "error" /\ store' = Saved(store, p)
      BY <2>1, <2>2, ShapeFacts, PageFields
    <3> QED  BY <1>1, <3>1
  <2>3. CASE c # NoId
    <3> DEFINE p == [page EXCEPT !.status = "ready", !.id = c]
    <3>1. p \in PageType /\ p.id = c /\ store' = Saved(store, p)
      BY <2>1, <2>3, ShapeFacts, TypedPageIs
    <3> HIDE DEF p
    <3> QED  BY <1>1, <2>3, <3>1
  <2> QED  BY <2>2, <2>3
<1>6. CASE EnableSharing
  <2> DEFINE p == [page EXCEPT !.share = "on"]
  <2>1. p \in PageType /\ p.id = page.id /\ page.id # NoId /\ store' = Saved(store, p)
    BY <1>6, ShapeFacts, PageFields, IdsAssumption DEF EnableSharing
  <2> QED  BY <1>1, <2>1
<1>7. CASE \/ SameLink \/ Deploy \/ (\E c \in Ids : TypeJoin(c)) \/ TryAgain
           \/ CopyShareUrl \/ CopyShown \/ PanelDone \/ ClientStep \/ StopServed
           \/ \E c \in Ids : SessionStarts(c) \/ SessionEnds(c)
  BY <1>7 DEF SameLink, Deploy, TypeJoin, TryAgain, CopyShareUrl, CopyShown,
              PanelDone, ClientStep, StopServed, SessionStarts, SessionEnds, pageVars
<1> QED  BY <1>3, <1>4, <1>5, <1>6, <1>7 DEF PageNext

\* No path forgets the session of an office or a browser page without asking
\* for its end.
THEOREM ForgottenAreStopped == FrontSpec => ForgottenIsStopped
<1> DEFINE A == \A k \in {"office", "browser"} :
                  patient /\ store[k].id # NoId /\ store'[k].id = NoId
                    => store[k].id \in stops'
<1>1. ShapeInv /\ PatientInv /\ [FrontNext]_frontVars => [A]_tabVars
  <2> SUFFICES ASSUME ShapeInv, PatientInv, InPage(PageNext), patient,
                      NEW k \in {"office", "browser"},
                      store[k].id # NoId, store'[k].id = NoId
               PROVE  store[k].id \in stops'
    BY DEF FrontNext, InAuth, InPanel, InPointer, InPage, frontVars
  <2>1. Habits /\ PageNext /\ k \in Kinds
    BY DEF PatientInv, InPage, Kinds
  <2>2. ClickDisconnect \/ LossTimer \/ LeaveTimer
    BY <2>1, ForgettingLeaves
  <2>3. PICK id \in MaybeId :
          /\ Leave(page.kind, id, TRUE)
          /\ page.status = "ready" => id = page.id
    BY <2>1, <2>2, LeavesOwn
  <2>4. /\ stops' = IF page.kind # "share" THEN stops \cup ({id} \ {NoId}) ELSE stops
        /\ store' = [store EXCEPT ![page.kind] = Nothing]
    BY <2>3 DEF Leave
  <2>5. k = page.kind
    BY <2>1, <2>4, ShapeFacts
  <2>6. page.status = "ready"
    BY <2>1, <2>2, <2>5, LeavesOwn DEF Habits, IdleForgot
  <2>7. store[page.kind].id = page.id
    BY <2>1, <2>6 DEF Habits, ReadyKept
  <2>8. id = page.id
    BY <2>3, <2>6
  <2>9. id = store[k].id
    BY <2>5, <2>7, <2>8
  <2>10. page.kind # "share"
    BY <2>5
  <2> QED  BY <2>4, <2>9, <2>10
<1> QED  BY <1>1, ShapeInvariant, PatientInvariant, PTL DEF FrontSpec, ForgottenIsStopped

(***************************************************************************)
(* Types. The pages, signing in and the wheel have theirs in invariants of   *)
(* their own; the panel and the mouse need the bounds of their timers.       *)
(***************************************************************************)
PanelTyped ==
  /\ PanelTypeOK
  /\ upload.busy => ticks < MaxUploads /\ history < MaxUploads
  /\ shares + fades <= MaxShares

\* The panel has a timer for each tick and each copy, and no more than the
\* uploads and the share requests it has been asked for.
LEMMA PanelTypesStep ==
  ASSUME PanelTyped, PanelNext
  PROVE  PanelTyped'
<1> USE PanelAssumption DEF PanelTyped, PanelTypeOK
<1>1. CASE ChooseFile \/ UploadAccepted \/ UploadFails \/ TickGoes
  <2>1. /\ upload' \in UploadType
        /\ UNCHANGED <<expanded, unfolded, logs, shares, copied, fades>>
    <3>1. /\ \A b, t, f \in BOOLEAN :
                [busy |-> b, ticked |-> t, failed |-> f] \in UploadType
          /\ upload = [busy |-> upload.busy, ticked |-> upload.ticked,
                       failed |-> upload.failed]
          /\ {upload.busy, upload.ticked, upload.failed} \subseteq BOOLEAN
      BY DEF UploadType
    <3>2. UNCHANGED <<expanded, unfolded, logs, shares, copied, fades>>
      BY <1>1 DEF ChooseFile, UploadAccepted, UploadFails, TickGoes
    <3>3. CASE ChooseFile
      BY <3>1, <3>2, <3>3 DEF ChooseFile
    <3>4. CASE UploadAccepted
      BY <3>2, <3>4 DEF UploadAccepted, UploadType
    <3>5. CASE UploadFails
      BY <3>2, <3>5 DEF UploadFails, UploadType
    <3>6. CASE TickGoes
      BY <3>2, <3>6 DEF TickGoes, UploadType
    <3> QED  BY <1>1, <3>3, <3>4, <3>5, <3>6
  <2>2. /\ ticks' \in 0..MaxUploads /\ history' \in 0..MaxUploads
        /\ upload'.busy => ticks' < MaxUploads /\ history' < MaxUploads
    <3>1. CASE ChooseFile
      BY <3>1 DEF ChooseFile
    <3>2. CASE UploadAccepted
      BY <3>2 DEF UploadAccepted, UploadType
    <3>3. CASE UploadFails
      BY <3>3 DEF UploadFails, UploadType
    <3>4. CASE TickGoes
      BY <3>4 DEF TickGoes, UploadType
    <3> QED  BY <1>1, <3>1, <3>2, <3>3, <3>4
  <2> QED  BY <2>1, <2>2
<1>2. CASE ToggleExpanded \/ ShowLogs \/ CloseLogs
           \/ \E i \in 1..MaxUploads : ToggleLog(i)
  <2>1. UNCHANGED <<upload, ticks, history, shares, copied, fades>>
    BY <1>2 DEF ToggleExpanded, ShowLogs, CloseLogs, ToggleLog
  <2>2. /\ {expanded', logs'} \subseteq BOOLEAN
        /\ unfolded' \subseteq 1..MaxUploads
    BY <1>2 DEF ToggleExpanded, ShowLogs, CloseLogs, ToggleLog
  <2> QED  BY <2>1, <2>2
<1>3. CASE ShareSession \/ ShareAnswered \/ CopyFades
  <2>1. UNCHANGED <<expanded, upload, ticks, history, unfolded, logs>>
    BY <1>3 DEF ShareSession, ShareAnswered, CopyFades
  <2>2. /\ copied' \in BOOLEAN
        /\ shares' \in 0..MaxShares /\ fades' \in 0..MaxShares
        /\ shares' + fades' <= MaxShares
    <3>1. /\ copied \in BOOLEAN /\ shares \in Nat /\ fades \in Nat
          /\ MaxShares \in Nat /\ shares + fades <= MaxShares
      OBVIOUS
    <3>2. CASE ShareSession
      BY <3>1, <3>2 DEF ShareSession
    <3>3. CASE ShareAnswered
      <4>1. /\ shares > 0 /\ shares' = shares - 1
            /\ \/ copied' = TRUE /\ fades' = fades + 1
               \/ copied' = copied /\ fades' = fades
        BY <3>3 DEF ShareAnswered
      <4>2. copied' \in BOOLEAN
        BY <3>1, <4>1
      <4>3. /\ shares' \in 0..MaxShares /\ fades' \in 0..MaxShares
            /\ shares' + fades' <= MaxShares
        <5>1. fades' = fades + 1 \/ fades' = fades
          BY <4>1
        <5> QED  BY <3>1, <4>1, <5>1
      <4> QED  BY <4>2, <4>3
    <3>4. CASE CopyFades
      <4>1. /\ fades > 0 /\ fades' = fades - 1 /\ shares' = shares
            /\ copied' = FALSE
        BY <3>4 DEF CopyFades
      <4>2. copied' \in BOOLEAN
        BY <4>1
      <4>3. /\ shares' \in 0..MaxShares /\ fades' \in 0..MaxShares
            /\ shares' + fades' <= MaxShares
        BY <3>1, <4>1
      <4> QED  BY <4>2, <4>3
    <3> QED  BY <1>3, <3>2, <3>3, <3>4
  <2> QED  BY <2>1, <2>2
<1> QED  BY <1>1, <1>2, <1>3 DEF PanelNext

\* What PointerTypeOK says of the mouse, without the wheel.
MouseTyped ==
  /\ inside \in BOOLEAN
  /\ pressed \subseteq Buttons /\ sent \subseteq Buttons
  /\ ignoring \in 0..TouchMouseThreshold

\* The counter of ignored events only counts down from the threshold.
LEMMA MouseTypesStep ==
  ASSUME MouseTyped, PointerNext
  PROVE  MouseTyped'
<1> USE PointerAssumption DEF MouseTyped, HandleMouseState
<1>1. CASE MouseMove
  BY <1>1 DEF MouseMove
<1>2. CASE \E b \in Buttons : MouseDown(b) \/ MouseUp(b)
  BY <1>2 DEF MouseDown, MouseUp
<1>3. CASE MouseOut
  BY <1>3 DEF MouseOut
<1>4. CASE Touch
  <2>1. ignoring' \in 0..TouchMouseThreshold
    BY <1>4 DEF Touch
  <2> QED  BY <1>4, <2>1 DEF Touch
<1>5. CASE \E t \in Turns : Wheel(t)
  <2>1. UNCHANGED <<inside, pressed, ignoring>> /\ sent' \in {pressed, sent}
    BY <1>5 DEF Wheel
  <2> QED  BY <2>1
<1> QED  BY <1>1, <1>2, <1>3, <1>4, <1>5 DEF PointerNext

LEMMA TypesInvariant ==
  FrontSpec => [](focus \in Parts /\ PanelTyped /\ MouseTyped)
<1>1. FrontInit => focus \in Parts /\ PanelTyped /\ MouseTyped
  <2> SUFFICES ASSUME FrontInit
               PROVE  focus \in Parts /\ PanelTyped /\ MouseTyped
    OBVIOUS
  <2>1. focus \in Parts /\ PanelInit /\ PointerInit
    BY DEF FrontInit
  <2>2. PanelTyped
    <3>1. /\ upload = [busy |-> FALSE, ticked |-> FALSE, failed |-> FALSE]
          /\ {expanded, logs, copied} \subseteq BOOLEAN
          /\ unfolded \subseteq 1..MaxUploads
      BY <2>1 DEF PanelInit
    <3>2. upload \in UploadType /\ ~upload.busy
      BY <3>1 DEF UploadType
    <3>3. /\ ticks \in 0..MaxUploads /\ history \in 0..MaxUploads
          /\ shares \in 0..MaxShares /\ fades \in 0..MaxShares
          /\ shares + fades <= MaxShares
      BY <2>1, PanelAssumption DEF PanelInit
    <3> QED  BY <3>1, <3>2, <3>3 DEF PanelTyped, PanelTypeOK
  <2>3. MouseTyped
    <3>1. ignoring \in 0..TouchMouseThreshold
      BY <2>1, PointerAssumption DEF PointerInit
    <3>2. inside \in BOOLEAN /\ pressed \subseteq Buttons /\ sent \subseteq Buttons
      BY <2>1 DEF PointerInit
    <3> QED  BY <3>1, <3>2 DEF MouseTyped
  <2> QED  BY <2>1, <2>2, <2>3
<1>2. /\ focus \in Parts /\ PanelTyped /\ MouseTyped
      /\ [FrontNext]_frontVars
      => (focus \in Parts /\ PanelTyped /\ MouseTyped)'
  <2> SUFFICES ASSUME focus \in Parts, PanelTyped, MouseTyped,
                      [FrontNext]_frontVars
               PROVE  (focus \in Parts /\ PanelTyped /\ MouseTyped)'
    OBVIOUS
  <2>1. focus' = focus
    BY DEF FrontNext, InPage, InAuth, InPanel, InPointer, frontVars
  <2>2. PanelTyped'
    <3>1. CASE UNCHANGED panelVars
      BY <3>1 DEF panelVars, PanelTyped, PanelTypeOK
    <3> QED
      BY <3>1, PanelTypesStep
      DEF FrontNext, InPage, InAuth, InPanel, InPointer, frontVars
  <2>3. MouseTyped'
    <3>1. CASE UNCHANGED pointerVars
      BY <3>1 DEF pointerVars, MouseTyped
    <3> QED
      BY <3>1, MouseTypesStep
      DEF FrontNext, InPage, InAuth, InPanel, InPointer, frontVars
  <2> QED  BY <2>1, <2>2, <2>3
<1> QED  BY <1>1, <1>2, PTL DEF FrontSpec

\* Every variable of the frontend keeps its type.
THEOREM FrontTypes == FrontSpec => []FrontTypeOK
<1>1. /\ ShapeInv /\ AuthInv /\ WheelInv
      /\ focus \in Parts /\ PanelTyped /\ MouseTyped
      => FrontTypeOK
  BY DEF ShapeInv, ClientInv, ClientOK, PageTypes, Live, AuthInv, WheelInv,
         PanelTyped, MouseTyped, FrontTypeOK, PageTypeOK, ClientTypeOK,
         PointerTypeOK
<1> QED  BY <1>1, ShapeInvariant, AuthInvariant, WheelInvariant, TypesInvariant, PTL

=============================================================================
