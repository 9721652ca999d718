----------------------------- MODULE KubeBrowse -----------------------------
(***************************************************************************)
(* The session lifecycle of the backend: deployments, tunnels, requests    *)
(* and the cleanup service around one Redis and one Kubernetes, with time  *)
(* and with restarts of the API process.                                   *)
(***************************************************************************)
EXTENDS TunnelConnect, SessionRequests, SessionCleanup

(***************************************************************************)
(* Redis commands of one handler follow each other without the wait of a   *)
(* timer: time does not pass between them.  It passes during a handshake,  *)
(* while a websocket is open, and between the steps of the background      *)
(* goroutines.                                                             *)
(***************************************************************************)
NoHandlerMidway ==
    /\ \A c \in Conns : conn[c].pc \in {"idle", "failed", "dead",
                                        "handshake", "open", "closed"}
    /\ \A r \in Reqs : req[r].pc \notin (SharePC \cup ExtendPC)

Tick ==
    /\ NoHandlerMidway
    /\ \A s \in Sessions : RedisTTL(session[s]) # 0
    /\ session' = [s \in Sessions |-> AgeKey(session[s])]
    /\ reconnect' = [s \in Sessions |-> Elapse(reconnect[s])]
    /\ watcher' = [c \in Conns |->
                     [watcher[c] EXCEPT !.timer = Elapse(@)]]
    /\ UNCHANGED <<pod, deploy, conn, tunnels, params, registry,
                   monitor, sweep, req, crashes>>

(* Redis drops a key whose time is over. *)
Expire(s) ==
    /\ RedisTTL(session[s]) = 0
    /\ DelSession(s)
    /\ UNCHANGED <<reconnect, pod, deploy, conn, tunnels, params, registry,
                   monitor, sweep, watcher, req, crashes>>

(***************************************************************************)
(* The API process stops (Stop cancels the monitors on the way) or dies,   *)
(* and starts again with empty maps: tunnels, monitors, watchers and       *)
(* requests are gone, Redis and the pods are not.  main registers nothing  *)
(* it finds in Redis.                                                      *)
(***************************************************************************)
Crash ==
    /\ crashes < MaxCrashes
    /\ crashes' = crashes + 1
    /\ deploy' = [s \in Sessions |->
         IF deploy[s] \in {"wait", "store"} THEN "failed" ELSE deploy[s]]
    /\ conn' = [c \in Conns |->
         IF conn[c].pc = "idle" THEN conn[c]
         ELSE [IdleConn EXCEPT !.pc = "dead", !.s = conn[c].s]]
    /\ tunnels' = {}
    /\ params' = {}
    /\ registry' = [s \in Sessions |-> NoConn]
    /\ monitor' = [c \in Conns |-> NoMonitor]
    /\ sweep' = IdleSweep
    /\ watcher' = [c \in Conns |-> NoWatcher]
    /\ req' = [r \in Reqs |->
         IF req[r].pc = "idle" THEN req[r]
         ELSE [IdleReq EXCEPT !.pc = "refused", !.s = req[r].s]]
    /\ UNCHANGED <<session, reconnect, pod>>

-----------------------------------------------------------------------------
DeployStep(s) == DeployNotReady(s) \/ DeployReady(s) \/ DeployStore(s)

(* What the handler of c does by itself once the client has connected. *)
ConnStep(c) ==
    \/ ConnectFresh(c) \/ ConnectReconnect(c) \/ ConnectClear(c)
    \/ ConnectTTL(c) \/ ConnectSet(c)
    \/ HandshakeFails(c) \/ HandshakeDone(c)
    \/ UpdateGet(c) \/ UpdateTTL(c) \/ UpdateSet(c) \/ RegisterSession(c)
    \/ DisconnectGet(c) \/ DisconnectTTL(c) \/ DisconnectSet(c)
    \/ DisconnectKey(c) \/ CloseTunnel(c)

WatcherStep(c) ==
    \/ WatcherPreserve(c) \/ WatcherReap(c)
    \/ WatcherDeletePod(c) \/ WatcherDeleteKeys(c)

ReqArrives(r, s) ==
    ShareGet(r, s) \/ ExtendRequest(r, s) \/ StopGet(r, s) \/ JoinGet(r, s)

ReqStep(r) ==
    \/ ShareTTL(r) \/ ShareSet(r)
    \/ ExtendCheck(r) \/ ExtendGet(r) \/ ExtendSet(r)
    \/ StopPod(r) \/ StopKey(r)
    \/ JoinCheck(r) \/ JoinDial(r)

MonitorStep(c) ==
    \/ MonitorExpired(c) \/ MonitorCancelled(c) \/ MonitorDeletePod(c)
    \/ MonitorDeleteKey(c) \/ MonitorUnregister(c)

SweepStep ==
    \/ SweepStart \/ (\E c \in Conns : SweepCheck(c))
    \/ SweepDeletePod \/ SweepDeleteKey \/ SweepUnregister

Next ==
    \/ \E s \in Sessions : DeployCreate(s) \/ DeployStep(s) \/ Expire(s)
    \/ \E c \in Conns, s \in Sessions : ConnectGet(c, s)
    \/ \E c \in Conns : ConnStep(c) \/ Disconnect(c) \/ WatcherStep(c)
                        \/ MonitorStep(c)
    \/ \E r \in Reqs, s \in Sessions : ReqArrives(r, s)
    \/ \E r \in Reqs : ReqStep(r)
    \/ SweepStep
    \/ Tick
    \/ Crash

Spec == Init /\ [][Next]_vars

(***************************************************************************)
(* Clients owe nothing: no fairness on DeployCreate, ConnectGet,           *)
(* Disconnect or ReqArrives.  A goroutine that can go on does; the         *)
(* handshake ends (its context expires after 45 seconds); timers run and   *)
(* Redis expires keys.                                                     *)
(***************************************************************************)
Fairness ==
    /\ WF_vars(Tick)
    /\ WF_vars(SweepStep)
    /\ \A s \in Sessions : WF_vars(DeployStep(s)) /\ WF_vars(Expire(s))
    /\ \A c \in Conns : /\ WF_vars(ConnStep(c)) /\ WF_vars(WatcherStep(c))
                        /\ WF_vars(MonitorStep(c))
    /\ \A r \in Reqs : WF_vars(ReqStep(r))

FairSpec == Spec /\ Fairness
=============================================================================
