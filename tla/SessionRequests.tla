-------------------------- MODULE SessionRequests --------------------------
(***************************************************************************)
(* The HTTP requests on a session that exists, and the viewers of a shared *)
(* one.  Each is read-modify-write on Redis without a transaction: one     *)
(* action per command.                                                     *)
(***************************************************************************)
EXTENDS SessionState

reqRedisVars == <<reconnect, pod, deploy, conn, tunnels, params, registry,
                  monitor, sweep, watcher, crashes>>

(* An unused slot takes a request on s; the client knows s by then. *)
Arrives(r, s) == req[r].pc = "idle" /\ deploy[s] = "done"

(* The handler answers; result says how it ended. *)
Answer(r, result) ==
    req' = [req EXCEPT ![r].pc = result, ![r].data = NoData, ![r].ttl = 0]

-----------------------------------------------------------------------------
(* HandlerShareSession.                                                    *)

ShareGet(r, s) ==
    /\ Arrives(r, s)
    /\ LET key == session[s]
       IN \/ key = NoKey /\ req' = [req EXCEPT ![r].pc = "refused", ![r].s = s]
          \/ /\ key # NoKey
             /\ req' = [req EXCEPT ![r].pc = "shareTTL", ![r].s = s,
                                   ![r].data = key.data]
    /\ UNCHANGED session /\ UNCHANGED reqRedisVars

(***************************************************************************)
(* TTL.  The handler compares the reply with -2s and -1s, which go-redis   *)
(* never returns: the two codes go through to SET as they are.  A session  *)
(* already shared is left alone.                                           *)
(***************************************************************************)
ShareTTL(r) ==
    /\ req[r].pc = "shareTTL"
    /\ \/ req[r].data.share /\ Answer(r, "shared")
       \/ /\ ~req[r].data.share
          /\ req' = [req EXCEPT ![r].pc = "shareSet",
                                ![r].data = [@ EXCEPT !.share = TRUE],
                                ![r].ttl = RedisTTL(session[req[r].s])]
    /\ UNCHANGED session /\ UNCHANGED reqRedisVars

ShareSet(r) ==
    /\ req[r].pc = "shareSet"
    /\ SetSession(req[r].s, req[r].data, req[r].ttl)
    /\ Answer(r, "shared")
    /\ UNCHANGED reqRedisVars

-----------------------------------------------------------------------------
(* HandlerExtendSession: CanExtendSession, then ExtendSession.             *)

(* Wrong on purpose: at any time of the session. *)
CanExtend_Always(key) == RedisTTL(key) > 0

CanExtend(key) == RedisTTL(key) \in 1..SessionTTL

(* The first check, by the handler. *)
ExtendRequest(r, s) ==
    /\ Arrives(r, s)
    /\ \/ /\ ~CanExtend(session[s])
          /\ req' = [req EXCEPT ![r].pc = "refused", ![r].s = s]
       \/ /\ CanExtend(session[s])
          /\ req' = [req EXCEPT ![r].pc = "extendCheck", ![r].s = s]
    /\ UNCHANGED session /\ UNCHANGED reqRedisVars

(* The second check, by ExtendSession, whose reply the new TTL starts from. *)
ExtendCheck(r) ==
    /\ req[r].pc = "extendCheck"
    /\ LET key == session[req[r].s]
       IN \/ ~CanExtend(key) /\ Answer(r, "refused")
          \/ /\ CanExtend(key)
             /\ \E extension \in Extensions :
                  req' = [req EXCEPT ![r].pc = "extendGet",
                                     ![r].ttl = RedisTTL(key) + extension]
    /\ UNCHANGED session /\ UNCHANGED reqRedisVars

ExtendGet(r) ==
    /\ req[r].pc = "extendGet"
    /\ LET key == session[req[r].s]
       IN \/ key = NoKey /\ Answer(r, "refused")
          \/ /\ key # NoKey
             /\ req' = [req EXCEPT ![r].pc = "extendSet",
                                   ![r].data = key.data]
    /\ UNCHANGED session /\ UNCHANGED reqRedisVars

(* ExpireAt in the document stays what it was. *)
ExtendSet(r) ==
    /\ req[r].pc = "extendSet"
    /\ SetSession(req[r].s, req[r].data, req[r].ttl)
    /\ Answer(r, "extended")
    /\ UNCHANGED reqRedisVars

-----------------------------------------------------------------------------
(* stopWSSession.  GetTunnelByUUID looks a guacd connection id up among    *)
(* the HTTP tunnels, whose keys are their own uuids: it finds nothing, and *)
(* the websocket stays open.                                               *)

StopGet(r, s) ==
    /\ Arrives(r, s)
    /\ \/ /\ session[s] = NoKey
          /\ req' = [req EXCEPT ![r].pc = "refused", ![r].s = s]
       \/ /\ session[s] # NoKey
          /\ req' = [req EXCEPT ![r].pc = "stopPod", ![r].s = s]
    /\ UNCHANGED session /\ UNCHANGED reqRedisVars

StopPod(r) ==
    /\ req[r].pc = "stopPod"
    /\ DeletePod(req[r].s)
    /\ req' = [req EXCEPT ![r].pc = "stopKey"]
    /\ UNCHANGED <<session, reconnect, deploy, conn, tunnels, params,
                   registry, monitor, sweep, watcher, crashes>>

StopKey(r) ==
    /\ req[r].pc = "stopKey"
    /\ DelSession(req[r].s)
    /\ Answer(r, "stopped")
    /\ UNCHANGED reqRedisVars

-----------------------------------------------------------------------------
(* DoConnectShare: a viewer joins the tunnel the session names.            *)

(* GetTunnelConnectionID finds one. *)
HasTunnel(key) == key # NoKey /\ key.data.tunnel # NoConn

JoinGet(r, s) ==
    /\ Arrives(r, s)
    /\ LET key == session[s]
       IN \/ /\ ~HasTunnel(key)
             /\ req' = [req EXCEPT ![r].pc = "refused", ![r].s = s]
          \/ /\ HasTunnel(key)
             /\ req' = [req EXCEPT ![r].pc = "joinCheck", ![r].s = s,
                                   ![r].data = key.data]
    /\ UNCHANGED session /\ UNCHANGED reqRedisVars

JoinCheck(r) ==
    /\ req[r].pc = "joinCheck"
    /\ \/ /\ req[r].data.tunnel \notin tunnels \/ req[r].s \notin params
          /\ Answer(r, "refused")
       \/ /\ req[r].data.tunnel \in tunnels /\ req[r].s \in params
          /\ req' = [req EXCEPT ![r].pc = "joinDial"]
    /\ UNCHANGED session /\ UNCHANGED reqRedisVars

(* guacd knows the connection only while its owner's tunnel is open. *)
JoinDial(r) ==
    /\ req[r].pc = "joinDial"
    /\ \/ Answer(r, "refused")
       \/ TunnelOpen(req[r].data.tunnel) /\ Answer(r, "joined")
    /\ UNCHANGED session /\ UNCHANGED reqRedisVars
=============================================================================
