--------------------------- MODULE TunnelConnect ---------------------------
(***************************************************************************)
(* One websocket tunnel c: the deployment that precedes it, DemoDoConnect, *)
(* the life of the websocket, OnDisconnect, and the goroutine OnDisconnect *)
(* leaves behind to watch for a reconnection.  Every action is one command *)
(* on Redis or Kubernetes together with what the code computes from the    *)
(* reply before the next one.                                              *)
(***************************************************************************)
EXTENDS SessionState

connRedisVars == <<reconnect, pod, deploy, tunnels, params, registry,
                   monitor, sweep, watcher, req, crashes>>

(* The handler c goes on at pc; nothing else of its state changes. *)
Goto(c, pc) == conn' = [conn EXCEPT ![c].pc = pc]

-----------------------------------------------------------------------------
(* DeployOffice, DeployBrowser: create the pod, wait for it, store.        *)

DeployCreate(s) ==
    /\ deploy[s] = "idle"
    /\ pod' = [pod EXCEPT ![s] = "running"]
    /\ deploy' = [deploy EXCEPT ![s] = "wait"]
    /\ UNCHANGED <<session, reconnect, conn, tunnels, params, registry,
                   monitor, sweep, watcher, req, crashes>>

(***************************************************************************)
(* WaitForPodReadyAndRDP gives up: it has deleted the pod of a failed      *)
(* container or of a timeout, but returns at once when the status cannot   *)
(* be read, and the pod stays.                                             *)
(***************************************************************************)
DeployNotReady(s) ==
    /\ deploy[s] = "wait"
    /\ DeletePod(s) \/ UNCHANGED pod
    /\ deploy' = [deploy EXCEPT ![s] = "failed"]
    /\ UNCHANGED <<session, reconnect, conn, tunnels, params, registry,
                   monitor, sweep, watcher, req, crashes>>

DeployReady(s) ==
    /\ deploy[s] = "wait"
    /\ params' = params \cup {s}
    /\ deploy' = [deploy EXCEPT ![s] = "store"]
    /\ UNCHANGED <<session, reconnect, pod, conn, tunnels, registry,
                   monitor, sweep, watcher, req, crashes>>

(* SET with expiration 0. *)
DeployStore(s) ==
    /\ deploy[s] = "store"
    /\ \E share \in BOOLEAN : SetSession(s, NewSession(share), 0)
    /\ deploy' = [deploy EXCEPT ![s] = "done"]
    /\ UNCHANGED <<reconnect, pod, conn, tunnels, params, registry,
                   monitor, sweep, watcher, req, crashes>>

-----------------------------------------------------------------------------
(* DemoDoConnect.                                                          *)

(* GET; the times are initialised in the handler's copy on the first use. *)
ConnectGet(c, s) ==
    /\ conn[c].pc = "idle"
    /\ deploy[s] = "done"
    /\ \/ /\ session[s] = NoKey
          /\ conn' = [conn EXCEPT ![c].pc = "failed", ![c].s = s]
       \/ /\ session[s] # NoKey
          /\ LET data == session[s].data
             IN conn' = [conn EXCEPT
                  ![c].pc = "exists", ![c].s = s, ![c].share = data.share,
                  ![c].data = IF data.expireAt = Unset
                              THEN [data EXCEPT !.expireAt = TimeoutDuration]
                              ELSE data]
    /\ UNCHANGED session /\ UNCHANGED connRedisVars

(* Wrong on purpose: an ExpireAt that has passed becomes SET's expiration. *)
ConnectFresh_NoDefault(c) ==
    /\ conn[c].pc = "exists"
    /\ reconnect[conn[c].s] = 0
    /\ conn' = [conn EXCEPT ![c].pc = "set",
                            ![c].ttl = conn[c].data.expireAt]
    /\ UNCHANGED session /\ UNCHANGED connRedisVars

(* No reconnect key: the time to store comes from ExpireAt. *)
ConnectFresh(c) ==
    /\ conn[c].pc = "exists"
    /\ reconnect[conn[c].s] = 0
    /\ LET left == conn[c].data.expireAt
       IN conn' = [conn EXCEPT
            ![c].pc = "set",
            ![c].ttl = IF left > 0 THEN left ELSE TimeoutDuration]
    /\ UNCHANGED session /\ UNCHANGED connRedisVars

ConnectReconnect(c) ==
    /\ conn[c].pc = "exists"
    /\ reconnect[conn[c].s] > 0
    /\ Goto(c, "clear")
    /\ UNCHANGED session /\ UNCHANGED connRedisVars

ConnectClear(c) ==
    /\ conn[c].pc = "clear"
    /\ reconnect' = [reconnect EXCEPT ![conn[c].s] = 0]
    /\ Goto(c, "ttl")
    /\ UNCHANGED <<session, pod, deploy, tunnels, params, registry,
                   monitor, sweep, watcher, req, crashes>>

(* A reconnection keeps the TTL of the key, or what ExpireAt says. *)
ConnectTTL(c) ==
    /\ conn[c].pc = "ttl"
    /\ LET ttl  == RedisTTL(session[conn[c].s])
           left == IF ttl > 0 THEN ttl ELSE conn[c].data.expireAt
       IN conn' = [conn EXCEPT
            ![c].pc = "set",
            ![c].ttl = IF left > 0 THEN left ELSE ReconnectMinimum]
    /\ UNCHANGED session /\ UNCHANGED connRedisVars

(* From here on only the Share flag of the copy is used. *)
ConnectSet(c) ==
    /\ conn[c].pc = "set"
    /\ SetSession(conn[c].s, conn[c].data, conn[c].ttl)
    /\ conn' = [conn EXCEPT ![c].pc = "handshake",
                            ![c].data = NoData, ![c].ttl = 0]
    /\ UNCHANGED connRedisVars

(* guacd refuses, is not there, or takes more than 45 seconds. *)
HandshakeFails(c) ==
    /\ conn[c].pc = "handshake"
    /\ Goto(c, "failed")
    /\ UNCHANGED session /\ UNCHANGED connRedisVars

(***************************************************************************)
(* The handshake selects config.ConnectionID if there is one, else the     *)
(* protocol.  sanitisedCfg is config itself: the id is cleared only when   *)
(* the session is not shared, and the session uuid that stays otherwise    *)
(* is no connection guacd knows.                                           *)
(***************************************************************************)
HandshakeDone(c) ==
    /\ conn[c].pc = "handshake"
    /\ ~conn[c].share
    /\ Goto(c, "updGet")
    /\ tunnels' = tunnels \cup {c}
    /\ params' = params \cup {c}
    /\ UNCHANGED <<session, reconnect, pod, deploy, registry,
                   monitor, sweep, watcher, req, crashes>>

(* UpdateSessionWithTunnelInfo: its error is logged by the caller. *)
UpdateGet(c) ==
    /\ conn[c].pc = "updGet"
    /\ LET key == session[conn[c].s]
       IN \/ key = NoKey /\ Goto(c, "register")
          \/ /\ key # NoKey
             /\ conn' = [conn EXCEPT
                  ![c].pc = "updTTL",
                  ![c].data = [key.data EXCEPT !.tunnel = c,
                                               !.share = conn[c].share]]
    /\ UNCHANGED session /\ UNCHANGED connRedisVars

(* TimeoutDuration is zero in a document whose times are unset. *)
UpdateTTL(c) ==
    /\ conn[c].pc = "updTTL"
    /\ LET ttl == RedisTTL(session[conn[c].s])
       IN conn' = [conn EXCEPT
            ![c].pc = "updSet",
            ![c].ttl = IF ttl >= 0 THEN ttl
                       ELSE IF conn[c].data.expireAt # Unset
                            THEN TimeoutDuration ELSE SessionTTL]
    /\ UNCHANGED session /\ UNCHANGED connRedisVars

UpdateSet(c) ==
    /\ conn[c].pc = "updSet"
    /\ SetSession(conn[c].s, conn[c].data, conn[c].ttl)
    /\ conn' = [conn EXCEPT ![c].pc = "register",
                            ![c].data = NoData, ![c].ttl = 0]
    /\ UNCHANGED connRedisVars

(* Wrong on purpose: forgets to cancel the monitor it replaces. *)
RegisterSession_NoCancel(c) ==
    /\ conn[c].pc = "register"
    /\ registry' = [registry EXCEPT ![conn[c].s] = c]
    /\ monitor' = [monitor EXCEPT
         ![c] = [pc |-> "watching", cancelled |-> FALSE]]
    /\ Goto(c, "open")
    /\ UNCHANGED <<session, reconnect, pod, deploy, tunnels, params,
                   sweep, watcher, req, crashes>>

(* RegisterSession, under the service's mutex. *)
RegisterSession(c) ==
    /\ conn[c].pc = "register"
    /\ LET s   == conn[c].s
           old == registry[s]
       IN /\ registry' = [registry EXCEPT ![s] = c]
          /\ monitor' = [m \in Conns |->
               IF m = c THEN [pc |-> "watching", cancelled |-> FALSE]
               ELSE IF m = old THEN [monitor[m] EXCEPT !.cancelled = TRUE]
               ELSE monitor[m]]
    /\ Goto(c, "open")
    /\ UNCHANGED <<session, reconnect, pod, deploy, tunnels, params,
                   sweep, watcher, req, crashes>>

-----------------------------------------------------------------------------
(* The websocket ends (the client leaves, or guacd closes): the deferred   *)
(* OnDisconnect runs before the deferred tunnel.Close.                     *)

Disconnect(c) ==
    /\ conn[c].pc = "open"
    /\ Goto(c, "discGet")
    /\ UNCHANGED session /\ UNCHANGED connRedisVars

DisconnectGet(c) ==
    /\ conn[c].pc = "discGet"
    /\ LET key == session[conn[c].s]
       IN \/ key = NoKey /\ Goto(c, "close")
          \/ /\ key # NoKey
             /\ conn' = [conn EXCEPT ![c].pc = "discTTL",
                                     ![c].data = key.data]
    /\ UNCHANGED session /\ UNCHANGED connRedisVars

(* TimeoutDuration is zero when ExpireAt is. *)
DisconnectTTL(c) ==
    /\ conn[c].pc = "discTTL"
    /\ LET ttl  == RedisTTL(session[conn[c].s])
           left == conn[c].data.expireAt
       IN conn' = [conn EXCEPT
            ![c].pc = "discSet",
            ![c].ttl = IF ttl >= 0 THEN ttl
                       ELSE IF left # Unset THEN left ELSE 0]
    /\ UNCHANGED session /\ UNCHANGED connRedisVars

DisconnectSet(c) ==
    /\ conn[c].pc = "discSet"
    /\ SetSession(conn[c].s, conn[c].data, conn[c].ttl)
    /\ conn' = [conn EXCEPT ![c].pc = "discKey",
                            ![c].data = NoData, ![c].ttl = 0]
    /\ UNCHANGED connRedisVars

(* Wrong on purpose: sleeps one tick less. *)
DisconnectKey_SleepsLess(c) ==
    /\ conn[c].pc = "discKey"
    /\ reconnect' = [reconnect EXCEPT ![conn[c].s] = ReconnectWindow]
    /\ watcher' = [watcher EXCEPT ![c] = [pc |-> "sleep",
                                          timer |-> GraceSleep - 1]]
    /\ Goto(c, "close")
    /\ UNCHANGED <<session, pod, deploy, tunnels, params, registry,
                   monitor, sweep, req, crashes>>

(* Open the reconnection window and start the goroutine that sleeps. *)
DisconnectKey(c) ==
    /\ conn[c].pc = "discKey"
    /\ reconnect' = [reconnect EXCEPT ![conn[c].s] = ReconnectWindow]
    /\ watcher' = [watcher EXCEPT ![c] = [pc |-> "sleep",
                                          timer |-> GraceSleep]]
    /\ Goto(c, "close")
    /\ UNCHANGED <<session, pod, deploy, tunnels, params, registry,
                   monitor, sweep, req, crashes>>

(* The tunnel is closed; the store keeps its entry. *)
CloseTunnel(c) ==
    /\ conn[c].pc = "close"
    /\ Goto(c, "closed")
    /\ UNCHANGED session /\ UNCHANGED connRedisVars

-----------------------------------------------------------------------------
(* The goroutine of OnDisconnect, after its sleep.                         *)

WatcherPreserve(c) ==
    /\ watcher[c] = [pc |-> "sleep", timer |-> 0]
    /\ reconnect[conn[c].s] = 0
    /\ watcher' = [watcher EXCEPT ![c].pc = "preserved"]
    /\ UNCHANGED <<session, reconnect, pod, deploy, conn, tunnels, params,
                   registry, monitor, sweep, req, crashes>>

WatcherReap(c) ==
    /\ watcher[c] = [pc |-> "sleep", timer |-> 0]
    /\ reconnect[conn[c].s] > 0
    /\ watcher' = [watcher EXCEPT ![c].pc = "reap"]
    /\ UNCHANGED <<session, reconnect, pod, deploy, conn, tunnels, params,
                   registry, monitor, sweep, req, crashes>>

WatcherDeletePod(c) ==
    /\ watcher[c].pc = "reap"
    /\ DeletePod(conn[c].s)
    /\ tunnels' = tunnels \ {c}
    /\ params' = params \ {c}
    /\ watcher' = [watcher EXCEPT ![c].pc = "deleteKeys"]
    /\ UNCHANGED <<session, reconnect, deploy, conn, registry,
                   monitor, sweep, req, crashes>>

WatcherDeleteKeys(c) ==
    /\ watcher[c].pc = "deleteKeys"
    /\ DelSession(conn[c].s)
    /\ reconnect' = [reconnect EXCEPT ![conn[c].s] = 0]
    /\ watcher' = [watcher EXCEPT ![c].pc = "reaped"]
    /\ UNCHANGED <<pod, deploy, conn, tunnels, params, registry,
                   monitor, sweep, req, crashes>>
=============================================================================
