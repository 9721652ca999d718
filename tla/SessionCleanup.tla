--------------------------- MODULE SessionCleanup ---------------------------
(***************************************************************************)
(* SessionCleanupService: one monitorSession goroutine per registered      *)
(* tunnel, and the cleanupLoop that sweeps over all of them.  Both call    *)
(* cleanupPod, here the steps deletePod, deleteKey and unregister.         *)
(*                                                                         *)
(* cleanupPod starts with two attempts to close the tunnel.  It looks the  *)
(* session uuid up in a store keyed by guacd connection ids, then the      *)
(* guacd connection id among HTTP tunnels keyed by their own uuids; the    *)
(* sets are disjoint, neither finds anything, and no state changes.        *)
(***************************************************************************)
EXTENDS SessionState

cleanupRedisVars == <<reconnect, deploy, conn, tunnels, params, watcher,
                      req, crashes>>

MonitorGoto(c, pc) == monitor' = [monitor EXCEPT ![c].pc = pc]

(* Wrong on purpose: cancels, but keeps the entry. *)
Unregister_KeepsEntry(s, mon) ==
    /\ UNCHANGED registry
    /\ monitor' = [m \in Conns |->
         IF m = registry[s] THEN [mon[m] EXCEPT !.cancelled = TRUE]
                            ELSE mon[m]]

(***************************************************************************)
(* UnregisterSession(s), under the mutex: cancel whatever monitor the map  *)
(* holds now and delete the entry.  The result is the new monitor map,     *)
(* from what mon is otherwise.                                             *)
(***************************************************************************)
Unregister(s, mon) ==
    /\ registry' = [registry EXCEPT ![s] = NoConn]
    /\ monitor' = [m \in Conns |->
         IF m = registry[s] THEN [mon[m] EXCEPT !.cancelled = TRUE]
                            ELSE mon[m]]

-----------------------------------------------------------------------------
(* monitorSession: a tick every 15 seconds.                                *)

(* Wrong on purpose: unregisters before the pod is deleted. *)
MonitorExpired_UnregisterFirst(c) ==
    /\ monitor[c].pc = "watching"
    /\ TimeIsUp(session[conn[c].s])
    /\ Unregister(conn[c].s, [monitor EXCEPT ![c].pc = "deletePod"])
    /\ UNCHANGED <<session, pod, sweep>>
    /\ UNCHANGED cleanupRedisVars

MonitorExpired(c) ==
    /\ monitor[c].pc = "watching"
    /\ TimeIsUp(session[conn[c].s])
    /\ MonitorGoto(c, "deletePod")
    /\ UNCHANGED <<session, pod, registry, sweep>>
    /\ UNCHANGED cleanupRedisVars

(* select may take a pending tick first: a cancelled monitor can still act. *)
MonitorCancelled(c) ==
    /\ monitor[c].pc = "watching"
    /\ monitor[c].cancelled
    /\ MonitorGoto(c, "stopped")
    /\ UNCHANGED <<session, pod, registry, sweep>>
    /\ UNCHANGED cleanupRedisVars

MonitorDeletePod(c) ==
    /\ monitor[c].pc = "deletePod"
    /\ DeletePod(conn[c].s)
    /\ MonitorGoto(c, "deleteKey")
    /\ UNCHANGED <<session, registry, sweep>>
    /\ UNCHANGED cleanupRedisVars

MonitorDeleteKey(c) ==
    /\ monitor[c].pc = "deleteKey"
    /\ DelSession(conn[c].s)
    /\ MonitorGoto(c, "unregister")
    /\ UNCHANGED <<pod, registry, sweep>>
    /\ UNCHANGED cleanupRedisVars

MonitorUnregister(c) ==
    /\ monitor[c].pc = "unregister"
    /\ Unregister(conn[c].s, [monitor EXCEPT ![c].pc = "stopped"])
    /\ UNCHANGED <<session, pod, sweep>>
    /\ UNCHANGED cleanupRedisVars

-----------------------------------------------------------------------------
(* cleanupLoop, every 30 seconds: performCleanup works through a copy of   *)
(* the map taken under the read lock.                                      *)

(* The rest of the copy, or the end of the pass. *)
SweepRest(todo) ==
    [pc |-> IF todo = {} THEN "idle" ELSE "check",
     todo |-> todo, cur |-> NoConn]

SweepStart ==
    /\ sweep.pc = "idle"
    /\ LET copy == {registry[s] : s \in Sessions} \ {NoConn}
       IN copy # {} /\ sweep' = SweepRest(copy)
    /\ UNCHANGED <<session, pod, registry, monitor>>
    /\ UNCHANGED cleanupRedisVars

SweepCheck(c) ==
    /\ sweep.pc = "check"
    /\ c \in sweep.todo
    /\ \/ /\ ~TimeIsUp(session[conn[c].s])
          /\ sweep' = SweepRest(sweep.todo \ {c})
       \/ /\ TimeIsUp(session[conn[c].s])
          /\ sweep' = [pc |-> "deletePod", todo |-> sweep.todo \ {c},
                       cur |-> c]
    /\ UNCHANGED <<session, pod, registry, monitor>>
    /\ UNCHANGED cleanupRedisVars

(* Wrong on purpose: leaves the pod to its monitor. *)
SweepDeletePod_Skips ==
    /\ sweep.pc = "deletePod"
    /\ sweep' = [sweep EXCEPT !.pc = "deleteKey"]
    /\ UNCHANGED <<session, pod, registry, monitor>>
    /\ UNCHANGED cleanupRedisVars

SweepDeletePod ==
    /\ sweep.pc = "deletePod"
    /\ DeletePod(conn[sweep.cur].s)
    /\ sweep' = [sweep EXCEPT !.pc = "deleteKey"]
    /\ UNCHANGED <<session, registry, monitor>>
    /\ UNCHANGED cleanupRedisVars

SweepDeleteKey ==
    /\ sweep.pc = "deleteKey"
    /\ DelSession(conn[sweep.cur].s)
    /\ sweep' = [sweep EXCEPT !.pc = "unregister"]
    /\ UNCHANGED <<pod, registry, monitor>>
    /\ UNCHANGED cleanupRedisVars

SweepUnregister ==
    /\ sweep.pc = "unregister"
    /\ Unregister(conn[sweep.cur].s, monitor)
    /\ sweep' = SweepRest(sweep.todo)
    /\ UNCHANGED <<session, pod>>
    /\ UNCHANGED cleanupRedisVars
=============================================================================
