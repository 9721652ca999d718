------------------------- MODULE SessionProperties -------------------------
(***************************************************************************)
(* What the session lifecycle guarantees, and what its comments, messages  *)
(* and documents say of it that the code does not do.                      *)
(***************************************************************************)
EXTENDS KubeBrowse

ActiveMonitor(c) ==
    /\ monitor[c].pc \in {"watching"} \cup CleanupPC
    /\ ~monitor[c].cancelled

Registered(c, s) == conn[c].s = s /\ conn[c].pc \in RegisteredPC

-----------------------------------------------------------------------------
(* Guarantees.                                                             *)

(***************************************************************************)
(* The map of SessionCleanupService and its goroutines agree: an entry is  *)
(* a monitor of that session that has not ended and is not cancelled, and  *)
(* every such monitor is the entry of its session.  So a session never has *)
(* two active monitors and none runs that the map has forgotten, whatever  *)
(* the order of registrations, cleanups by monitors, and sweeps working    *)
(* from an old copy of the map.                                            *)
(***************************************************************************)
MonitorRegistry ==
    /\ \A s \in Sessions : registry[s] # NoConn =>
         conn[registry[s]].s = s /\ ActiveMonitor(registry[s])
    /\ \A c \in Conns : ActiveMonitor(c) => registry[conn[c].s] = c

(***************************************************************************)
(* Once a tunnel of the session is registered, the pod is not left without *)
(* a monitor while it runs: cleanupPod deletes the pod before it           *)
(* unregisters the session, also when the entry it removes is a newer one  *)
(* than its own.  (Only if the Kubernetes API does not refuse deletions:   *)
(* cleanupPod unregisters after a failed one too.)                         *)
(***************************************************************************)
Supervised ==
    ~PodDeleteMayFail =>
        \A s \in Sessions, c \in Conns :
            Registered(c, s) /\ pod[s] = "running" => registry[s] # NoConn

(***************************************************************************)
(* The reconnect key of OnDisconnect never outlives the sleep of the       *)
(* goroutine that was started with it: while the key exists some watcher   *)
(* of the session still sleeps at least as long.  A watcher that wakes up  *)
(* and finds the key therefore finds the key of a later disconnection.     *)
(***************************************************************************)
WindowIsWatched ==
    \A s \in Sessions : reconnect[s] > 0 /\ crashes = 0 =>
        \E c \in Conns : /\ conn[c].s = s
                         /\ watcher[c].pc = "sleep"
                         /\ watcher[c].timer >= reconnect[s]

(* The session has a key that will expire. *)
Expires(key) == key # NoKey /\ key.ttl # Persistent

(***************************************************************************)
(* As long as the key of a session expires, no sequence of extensions,     *)
(* reconnections and concurrent updates gives it more time than one        *)
(* timeout, or one extension granted within the last SessionTTL: the check *)
(* of CanExtendSession and the TTLs the handlers carry from one Redis      *)
(* command to another never add up.                                        *)
(***************************************************************************)
TimeLeftBounded ==
    \A s \in Sessions : Expires(session[s]) =>
        \/ session[s].ttl <= TimeoutDuration
        \/ session[s].ttl <= ReconnectMinimum
        \/ session[s].ttl <= SessionTTL
        \/ \E extension \in Extensions :
             session[s].ttl <= SessionTTL + extension

(***************************************************************************)
(* How a key can stop expiring: only by the SET of a tunnel that stores    *)
(* its id or disconnects, or of a share request, that holds 0 (TTL said    *)
(* so, or it had no time to give and neither had ExpireAt) or, for the     *)
(* share request, the reply of a key that was gone.  Connecting and        *)
(* extending never make a session unlimited, whatever others do between    *)
(* their commands; nor does a reply of -1, read before the first tunnel    *)
(* gave the session its times, undo those times.                           *)
(***************************************************************************)
UnlimitedOnlyAtTheEnd ==
    [][\A s \in Sessions :
         /\ Expires(session[s])
         /\ session'[s] # NoKey /\ ~Expires(session'[s])
         => \/ \E c \in Conns : /\ conn[c].s = s
                               /\ conn[c].pc \in {"updSet", "discSet"}
                               /\ conn[c].ttl = 0
            \/ \E r \in Reqs : /\ req[r].s = s
                              /\ req[r].pc = "shareSet"
                              /\ req[r].ttl \in {0, Missing}]_vars

(* The promise about the pods (PodLifecycle), on the phase of each pod.    *)
Phase ==
    [s \in Sessions |->
        IF pod[s] = "none" THEN "absent"
        ELSE IF pod[s] = "deleted" THEN "deleted"
        ELSE IF registry[s] # NoConn THEN "supervised" ELSE "started"]

Lifecycle == INSTANCE PodLifecycle
    WITH phase <- Phase,
         MayAbandon <- PodDeleteMayFail \/ MaxCrashes > 0

(***************************************************************************)
(* The backend implements PodLifecycle: the code never restarts a pod, and *)
(* a supervised pod stays supervised until it is deleted.                  *)
(***************************************************************************)
PodsSafe == Lifecycle!Safe

(***************************************************************************)
(* ... and a supervised pod is deleted in the end, for whatever the clients*)
(* do: their requests are finitely many, and when the session has run out, *)
(* was deleted, or lost its expiration, a monitor or the sweep notices.    *)
(***************************************************************************)
PodsReaped == Lifecycle!Spec

(***************************************************************************)
(* The cleanup service forgets every session in the end, also one whose    *)
(* pod and keys someone else deleted, or whose key a late write brought    *)
(* back: no entry and no goroutine stays behind.                           *)
(***************************************************************************)
RegistryDrains ==
    \A s \in Sessions : registry[s] # NoConn ~> registry[s] = NoConn

-----------------------------------------------------------------------------
(* Statements of the repository that the code does not keep.               *)

(***************************************************************************)
(* cmd/guac/main.go:424, "Session %s reconnected within grace period": the *)
(* watcher preserves the pod because another tunnel of the session came.   *)
(***************************************************************************)
PreservedMeansReconnected ==
    \A c \in Conns : watcher[c].pc = "preserved" =>
        \E d \in Conns \ {c} : conn[d].s = conn[c].s

(***************************************************************************)
(* cmd/guac/main.go:389, "Set 120 seconds reconnection window": nobody     *)
(* terminates the pod for a missing reconnection while a window is open.   *)
(***************************************************************************)
WindowHonoured ==
    \A c, d \in Conns :
        /\ watcher[c].pc = "reap"
        /\ watcher[d].pc = "sleep"
        /\ conn[c].s = conn[d].s
        => watcher[d].timer = 0

(***************************************************************************)
(* api/session_handlers.go:106, "Session extended by %d minutes": a tunnel *)
(* that connects after the extension does not decide on a shorter time.    *)
(***************************************************************************)
ExtensionKept ==
    [][\A c \in Conns, r \in Reqs :
         /\ conn[c].pc = "exists" /\ conn'[c].pc = "set"
         /\ req[r].pc = "extended" /\ req[r].s = conn[c].s
         => conn'[c].ttl >= RedisTTL(session[conn[c].s])]_vars

(***************************************************************************)
(* api/sessions.go:35, "Session %s stopped and pod deleted.": a stopped    *)
(* session does not come back.                                             *)
(***************************************************************************)
StoppedStaysStopped ==
    [][\A r \in Reqs :
         req[r].pc = "stopped" /\ session[req[r].s] = NoKey =>
             session'[req[r].s] = NoKey]_vars
=============================================================================
