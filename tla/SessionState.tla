---------------------------- MODULE SessionState ----------------------------
(***************************************************************************)
(* The state shared by everything that handles a browsing session: Redis,  *)
(* the Kubernetes pods, and the memory of the one API process.             *)
(***************************************************************************)
EXTENDS SessionRedis

CONSTANTS
    Sessions,           \* session uuids; each names one pod
    Reqs,               \* HTTP requests and viewers, each served once
    NoSession,          \* an unused slot
    TimeoutDuration,    \* POD_SESSION_TIMEOUT
    SessionTTL,         \* POD_SESSION_TTL: extension only this close to the end
    ReconnectMinimum,   \* the minute given to a reconnection without a TTL
    ReconnectWindow,    \* life of the reconnect key (2 minutes)
    GraceSleep,         \* sleep of the disconnect watcher (120 seconds)
    Extensions,         \* extension_minutes a client may ask for
    PodDeleteMayFail,   \* whether the Kubernetes API may refuse a deletion
    MaxCrashes          \* bound: restarts of the API process

ASSUME ConstantsAssumption ==
    /\ Conns \cap Sessions = {}
    /\ NoConn \notin Conns
    /\ NoSession \notin Sessions
    /\ NoKey \notin SessionKey
    /\ {TimeoutDuration, SessionTTL, ReconnectMinimum,
        ReconnectWindow, GraceSleep} \subseteq Nat \ {0}
    /\ Extensions \subseteq Nat \ {0}
    /\ PodDeleteMayFail \in BOOLEAN
    /\ MaxCrashes \in Nat

(* Both are two minutes in the code: 120*time.Second, 2*time.Minute. *)
ASSUME WindowAssumption == GraceSleep >= ReconnectWindow

VARIABLES
    session,    \* Redis, "session:<uuid>"
    reconnect,  \* Redis, "reconnect:<uuid>": ticks left, 0 when absent
    pod,        \* Kubernetes, the pod of each session
    deploy,     \* the deployment request of each session
    conn,       \* the websocket handler of each tunnel
    tunnels,    \* ActiveTunnelStore.activeTunnels, its keys
    params,     \* ActiveTunnelStore.connectionParams, its keys
    registry,   \* SessionCleanupService.sessions: the monitor's tunnel
    monitor,    \* the monitorSession goroutine a tunnel registered
    sweep,      \* the cleanupLoop goroutine
    watcher,    \* the goroutine OnDisconnect starts
    req,        \* the other API requests
    crashes     \* restarts so far

vars == <<session, reconnect, pod, deploy, conn, tunnels, params,
          registry, monitor, sweep, watcher, req, crashes>>

-----------------------------------------------------------------------------
(* Program counters: the Redis or Kubernetes call a goroutine does next.   *)

DeployPC == {"idle", "wait", "store", "done", "failed"}

(* Steps of DemoDoConnect between two Redis commands, then of the          *)
(* websocket, then of OnDisconnect.                                        *)
ConnectPC == {"exists", "clear", "ttl", "set", "handshake",
              "updGet", "updTTL", "updSet", "register"}
DisconnectPC == {"discGet", "discTTL", "discSet", "discKey", "close"}
(* The handler got past RegisterSession. *)
RegisteredPC == {"open", "closed"} \cup DisconnectPC
ConnPC == {"idle", "failed", "dead"} \cup ConnectPC \cup RegisteredPC

(* cleanupPod, run by a monitor or by the sweep. *)
CleanupPC == {"deletePod", "deleteKey", "unregister"}
MonitorPC == {"none", "watching", "stopped"} \cup CleanupPC
SweepPC == {"idle", "check"} \cup CleanupPC

WatcherPC == {"none", "sleep", "reap", "deleteKeys", "reaped", "preserved"}

SharePC  == {"shareTTL", "shareSet"}
ExtendPC == {"extendCheck", "extendGet", "extendSet"}
StopPC   == {"stopPod", "stopKey"}
JoinPC   == {"joinCheck", "joinDial"}
ReqPC == {"idle", "refused", "shared", "extended", "stopped", "joined"}
           \cup SharePC \cup ExtendPC \cup StopPC \cup JoinPC

ConnState == [pc : ConnPC, s : Sessions \cup {NoSession}, share : BOOLEAN,
              data : SessionData, ttl : Int]
MonitorState == [pc : MonitorPC, cancelled : BOOLEAN]
SweepState == [pc : SweepPC, todo : SUBSET Conns, cur : Conns \cup {NoConn}]
WatcherState == [pc : WatcherPC, timer : Nat]
ReqState == [pc : ReqPC, s : Sessions \cup {NoSession},
             data : SessionData, ttl : Int]

IdleConn == [pc |-> "idle", s |-> NoSession, share |-> FALSE,
             data |-> NoData, ttl |-> 0]
NoMonitor == [pc |-> "none", cancelled |-> FALSE]
IdleSweep == [pc |-> "idle", todo |-> {}, cur |-> NoConn]
NoWatcher == [pc |-> "none", timer |-> 0]
IdleReq == [pc |-> "idle", s |-> NoSession, data |-> NoData, ttl |-> 0]

TypeOK ==
    /\ session \in [Sessions -> SessionKey \cup {NoKey}]
    /\ reconnect \in [Sessions -> Nat]
    /\ pod \in [Sessions -> {"none", "running", "deleted"}]
    /\ deploy \in [Sessions -> DeployPC]
    /\ conn \in [Conns -> ConnState]
    /\ tunnels \in SUBSET Conns
    /\ params \in SUBSET (Conns \cup Sessions)
    /\ registry \in [Sessions -> Conns \cup {NoConn}]
    /\ monitor \in [Conns -> MonitorState]
    /\ sweep \in SweepState
    /\ watcher \in [Conns -> WatcherState]
    /\ req \in [Reqs -> ReqState]
    /\ crashes \in Nat

Init ==
    /\ session = [s \in Sessions |-> NoKey]
    /\ reconnect = [s \in Sessions |-> 0]
    /\ pod = [s \in Sessions |-> "none"]
    /\ deploy = [s \in Sessions |-> "idle"]
    /\ conn = [c \in Conns |-> IdleConn]
    /\ tunnels = {}
    /\ params = {}
    /\ registry = [s \in Sessions |-> NoConn]
    /\ monitor = [c \in Conns |-> NoMonitor]
    /\ sweep = IdleSweep
    /\ watcher = [c \in Conns |-> NoWatcher]
    /\ req = [r \in Reqs |-> IdleReq]
    /\ crashes = 0

-----------------------------------------------------------------------------
(* Steps that several components share. *)

SetSession(s, data, expiration) ==
    session' = [session EXCEPT ![s] = RedisSet(@, data, expiration)]

DelSession(s) == session' = [session EXCEPT ![s] = NoKey]

(* DeletePod and DeletePodGrace: the caller logs an error and goes on. *)
DeletePod(s) ==
    \/ pod' = [pod EXCEPT ![s] = "deleted"]
    \/ PodDeleteMayFail /\ UNCHANGED pod

(* guacd serves the tunnel from the handshake until its handler closes it. *)
TunnelOpen(c) ==
    conn[c].pc \in {"updGet", "updTTL", "updSet", "register"}
                     \cup (RegisteredPC \ {"closed"})
=============================================================================
