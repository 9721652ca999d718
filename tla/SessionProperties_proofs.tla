---------------------- MODULE SessionProperties_proofs ----------------------
(* The guarantees of SessionProperties, for every value of the constants. *)
EXTENDS SessionProperties, KubeBrowse_proofs

(***************************************************************************)
(* As long as the process lives, a handler that has begun keeps its        *)
(* session, one that begins names a deployed one, and what follows         *)
(* RegisterSession is entered by it and never left.                        *)
(***************************************************************************)
ConnFrame ==
    \A c \in Conns :
        /\ conn[c].pc # "idle" =>
             /\ conn'[c].s = conn[c].s
             /\ conn'[c].pc # "idle"
             /\ conn[c].pc \in RegisteredPC => conn'[c].pc \in RegisteredPC
             /\ conn'[c].pc \in RegisteredPC =>
                  conn[c].pc \in RegisteredPC \/ RegisterSession(c)
        /\ conn[c].pc = "idle" /\ conn'[c].pc # "idle" =>
             /\ conn'[c].s \in Sessions /\ deploy[conn'[c].s] = "done"
             /\ conn'[c].pc \notin RegisteredPC

LEMMA ConnStepFrame ==
    ASSUME TypeInv, NEW c \in Conns, ConnStep(c) \/ Disconnect(c)
    PROVE  /\ conn[c].pc # "idle"
           /\ \A d \in Conns : conn'[d].s = conn[d].s
           /\ \A d \in Conns \ {c} : conn'[d].pc = conn[d].pc
           /\ conn'[c].pc # "idle"
           /\ conn[c].pc \in RegisteredPC => conn'[c].pc \in RegisteredPC
           /\ conn'[c].pc \in RegisteredPC =>
                conn[c].pc \in RegisteredPC \/ RegisterSession(c)
  <1> USE DEF TypeInv, TypeOK, ConnState, RegisteredPC, DisconnectPC, Goto
  <1>1. CASE ConnectFresh(c) \/ ConnectTTL(c) \/ UpdateTTL(c)
             \/ DisconnectTTL(c)
    <2>1. PICK pc, ttl : /\ conn' = [conn EXCEPT ![c].pc = pc, ![c].ttl = ttl]
                         /\ pc \in {"set", "updSet", "discSet"}
                         /\ pc # "discSet" => conn[c].pc \notin RegisteredPC
      BY <1>1, Zenon DEF ConnectFresh, ConnectTTL, UpdateTTL, DisconnectTTL
    <2> QED
      BY <1>1, <2>1 DEF ConnectFresh, ConnectTTL, UpdateTTL, DisconnectTTL
  <1>2. CASE ConnectReconnect(c) \/ ConnectClear(c) \/ HandshakeFails(c)
             \/ HandshakeDone(c)
    BY <1>2 DEF ConnectReconnect, ConnectClear, HandshakeFails, HandshakeDone
  <1>5. CASE DisconnectKey(c) \/ CloseTunnel(c) \/ Disconnect(c)
    BY <1>5 DEF DisconnectKey, CloseTunnel, Disconnect
  <1>6. CASE RegisterSession(c)
    <2>1. conn[c].pc = "register" /\ conn' = [conn EXCEPT ![c].pc = "open"]
      BY <1>6 DEF RegisterSession
    <2> QED
      BY <1>6, <2>1
  <1>3. CASE ConnectSet(c) \/ UpdateSet(c) \/ DisconnectSet(c)
    BY <1>3 DEF ConnectSet, UpdateSet, DisconnectSet
  <1>4. CASE UpdateGet(c) \/ DisconnectGet(c)
    BY <1>4 DEF UpdateGet, DisconnectGet
  <1> QED
    BY <1>1, <1>2, <1>3, <1>4, <1>5, <1>6 DEF ConnStep

LEMMA StepFrame ==
    ASSUME TypeInv, [Next]_vars
    PROVE  ConnFrame \/ Crash
  <1> USE DEF ConnFrame
  <1>1. CASE UNCHANGED conn
    BY <1>1
  <1>2. ASSUME NEW c \in Conns, NEW s \in Sessions, ConnectGet(c, s)
        PROVE  ConnFrame
    BY <1>2 DEF ConnectGet, TypeInv, TypeOK, ConnState, RegisteredPC,
                DisconnectPC
  <1>3. ASSUME NEW c \in Conns, ConnStep(c) \/ Disconnect(c)
        PROVE  ConnFrame
    BY <1>3, ConnStepFrame
  <1>4. ASSUME NEW s \in Sessions, DeployCreate(s) \/ DeployStep(s) \/ Expire(s)
        PROVE  UNCHANGED conn
    BY <1>4 DEF DeployCreate, DeployStep, DeployNotReady, DeployReady,
                DeployStore, Expire
  <1>5. ASSUME NEW c \in Conns, WatcherStep(c) \/ MonitorStep(c)
        PROVE  UNCHANGED conn
    BY <1>5 DEF WatcherStep, WatcherPreserve, WatcherReap, WatcherDeletePod,
                WatcherDeleteKeys, MonitorStep, MonitorExpired,
                MonitorCancelled, MonitorDeletePod, MonitorDeleteKey,
                MonitorUnregister, cleanupRedisVars
  <1>6. ASSUME NEW r \in Reqs,
               ReqStep(r) \/ \E s \in Sessions : ReqArrives(r, s)
        PROVE  UNCHANGED conn
    BY <1>6 DEF ReqStep, ShareTTL, ShareSet, ExtendCheck, ExtendGet,
                ExtendSet, StopPod, StopKey, JoinCheck, JoinDial, ReqArrives,
                ShareGet, ExtendRequest, StopGet, JoinGet, reqRedisVars
  <1>7. SweepStep => UNCHANGED conn
    BY DEF SweepStep, SweepStart, SweepCheck, SweepDeletePod, SweepDeleteKey,
           SweepUnregister, cleanupRedisVars
  <1>8. Tick \/ UNCHANGED vars => UNCHANGED conn
    BY DEF Tick, vars
  <1> QED
    BY <1>1, <1>2, <1>3, <1>4, <1>5, <1>6, <1>7, <1>8 DEF Next

-----------------------------------------------------------------------------
(***************************************************************************)
(* What the cleanup service's goroutines work on: a monitor, and every     *)
(* tunnel in the sweep's copy of the map, has got past RegisterSession, so *)
(* its session is known and no longer changes.                             *)
(***************************************************************************)
CleanupSlots ==
    /\ \A c \in Conns : monitor[c].pc # "none" => conn[c].pc \in RegisteredPC
    /\ \A c \in sweep.todo : conn[c].pc \in RegisteredPC
    /\ sweep.pc \in CleanupPC =>
         sweep.cur \in Conns /\ conn[sweep.cur].pc \in RegisteredPC

(* MonitorRegistry, said of the set of the active monitors. *)
ActiveMonitors == {c \in Conns : ActiveMonitor(c)}

RegistryInverse ==
    /\ \A s \in Sessions : registry[s] # NoConn =>
         registry[s] \in ActiveMonitors /\ conn[registry[s]].s = s
    /\ \A c \in ActiveMonitors : registry[conn[c].s] = c

MonitorInv == TypeInv /\ CleanupSlots /\ RegistryInverse

LEMMA RegistryInverseOK == TypeOK => (RegistryInverse <=> MonitorRegistry)
  BY ConstantsAssumption
  DEF TypeOK, RegistryInverse, MonitorRegistry, ActiveMonitors

(* The steps that touch neither the map nor its goroutines. *)
CleanupFrame == UNCHANGED <<registry, monitor, sweep>>

LEMMA MonitorFrame ==
    ASSUME MonitorInv, ConnFrame, CleanupFrame
    PROVE  (CleanupSlots /\ RegistryInverse)'
  <1> USE DEF MonitorInv, TypeInv, TypeOK, ConnFrame, CleanupFrame
  <1>1. CleanupSlots'
    BY DEF CleanupSlots, SweepState, RegisteredPC, DisconnectPC
  <1>2. \A c \in ActiveMonitors : conn'[c].s = conn[c].s
    BY DEF CleanupSlots, RegisteredPC, DisconnectPC, ActiveMonitors,
           ActiveMonitor, CleanupPC
  <1>3. ActiveMonitors' = ActiveMonitors
    BY DEF ActiveMonitors, ActiveMonitor
  <1>4. RegistryInverse'
    BY <1>2, <1>3 DEF RegistryInverse
  <1> QED
    BY <1>1, <1>4

LEMMA MonitorRegisters ==
    ASSUME MonitorInv, NEW c \in Conns, RegisterSession(c), ConnFrame
    PROVE  (CleanupSlots /\ RegistryInverse)'
  <1> DEFINE s == conn[c].s
             old == registry[s]
  <1> USE DEF MonitorInv, TypeInv, TypeOK
  <1>1. /\ s \in Sessions /\ conn[c].pc \notin RegisteredPC
        /\ \A d \in Conns : conn'[d].s = conn[d].s
        /\ conn'[c].pc \in RegisteredPC
        /\ registry' = [registry EXCEPT ![s] = c]
        /\ UNCHANGED sweep
    BY DEF RegisterSession, SlotsUsed, Goto, ConnState, RegisteredPC,
           DisconnectPC
  <1>2. monitor'[c] = [pc |-> "watching", cancelled |-> FALSE]
    BY DEF RegisterSession
  <1>3. \A m \in Conns \ {c} : monitor'[m].pc = monitor[m].pc
    BY DEF RegisterSession, MonitorState
  <1>4. \A m \in Conns \ {c} :
          monitor'[m].cancelled = (monitor[m].cancelled \/ m = old)
    BY DEF RegisterSession, MonitorState
  <1>5. CleanupSlots'
    BY <1>1, <1>3 DEF CleanupSlots, ConnFrame, SweepState, RegisteredPC,
                      DisconnectPC
  <1>6. c \notin ActiveMonitors
    BY <1>1 DEF ActiveMonitors, ActiveMonitor, CleanupSlots, CleanupPC
  <1>7. ActiveMonitors' = (ActiveMonitors \ {old}) \cup {c}
    <2>1. old # c
      BY <1>1, <1>6, ConstantsAssumption DEF RegistryInverse
    <2>2. ActiveMonitor(c)'
      BY <1>2 DEF ActiveMonitor
    <2>3. \A m \in Conns \ {c} :
            ActiveMonitor(m)' <=> ActiveMonitor(m) /\ m # old
      BY <1>3, <1>4 DEF ActiveMonitor
    <2> QED
      BY <2>1, <2>2, <2>3, <1>6, Zenon DEF ActiveMonitors
  <1>8. \A m \in ActiveMonitors : conn[m].s = s => m = old
    BY DEF RegistryInverse
  <1>9. old # NoConn => conn[old].s = s
    BY <1>1 DEF RegistryInverse
  <1>10. RegistryInverse'
    <2>1. ASSUME NEW t \in Sessions, registry'[t] # NoConn
          PROVE  registry'[t] \in ActiveMonitors' /\ conn'[registry'[t]].s = t
      <3>1. CASE t = s
        BY <1>1, <1>7, <3>1
      <3>2. CASE t # s
        BY <1>1, <1>6, <1>7, <1>9, <2>1, <3>2 DEF RegistryInverse
      <3> QED
        BY <3>1, <3>2
    <2>2. ASSUME NEW m \in ActiveMonitors' PROVE registry'[conn'[m].s] = m
      <3>1. m \in Conns
        BY DEF ActiveMonitors
      <3> QED
        BY <1>1, <1>7, <1>8, <2>2, <3>1 DEF RegistryInverse
    <2> QED
      BY <2>1, <2>2 DEF RegistryInverse
  <1> QED
    BY <1>5, <1>10

(***************************************************************************)
(* UnregisterSession keeps map and goroutines in agreement, whichever      *)
(* monitor it finds in the map; the caller may end its own on the way.     *)
(***************************************************************************)
LEMMA MonitorUnregisters ==
    ASSUME MonitorInv, UNCHANGED conn, NEW s \in Sessions,
           NEW mon \in [Conns -> MonitorState], Unregister(s, mon),
           \A m \in Conns : \/ mon[m] = monitor[m]
                            \/ conn[m].s = s /\ mon[m].pc = "stopped"
    PROVE  RegistryInverse'
  <1> DEFINE old == registry[s]
  <1> USE DEF MonitorInv, TypeInv, TypeOK
  <1>1. \A m \in Conns : monitor'[m].pc = mon[m].pc
    BY DEF Unregister, MonitorState
  <1>2. \A m \in Conns :
          monitor'[m].cancelled = (mon[m].cancelled \/ m = old)
    BY DEF Unregister, MonitorState
  <1>3. ActiveMonitors' \subseteq ActiveMonitors \ {old}
    BY <1>1, <1>2 DEF ActiveMonitors, ActiveMonitor, CleanupPC
  <1>4. \A m \in ActiveMonitors : conn[m].s # s /\ m # old
                                    => m \in ActiveMonitors'
    BY <1>1, <1>2 DEF ActiveMonitors, ActiveMonitor
  <1>5. old # NoConn => conn[old].s = s
    BY DEF RegistryInverse
  <1>6. registry' = [registry EXCEPT ![s] = NoConn]
    BY DEF Unregister
  <1>7. ASSUME NEW t \in Sessions, registry'[t] # NoConn
        PROVE  registry'[t] \in ActiveMonitors' /\ conn[registry'[t]].s = t
    BY <1>4, <1>5, <1>6, <1>7 DEF RegistryInverse
  <1>8. ASSUME NEW m \in ActiveMonitors' PROVE registry'[conn[m].s] = m
    BY <1>3, <1>6, <1>8 DEF RegistryInverse
  <1> QED
    BY <1>7, <1>8 DEF RegistryInverse

LEMMA MonitorMonitorStep ==
    ASSUME MonitorInv, NEW c \in Conns, MonitorStep(c)
    PROVE  (CleanupSlots /\ RegistryInverse)'
  <1> USE DEF MonitorInv, TypeInv, TypeOK
  <1>1. UNCHANGED <<conn, sweep>>
    BY DEF MonitorStep, MonitorExpired, MonitorCancelled, MonitorDeletePod,
           MonitorDeleteKey, MonitorUnregister, cleanupRedisVars
  <1>2. monitor[c].pc # "none" /\ conn[c].s \in Sessions
    BY DEF MonitorStep, MonitorExpired, MonitorCancelled, MonitorDeletePod,
           MonitorDeleteKey, MonitorUnregister, CleanupSlots, SlotsUsed,
           RegisteredPC, DisconnectPC
  <1>3. CASE \/ MonitorExpired(c) \/ MonitorDeletePod(c)
             \/ MonitorDeleteKey(c) \/ MonitorCancelled(c)
    <2>1. /\ UNCHANGED registry
          /\ \A m \in Conns : /\ monitor[m].pc = "none"
                                   => monitor'[m].pc = "none"
                              /\ monitor'[m].cancelled = monitor[m].cancelled
          /\ \A m \in Conns \ {c} : monitor'[m].pc = monitor[m].pc
      <3>1. PICK pc : monitor' = [monitor EXCEPT ![c].pc = pc]
                      /\ UNCHANGED registry
        BY <1>3, Zenon DEF MonitorExpired, MonitorDeletePod,
                           MonitorDeleteKey, MonitorCancelled, MonitorGoto
      <3> QED
        BY <1>2, <3>1 DEF MonitorState
    <2>2. \/ monitor[c].cancelled
          \/ /\ monitor[c].pc \in {"watching"} \cup CleanupPC
             /\ monitor'[c].pc \in {"watching"} \cup CleanupPC
      BY <1>3 DEF MonitorExpired, MonitorDeletePod, MonitorDeleteKey,
                  MonitorCancelled, MonitorGoto, CleanupPC, MonitorState
    <2>3. ActiveMonitors' = ActiveMonitors
      BY <2>1, <2>2 DEF ActiveMonitors, ActiveMonitor
    <2> QED
      BY <1>1, <2>1, <2>3 DEF CleanupSlots, RegistryInverse
  <1>4. CASE MonitorUnregister(c)
    <2> DEFINE mon == [monitor EXCEPT ![c].pc = "stopped"]
    <2>1. mon \in [Conns -> MonitorState] /\ Unregister(conn[c].s, mon)
      BY <1>4 DEF MonitorUnregister, MonitorState, MonitorPC
    <2>2. \A m \in Conns : \/ mon[m] = monitor[m]
                           \/ conn[m].s = conn[c].s /\ mon[m].pc = "stopped"
      BY DEF MonitorState
    <2>3. RegistryInverse'
      <3> HIDE DEF mon
      <3> QED
        BY <1>1, <1>2, <2>1, <2>2, MonitorUnregisters
    <2>4. \A m \in Conns : monitor[m].pc = "none" => monitor'[m].pc = "none"
      BY <1>2, <2>1 DEF Unregister, MonitorState
    <2> QED
      BY <1>1, <2>3, <2>4 DEF CleanupSlots
  <1> QED
    BY <1>3, <1>4 DEF MonitorStep

LEMMA MonitorSweepStep ==
    ASSUME MonitorInv, SweepStep
    PROVE  (CleanupSlots /\ RegistryInverse)'
  <1> USE DEF MonitorInv, TypeInv, TypeOK
  <1>1. UNCHANGED conn
    BY DEF SweepStep, SweepStart, SweepCheck, SweepDeletePod, SweepDeleteKey,
           SweepUnregister, cleanupRedisVars
  <1>2. CASE \/ SweepStart \/ (\E c \in Conns : SweepCheck(c))
             \/ SweepDeletePod \/ SweepDeleteKey
    <2>1. UNCHANGED <<registry, monitor>>
      BY <1>2 DEF SweepStart, SweepCheck, SweepDeletePod, SweepDeleteKey
    <2>2. RegistryInverse'
      BY <1>1, <2>1 DEF RegistryInverse, ActiveMonitors, ActiveMonitor
    <2>3. ActiveMonitors \subseteq {c \in Conns : monitor[c].pc # "none"}
      BY DEF ActiveMonitors, ActiveMonitor, CleanupPC
    <2>4. \A c \in sweep'.todo : conn[c].pc \in RegisteredPC
      <3>1. CASE SweepStart
        BY <3>1, <2>3 DEF SweepStart, SweepRest, CleanupSlots,
                          RegistryInverse
      <3>2. CASE (\E c \in Conns : SweepCheck(c)) \/ SweepDeletePod
                   \/ SweepDeleteKey
        BY <3>2 DEF SweepCheck, SweepDeletePod, SweepDeleteKey, SweepRest,
                    CleanupSlots, SweepState
      <3> QED
        BY <1>2, <3>1, <3>2
    <2>5. sweep'.pc \in CleanupPC =>
            sweep'.cur \in Conns /\ conn[sweep'.cur].pc \in RegisteredPC
      <3>1. CASE SweepStart
        BY <3>1 DEF SweepStart, SweepRest, CleanupPC
      <3>2. ASSUME NEW c \in Conns, SweepCheck(c)
            PROVE  sweep'.pc \in CleanupPC => sweep'.cur = c /\ c \in sweep.todo
        BY <3>2 DEF SweepCheck, SweepRest, CleanupPC
      <3>3. CASE SweepDeletePod \/ SweepDeleteKey
        BY <3>3 DEF SweepDeletePod, SweepDeleteKey, CleanupSlots, CleanupPC,
                    SweepState
      <3> QED
        BY <1>2, <3>1, <3>2, <3>3 DEF CleanupSlots
    <2> QED
      BY <1>1, <2>1, <2>2, <2>4, <2>5 DEF CleanupSlots
  <1>3. CASE SweepUnregister
    <2>1. sweep.cur \in Conns /\ conn[sweep.cur].s \in Sessions
      BY <1>3 DEF SweepUnregister, CleanupSlots, CleanupPC, SlotsUsed,
                  RegisteredPC, DisconnectPC
    <2>2. RegistryInverse'
      BY <1>1, <1>3, <2>1, MonitorUnregisters DEF SweepUnregister
    <2>3. \A m \in Conns : monitor[m].pc = "none" => monitor'[m].pc = "none"
      BY <1>3 DEF SweepUnregister, Unregister, MonitorState
    <2>4. sweep' = SweepRest(sweep.todo)
      BY <1>3 DEF SweepUnregister
    <2> QED
      BY <1>1, <2>2, <2>3, <2>4 DEF CleanupSlots, SweepRest, CleanupPC
  <1> QED
    BY <1>2, <1>3 DEF SweepStep

LEMMA MonitorCrash ==
    ASSUME MonitorInv, Crash
    PROVE  (CleanupSlots /\ RegistryInverse)'
  BY DEF Crash, CleanupSlots, RegistryInverse, ActiveMonitors, ActiveMonitor,
         NoMonitor, IdleSweep, CleanupPC

(* Who touches the map, the monitors or the sweep. *)
LEMMA CleanupSteps ==
    ASSUME [Next]_vars
    PROVE  \/ CleanupFrame \/ Crash \/ SweepStep
           \/ \E c \in Conns : RegisterSession(c) \/ MonitorStep(c)
  <1> USE DEF CleanupFrame
  <1>1. ASSUME NEW s \in Sessions,
               DeployCreate(s) \/ DeployStep(s) \/ Expire(s)
        PROVE  CleanupFrame
    BY <1>1 DEF DeployCreate, DeployStep, DeployNotReady, DeployReady,
                DeployStore, Expire
  <1>2. ASSUME NEW c \in Conns,
               \/ \E s \in Sessions : ConnectGet(c, s)
               \/ ConnStep(c) \/ Disconnect(c)
        PROVE  CleanupFrame \/ RegisterSession(c)
    BY <1>2
    DEF ConnectGet, ConnStep, ConnectFresh, ConnectReconnect, ConnectClear,
        ConnectTTL, ConnectSet, HandshakeFails, HandshakeDone, UpdateGet,
        UpdateTTL, UpdateSet, DisconnectGet, DisconnectTTL, DisconnectSet,
        DisconnectKey, CloseTunnel, Disconnect, connRedisVars
  <1>3. ASSUME NEW c \in Conns, WatcherStep(c)
        PROVE  CleanupFrame
    BY <1>3 DEF WatcherStep, WatcherPreserve, WatcherReap,
                WatcherDeletePod, WatcherDeleteKeys
  <1>4. ASSUME NEW r \in Reqs,
               ReqStep(r) \/ \E s \in Sessions : ReqArrives(r, s)
        PROVE  CleanupFrame
    BY <1>4 DEF ReqArrives, ShareGet, ExtendRequest, StopGet, JoinGet,
                ReqStep, ShareTTL, ShareSet, ExtendCheck, ExtendGet,
                ExtendSet, StopPod, StopKey, JoinCheck, JoinDial,
                reqRedisVars
  <1>5. Tick \/ UNCHANGED vars => CleanupFrame
    BY DEF Tick, vars
  <1> QED
    BY <1>1, <1>2, <1>3, <1>4, <1>5 DEF Next

LEMMA MonitorInvStep == MonitorInv /\ [Next]_vars => MonitorInv'
  <1> SUFFICES ASSUME MonitorInv, [Next]_vars
               PROVE  (CleanupSlots /\ RegistryInverse)'
    BY TypeInvStep DEF MonitorInv
  <1>1. ConnFrame \/ Crash
    BY StepFrame DEF MonitorInv
  <1>2. \/ CleanupFrame \/ Crash \/ SweepStep
        \/ \E c \in Conns : RegisterSession(c) \/ MonitorStep(c)
    BY CleanupSteps
  <1>3. CASE Crash
    BY <1>3, MonitorCrash
  <1>4. CASE ConnFrame
    BY <1>2, <1>4, MonitorFrame, MonitorCrash, MonitorSweepStep,
       MonitorRegisters, MonitorMonitorStep
  <1> QED
    BY <1>1, <1>3, <1>4

LEMMA MonitorInvariant == Spec => []MonitorInv
  <1>1. Init => CleanupSlots /\ RegistryInverse
    BY DEF Init, CleanupSlots, RegistryInverse, ActiveMonitors, ActiveMonitor,
           NoMonitor, IdleSweep, CleanupPC
  <1>2. Init => TypeInv
    BY TypeInit DEF TypeInv, SlotsUsed, Init, IdleConn, IdleReq
  <1>3. Init => MonitorInv
    BY <1>1, <1>2 DEF MonitorInv
  <1> QED
    BY <1>3, MonitorInvStep, PTL DEF Spec

(***************************************************************************)
(* The map of SessionCleanupService and its goroutines never disagree,     *)
(* for any number of tunnels, sessions and restarts: RegisterSession       *)
(* cancels what it replaces, UnregisterSession what it removes.            *)
(***************************************************************************)
THEOREM MonitorsRegistered == Spec => []MonitorRegistry
  <1>1. MonitorInv => MonitorRegistry
    BY RegistryInverseOK DEF MonitorInv, TypeInv
  <1> QED
    BY <1>1, MonitorInvariant, PTL

-----------------------------------------------------------------------------
(***************************************************************************)
(* WindowIsWatched: what OnDisconnect promises its goroutine rests on      *)
(* GraceSleep >= ReconnectWindow (WindowAssumption) and on nobody but      *)
(* OnDisconnect setting the key.                                           *)
(***************************************************************************)

(* A tunnel that no client has asked for yet has left no goroutine. *)
IdleUnwatched == \A c \in Conns : conn[c].pc = "idle" => watcher[c].pc = "none"

WindowInv == TypeInv /\ IdleUnwatched /\ WindowIsWatched

LEMMA WindowFrame ==
    ASSUME WindowInv, ConnFrame, UNCHANGED <<reconnect, watcher, crashes>>
    PROVE  (IdleUnwatched /\ WindowIsWatched)'
  <1> USE DEF WindowInv, ConnFrame
  <1>1. IdleUnwatched'
    BY DEF IdleUnwatched
  <1>2. ASSUME NEW s \in Sessions, reconnect'[s] > 0, crashes' = 0
        PROVE  \E c \in Conns : /\ conn'[c].s = s
                                /\ watcher'[c].pc = "sleep"
                                /\ watcher'[c].timer >= reconnect'[s]
    <2>1. PICK c \in Conns : /\ conn[c].s = s
                             /\ watcher[c].pc = "sleep"
                             /\ watcher[c].timer >= reconnect[s]
      BY <1>2 DEF WindowIsWatched
    <2>2. conn'[c].s = s
      BY <2>1 DEF IdleUnwatched
    <2> QED
      BY <2>1, <2>2
  <1> QED
    BY <1>1, <1>2 DEF WindowIsWatched

LEMMA WindowConnectClear ==
    ASSUME WindowInv, NEW c \in Conns, ConnectClear(c), ConnFrame
    PROVE  (IdleUnwatched /\ WindowIsWatched)'
  <1> USE DEF WindowInv, TypeInv, TypeOK
  <1>1. IdleUnwatched'
    BY DEF IdleUnwatched, ConnectClear, ConnFrame
  <1>2. ASSUME NEW s \in Sessions, reconnect'[s] > 0, crashes' = 0
        PROVE  \E d \in Conns : /\ conn'[d].s = s
                                /\ watcher'[d].pc = "sleep"
                                /\ watcher'[d].timer >= reconnect'[s]
    <2>1. reconnect'[s] = reconnect[s] /\ UNCHANGED <<watcher, crashes>>
      BY <1>2 DEF ConnectClear
    <2>2. PICK d \in Conns : /\ conn[d].s = s
                             /\ watcher[d].pc = "sleep"
                             /\ watcher[d].timer >= reconnect[s]
      BY <1>2, <2>1 DEF WindowIsWatched
    <2>3. conn'[d].s = s
      BY <2>2 DEF IdleUnwatched, ConnFrame
    <2> QED
      BY <2>1, <2>2, <2>3
  <1> QED
    BY <1>1, <1>2 DEF WindowIsWatched

LEMMA WindowDisconnectKey ==
    ASSUME WindowInv, NEW c \in Conns, DisconnectKey(c), ConnFrame
    PROVE  (IdleUnwatched /\ WindowIsWatched)'
  <1> USE DEF WindowInv, TypeInv, TypeOK
  <1>1. /\ \A d \in Conns : conn'[d].s = conn[d].s
        /\ conn[c].s \in Sessions
        /\ UNCHANGED crashes
    BY DEF DisconnectKey, Goto, ConnState, SlotsUsed
  <1>2. IdleUnwatched'
    BY DEF IdleUnwatched, DisconnectKey, Goto, ConnState
  <1>3. watcher'[c] = [pc |-> "sleep", timer |-> GraceSleep]
        /\ reconnect'[conn[c].s] = ReconnectWindow
    BY <1>1 DEF DisconnectKey
  <1>4. ASSUME NEW s \in Sessions, reconnect'[s] > 0, crashes' = 0
        PROVE  \E d \in Conns : /\ conn'[d].s = s
                                /\ watcher'[d].pc = "sleep"
                                /\ watcher'[d].timer >= reconnect'[s]
    <2>1. CASE s = conn[c].s
      BY <1>1, <1>3, <2>1, WindowAssumption, ConstantsAssumption
    <2>2. CASE s # conn[c].s
      <3>1. reconnect'[s] = reconnect[s]
        BY <2>2 DEF DisconnectKey
      <3>2. PICK d \in Conns : /\ conn[d].s = s
                               /\ watcher[d].pc = "sleep"
                               /\ watcher[d].timer >= reconnect[s]
        BY <1>1, <1>4, <3>1 DEF WindowIsWatched
      <3>3. watcher'[d] = watcher[d]
        BY <2>2, <3>2 DEF DisconnectKey
      <3> QED
        BY <1>1, <3>1, <3>2, <3>3
    <2> QED
      BY <2>1, <2>2
  <1> QED
    BY <1>2, <1>4 DEF WindowIsWatched

LEMMA WindowWatcherStep ==
    ASSUME WindowInv, NEW c \in Conns, WatcherStep(c)
    PROVE  (IdleUnwatched /\ WindowIsWatched)'
  <1> USE DEF WindowInv, TypeInv, TypeOK
  <1>1. /\ UNCHANGED <<conn, crashes>>
        /\ watcher[c].pc # "none"
        /\ \A d \in Conns \ {c} : watcher'[d] = watcher[d]
    BY DEF WatcherStep, WatcherPreserve, WatcherReap, WatcherDeletePod,
           WatcherDeleteKeys
  <1>2. IdleUnwatched'
    BY <1>1 DEF IdleUnwatched
  <1>3. ASSUME NEW s \in Sessions, reconnect'[s] > 0
        PROVE  reconnect'[s] = reconnect[s]
    BY <1>3 DEF WatcherStep, WatcherPreserve, WatcherReap, WatcherDeletePod,
                WatcherDeleteKeys
  <1>4. ASSUME NEW s \in Sessions, reconnect[s] > 0, conn[c].s = s
        PROVE  ~(watcher[c].pc = "sleep" /\ watcher[c].timer >= reconnect[s])
    BY <1>4 DEF WatcherStep, WatcherPreserve, WatcherReap, WatcherDeletePod,
                WatcherDeleteKeys
  <1>5. ASSUME NEW s \in Sessions, reconnect'[s] > 0, crashes' = 0
        PROVE  \E d \in Conns : /\ conn'[d].s = s
                                /\ watcher'[d].pc = "sleep"
                                /\ watcher'[d].timer >= reconnect'[s]
    BY <1>1, <1>3, <1>4, <1>5 DEF WindowIsWatched
  <1> QED
    BY <1>2, <1>5 DEF WindowIsWatched

LEMMA WindowTick ==
    ASSUME WindowInv, Tick
    PROVE  (IdleUnwatched /\ WindowIsWatched)'
  <1> USE DEF WindowInv, TypeInv, TypeOK
  <1>1. /\ UNCHANGED <<conn, crashes>>
        /\ \A d \in Conns : /\ watcher'[d].pc = watcher[d].pc
                            /\ watcher'[d].timer = Elapse(watcher[d].timer)
        /\ \A s \in Sessions : reconnect'[s] = Elapse(reconnect[s])
    BY DEF Tick, WatcherState
  <1>2. IdleUnwatched'
    BY <1>1 DEF IdleUnwatched
  <1>3. ASSUME NEW s \in Sessions, reconnect'[s] > 0, crashes' = 0
        PROVE  \E d \in Conns : /\ conn'[d].s = s
                                /\ watcher'[d].pc = "sleep"
                                /\ watcher'[d].timer >= reconnect'[s]
    <2>1. reconnect[s] > 0 /\ reconnect[s] \in Nat
      BY <1>1, <1>3 DEF Elapse
    <2>2. PICK d \in Conns : /\ conn[d].s = s
                             /\ watcher[d].pc = "sleep"
                             /\ watcher[d].timer >= reconnect[s]
      BY <1>1, <1>3, <2>1 DEF WindowIsWatched
    <2>3. watcher[d].timer \in Nat
      BY DEF WatcherState
    <2>4. Elapse(watcher[d].timer) >= Elapse(reconnect[s])
      BY <2>1, <2>2, <2>3 DEF Elapse
    <2> QED
      BY <1>1, <2>2, <2>4
  <1> QED
    BY <1>2, <1>3 DEF WindowIsWatched

LEMMA WindowCrash ==
    ASSUME WindowInv, Crash
    PROVE  (IdleUnwatched /\ WindowIsWatched)'
  <1>1. crashes' # 0
    <2>1. crashes \in Nat /\ crashes' = crashes + 1
      BY Zenon DEF WindowInv, TypeInv, TypeOK, Crash
    <2> QED
      BY <2>1
  <1> QED
    BY <1>1 DEF Crash, IdleUnwatched, WindowIsWatched, NoWatcher

LEMMA WindowInvStep == WindowInv /\ [Next]_vars => WindowInv'
  <1> SUFFICES ASSUME WindowInv, [Next]_vars
               PROVE  (IdleUnwatched /\ WindowIsWatched)'
    BY TypeInvStep DEF WindowInv
  <1>1. ConnFrame \/ Crash
    BY StepFrame DEF WindowInv
  <1>2. \/ UNCHANGED <<reconnect, watcher, crashes>> \/ Crash \/ Tick
        \/ \E c \in Conns :
             ConnectClear(c) \/ DisconnectKey(c) \/ WatcherStep(c)
    <2> DEFINE Frame == UNCHANGED <<reconnect, watcher, crashes>>
    <2>1. ASSUME NEW s \in Sessions,
                 DeployCreate(s) \/ DeployStep(s) \/ Expire(s)
          PROVE  Frame
      BY <2>1 DEF DeployCreate, DeployStep, DeployNotReady, DeployReady,
                  DeployStore, Expire
    <2>2. ASSUME NEW c \in Conns,
                 \/ \E s \in Sessions : ConnectGet(c, s)
                 \/ ConnStep(c) \/ Disconnect(c)
          PROVE  Frame \/ ConnectClear(c) \/ DisconnectKey(c)
      BY <2>2
      DEF ConnectGet, ConnStep, ConnectFresh, ConnectReconnect, ConnectTTL,
          ConnectSet, HandshakeFails, HandshakeDone, UpdateGet, UpdateTTL,
          UpdateSet, RegisterSession, DisconnectGet, DisconnectTTL,
          DisconnectSet, CloseTunnel, Disconnect, connRedisVars
    <2>3. ASSUME NEW c \in Conns, MonitorStep(c)
          PROVE  Frame
      BY <2>3 DEF MonitorStep, MonitorExpired, MonitorCancelled,
                  MonitorDeletePod, MonitorDeleteKey, MonitorUnregister,
                  cleanupRedisVars
    <2>4. ASSUME NEW r \in Reqs,
                 ReqStep(r) \/ \E s \in Sessions : ReqArrives(r, s)
          PROVE  Frame
      BY <2>4 DEF ReqArrives, ShareGet, ExtendRequest, StopGet, JoinGet,
                  ReqStep, ShareTTL, ShareSet, ExtendCheck, ExtendGet,
                  ExtendSet, StopPod, StopKey, JoinCheck, JoinDial,
                  reqRedisVars
    <2>5. SweepStep \/ UNCHANGED vars => Frame
      BY DEF SweepStep, SweepStart, SweepCheck, SweepDeletePod,
             SweepDeleteKey, SweepUnregister, cleanupRedisVars, vars
    <2> QED
      BY <2>1, <2>2, <2>3, <2>4, <2>5 DEF Next
  <1>3. CASE Crash
    BY <1>3, WindowCrash
  <1>4. CASE ConnFrame
    BY <1>2, <1>4, WindowFrame, WindowConnectClear, WindowDisconnectKey,
       WindowWatcherStep, WindowTick, WindowCrash
  <1> QED
    BY <1>1, <1>3, <1>4

(***************************************************************************)
(* The reconnect key never outlives the sleep of the goroutine that        *)
(* OnDisconnect started with it, for any number of tunnels of a session    *)
(* and any lengths of window and sleep with GraceSleep >= ReconnectWindow. *)
(***************************************************************************)
THEOREM WindowsWatched == Spec => []WindowIsWatched
  <1>1. Init => TypeInv
    BY TypeInit DEF TypeInv, SlotsUsed, Init, IdleConn, IdleReq
  <1>2. Init => IdleUnwatched /\ WindowIsWatched
    BY DEF Init, IdleUnwatched, WindowIsWatched, NoWatcher
  <1>3. Init => WindowInv
    BY <1>1, <1>2 DEF WindowInv
  <1>4. WindowInv => WindowIsWatched
    BY DEF WindowInv
  <1> QED
    BY <1>3, <1>4, WindowInvStep, PTL DEF Spec

(* Another tunnel of the session has disconnected since c, and its window  *)
(* is open.                                                                *)
AnotherWindow(c) ==
    \E d \in Conns \ {c} : /\ conn[d].s = conn[c].s
                           /\ watcher[d].pc = "sleep" /\ watcher[d].timer > 0

(***************************************************************************)
(* cmd/guac/main.go:403-421: a watcher that finds the reconnect key at the *)
(* end of its sleep, and goes on to reap, ends the window of another       *)
(* disconnection before its time; its own window has never run out with    *)
(* the key still there.  For any number of tunnels, as long as the process *)
(* lives.  So the finding WindowHonoured is no rare order of events: it is *)
(* the only way to the branch that reaps.                                  *)
(***************************************************************************)
THEOREM ReapsAreEarly ==
    Spec => [][\A c \in Conns : crashes = 0 /\ WatcherReap(c) => AnotherWindow(c)]_vars
  <1>1. ASSUME WindowInv, NEW c \in Conns, crashes = 0, WatcherReap(c)
        PROVE  AnotherWindow(c)
    <2>1. watcher[c].timer = 0 /\ reconnect[conn[c].s] > 0 /\ watcher[c].pc # "none"
      BY <1>1 DEF WatcherReap
    <2>2. conn[c].s \in Sessions
      BY <1>1, <2>1 DEF WindowInv, IdleUnwatched, TypeInv, SlotsUsed
    <2>3. PICK d \in Conns : /\ conn[d].s = conn[c].s /\ watcher[d].pc = "sleep"
                             /\ watcher[d].timer >= reconnect[conn[c].s]
      BY <1>1, <2>1, <2>2 DEF WindowInv, WindowIsWatched
    <2>4. watcher[d].timer \in Int /\ reconnect[conn[c].s] \in Int
      BY <1>1, <2>2 DEF WindowInv, TypeInv, TypeOK, WatcherState
    <2>5. watcher[d].timer > 0 /\ d # c
      BY <2>1, <2>3, <2>4
    <2> QED
      BY <2>3, <2>5 DEF AnotherWindow
  <1>2. Init => WindowInv
    <2>1. Init => TypeInv
      BY TypeInit DEF TypeInv, SlotsUsed, Init, IdleConn, IdleReq
    <2>2. Init => IdleUnwatched /\ WindowIsWatched
      BY DEF Init, IdleUnwatched, WindowIsWatched, NoWatcher
    <2> QED
      BY <2>1, <2>2 DEF WindowInv
  <1>3. WindowInv /\ [Next]_vars =>
          [\A c \in Conns : crashes = 0 /\ WatcherReap(c) => AnotherWindow(c)]_vars
    BY <1>1
  <1> QED
    BY <1>2, <1>3, WindowInvStep, PTL DEF Spec

-----------------------------------------------------------------------------
(***************************************************************************)
(* TimeLeftBounded: TTLs travel from one Redis command to another in the   *)
(* handlers' copies, and none of them ever grows on the way.  A key whose  *)
(* expiration was lost is the subject of ExpirationsKept, below.           *)
(***************************************************************************)

(* A time TimeLeftBounded allows: a timeout, or an extension on a TTL. *)
Granted(t) ==
    \/ t <= TimeoutDuration
    \/ t <= ReconnectMinimum
    \/ t <= SessionTTL
    \/ \E extension \in Extensions : t <= SessionTTL + extension

(***************************************************************************)
(* What makes TimeLeftBounded inductive: the expirations the handlers hold *)
(* between TTL and SET are granted ones too, and no copy of the document   *)
(* carries an ExpireAt further away than one timeout.                      *)
(***************************************************************************)
KeyGranted(key) ==
    key # NoKey => Granted(key.ttl) /\ key.data.expireAt <= TimeoutDuration
SlotGranted(slot) ==
    Granted(slot.ttl) /\ slot.data.expireAt <= TimeoutDuration

KeysGranted == \A s \in Sessions : KeyGranted(session[s])
ConnsGranted == \A c \in Conns : SlotGranted(conn[c])
ReqsGranted == \A r \in Reqs : SlotGranted(req[r])

TimeInv == TypeInv /\ KeysGranted /\ ConnsGranted /\ ReqsGranted

LEMMA GrantedLess ==
    ASSUME NEW t \in Int, NEW u \in Int, t <= u, Granted(u)
    PROVE  Granted(t)
  BY ConstantsAssumption DEF Granted

LEMMA GrantedSmall ==
    ASSUME NEW t \in Int, \/ t <= 0 \/ t = TimeoutDuration \/ t = SessionTTL
                          \/ t = ReconnectMinimum
    PROVE  Granted(t)
  BY ConstantsAssumption DEF Granted

LEMMA NoDataGranted == NoData.expireAt <= TimeoutDuration
  BY ConstantsAssumption DEF NoData, NewSession, Unset

(* Redis: every reply to TTL is granted, and SET keeps a key granted. *)
LEMMA RedisTTLGranted ==
    ASSUME NEW key \in SessionKey \cup {NoKey}, KeyGranted(key)
    PROVE  Granted(RedisTTL(key))
  BY GrantedSmall DEF RedisTTL, KeyGranted, Missing

LEMMA RedisSetGranted ==
    ASSUME NEW key \in SessionKey \cup {NoKey}, KeyGranted(key),
           NEW data \in SessionData, data.expireAt <= TimeoutDuration,
           NEW expiration \in Int, Granted(expiration)
    PROVE  KeyGranted(RedisSet(key, data, expiration))
  BY GrantedSmall DEF RedisSet, KeyGranted, Persistent, SessionKey

LEMMA AgeKeyGranted ==
    ASSUME NEW key \in SessionKey \cup {NoKey}, KeyGranted(key)
    PROVE  KeyGranted(AgeKey(key))
  <1>1. CASE key = NoKey
    BY <1>1 DEF AgeKey, KeyGranted
  <1>2. CASE key # NoKey
    <2>1. /\ key.ttl \in Int /\ Elapse(key.ttl) \in Int
          /\ Elapse(key.ttl) <= key.ttl
          /\ key.data.expireAt \in Int /\ Elapse(key.data.expireAt) \in Int
          /\ Elapse(key.data.expireAt) <= key.data.expireAt
          /\ key.data \in SessionData
      BY <1>2 DEF SessionKey, SessionData, Elapse, Persistent, Unset
    <2>2. /\ AgeKey(key).ttl = Elapse(key.ttl)
          /\ AgeKey(key).data.expireAt = Elapse(key.data.expireAt)
      BY <1>2, <2>1 DEF AgeKey, SessionData
    <2>3. TimeoutDuration \in Int
      BY ConstantsAssumption
    <2> QED
      BY <1>2, <2>1, <2>2, <2>3, GrantedLess DEF KeyGranted
  <1> QED
    BY <1>1, <1>2

LEMMA SetSessionGranted ==
    ASSUME TypeOK, KeysGranted, NEW s \in Sessions, NEW data \in SessionData,
           data.expireAt <= TimeoutDuration, NEW expiration \in Int,
           Granted(expiration), SetSession(s, data, expiration)
    PROVE  KeysGranted'
  <1> SUFFICES ASSUME NEW t \in Sessions PROVE KeyGranted(session'[t])
    BY DEF KeysGranted
  <1>1. CASE t = s
    <2>1. session'[s] = RedisSet(session[s], data, expiration)
      BY DEF SetSession, TypeOK
    <2> QED
      BY <1>1, <2>1, RedisSetGranted DEF TypeOK, KeysGranted
  <1>2. CASE t # s
    BY <1>2 DEF SetSession, TypeOK, KeysGranted
  <1> QED
    BY <1>1, <1>2

LEMMA DelSessionGranted ==
    ASSUME TypeOK, KeysGranted, NEW s \in Sessions, DelSession(s)
    PROVE  KeysGranted'
  BY DEF TypeOK, KeysGranted, KeyGranted, DelSession

(* The slot of one handler is given granted times; the others keep theirs. *)
LEMMA ConnGiven ==
    ASSUME TypeInv, ConnsGranted, NEW c \in Conns,
           \A d \in Conns \ {c} : conn'[d] = conn[d],
           SlotGranted(conn'[c])
    PROVE  ConnsGranted'
  BY DEF ConnsGranted

LEMMA ReqGiven ==
    ASSUME TypeInv, ReqsGranted, NEW r \in Reqs,
           \A q \in Reqs \ {r} : req'[q] = req[q],
           SlotGranted(req'[r])
    PROVE  ReqsGranted'
  BY DEF ReqsGranted

LEMMA TimeConnectGet ==
    ASSUME TimeInv, NEW c \in Conns, NEW s \in Sessions, ConnectGet(c, s)
    PROVE  (KeysGranted /\ ConnsGranted /\ ReqsGranted)'
  <1> USE DEF TimeInv
  <1>1. /\ UNCHANGED <<session, req>>
        /\ \A d \in Conns \ {c} : conn'[d] = conn[d]
        /\ conn'[c].ttl = conn[c].ttl
    BY DEF ConnectGet, connRedisVars, TypeInv, TypeOK, ConnState
  <1>2. conn'[c].data.expireAt <= TimeoutDuration
    <2>1. CASE session[s] = NoKey
      BY <2>1 DEF ConnectGet, TypeInv, TypeOK, ConnState, ConnsGranted,
                  SlotGranted
    <2>2. CASE session[s] # NoKey
      <3> DEFINE data == session[s].data
      <3>1. /\ data \in SessionData
            /\ data.expireAt <= TimeoutDuration
        BY <2>2 DEF TypeInv, TypeOK, SessionKey, KeysGranted, KeyGranted
      <3>2. conn'[c].data = IF data.expireAt = Unset
                            THEN [data EXCEPT !.expireAt = TimeoutDuration]
                            ELSE data
        BY <2>2 DEF ConnectGet, TypeInv, TypeOK, ConnState
      <3> QED
        BY <3>1, <3>2, ConstantsAssumption DEF SessionData
    <2> QED
      BY <2>1, <2>2
  <1>3. SlotGranted(conn'[c])
    BY <1>1, <1>2 DEF ConnsGranted, SlotGranted
  <1> QED
    BY <1>1, <1>3, ConnGiven DEF KeysGranted, ReqsGranted

(* The steps of a tunnel that read Redis, or nothing. *)
LEMMA TimeConnRead ==
    ASSUME TimeInv, NEW c \in Conns,
           \/ ConnectFresh(c) \/ ConnectReconnect(c) \/ ConnectClear(c)
           \/ ConnectTTL(c) \/ HandshakeFails(c) \/ HandshakeDone(c)
           \/ UpdateGet(c) \/ UpdateTTL(c) \/ RegisterSession(c)
           \/ Disconnect(c) \/ DisconnectGet(c) \/ DisconnectTTL(c)
           \/ DisconnectKey(c) \/ CloseTunnel(c)
    PROVE  (KeysGranted /\ ConnsGranted /\ ReqsGranted)'
  <1> DEFINE key == session[conn[c].s]
             data == conn[c].data
             reply == RedisTTL(key)
  <1> USE DEF TimeInv
  <1>1. UNCHANGED <<session, req>>
    BY DEF ConnectFresh, ConnectReconnect, ConnectClear, ConnectTTL,
           HandshakeFails, HandshakeDone, UpdateGet, UpdateTTL,
           RegisterSession, Disconnect, DisconnectGet, DisconnectTTL,
           DisconnectKey, CloseTunnel, connRedisVars
  <1>2. /\ SlotGranted(conn[c])
        /\ data \in SessionData /\ data.expireAt \in Int
        /\ conn[c].pc # "idle" =>
             key \in SessionKey \cup {NoKey} /\ KeyGranted(key)
    BY ConnFields DEF ConnsGranted, KeysGranted
  <1>3. conn[c].pc # "idle" => reply \in Int /\ Granted(reply)
    BY <1>2, ConnFields, RedisTTLGranted
  <1>4. CASE \E pc \in ConnPC : Goto(c, pc)
    BY <1>1, <1>2, <1>4, ConnGiven
    DEF Goto, TypeInv, TypeOK, ConnState, SlotGranted, KeysGranted,
        ReqsGranted
  <1>5. CASE \E pc \in ConnPC, ttl \in Int :
               /\ conn' = [conn EXCEPT ![c].pc = pc, ![c].ttl = ttl]
               /\ Granted(ttl)
    BY <1>1, <1>2, <1>5, ConnGiven
    DEF TypeInv, TypeOK, ConnState, SlotGranted, KeysGranted, ReqsGranted
  <1>6. CASE \E pc \in ConnPC, copy \in SessionData :
               /\ conn' = [conn EXCEPT ![c].pc = pc, ![c].data = copy]
               /\ copy.expireAt <= TimeoutDuration
    BY <1>1, <1>2, <1>6, ConnGiven
    DEF TypeInv, TypeOK, ConnState, SlotGranted, KeysGranted, ReqsGranted
  <1>7. CASE ConnectFresh(c)
    <2> DEFINE ttl == IF data.expireAt > 0 THEN data.expireAt
                      ELSE TimeoutDuration
    <2>1. ttl \in Int /\ Granted(ttl) /\ "set" \in ConnPC
      BY <1>2, ConstantsAssumption DEF SlotGranted, Granted, ConnPC, ConnectPC
    <2>2. conn' = [conn EXCEPT ![c].pc = "set", ![c].ttl = ttl]
      BY <1>7 DEF ConnectFresh
    <2> QED
      BY <1>5, <2>1, <2>2, Zenon
  <1>8. CASE ConnectTTL(c)
    <2> DEFINE left == IF reply > 0 THEN reply ELSE data.expireAt
               ttl == IF left > 0 THEN left ELSE ReconnectMinimum
    <2>1. reply \in Int /\ Granted(reply) /\ "set" \in ConnPC
      BY <1>3, <1>8 DEF ConnectTTL, ConnPC, ConnectPC
    <2>2. Granted(data.expireAt) /\ Granted(ReconnectMinimum)
      BY <1>2, ConstantsAssumption DEF SlotGranted, Granted
    <2>3. ttl \in Int /\ Granted(ttl)
      BY <1>2, <2>1, <2>2, ConstantsAssumption
    <2>4. conn' = [conn EXCEPT ![c].pc = "set", ![c].ttl = ttl]
      BY <1>8 DEF ConnectTTL
    <2> QED
      BY <1>5, <2>1, <2>3, <2>4, Zenon
  <1>9. CASE UpdateTTL(c)
    <2> DEFINE ttl == IF reply >= 0 THEN reply
                      ELSE IF data.expireAt # Unset THEN TimeoutDuration
                           ELSE SessionTTL
    <2>1. reply \in Int /\ Granted(reply) /\ "updSet" \in ConnPC
      BY <1>3, <1>9 DEF UpdateTTL, ConnPC, ConnectPC
    <2>2. Granted(TimeoutDuration) /\ Granted(SessionTTL)
      BY ConstantsAssumption DEF Granted
    <2>3. ttl \in Int /\ Granted(ttl)
      BY <2>1, <2>2, ConstantsAssumption
    <2>4. conn' = [conn EXCEPT ![c].pc = "updSet", ![c].ttl = ttl]
      BY <1>9 DEF UpdateTTL
    <2> QED
      BY <1>5, <2>1, <2>3, <2>4, Zenon
  <1>10. CASE DisconnectTTL(c)
    <2> DEFINE ttl == IF reply >= 0 THEN reply
                      ELSE IF data.expireAt # Unset THEN data.expireAt ELSE 0
    <2>1. reply \in Int /\ Granted(reply) /\ "discSet" \in ConnPC
      BY <1>3, <1>10 DEF DisconnectTTL, ConnPC, RegisteredPC, DisconnectPC
    <2>2. Granted(data.expireAt) /\ Granted(0)
      BY <1>2, ConstantsAssumption DEF SlotGranted, Granted
    <2>3. ttl \in Int /\ Granted(ttl)
      BY <1>2, <2>1, <2>2
    <2>4. conn' = [conn EXCEPT ![c].pc = "discSet", ![c].ttl = ttl]
      BY <1>10 DEF DisconnectTTL
    <2> QED
      BY <1>5, <2>1, <2>3, <2>4, Zenon
  <1>11. CASE UpdateGet(c)
    <2> DEFINE copy == [key.data EXCEPT !.tunnel = c, !.share = conn[c].share]
    <2>1. CASE Goto(c, "register")
      BY <1>4, <2>1 DEF ConnPC, ConnectPC
    <2>2. CASE key # NoKey /\ conn' =
                 [conn EXCEPT ![c].pc = "updTTL", ![c].data = copy]
      <3>1. /\ key \in SessionKey /\ key.data \in SessionData
            /\ key.data.expireAt <= TimeoutDuration
        BY <1>2, <1>11, <2>2 DEF UpdateGet, KeyGranted, SessionKey
      <3>2. copy \in SessionData /\ copy.expireAt = key.data.expireAt
        BY <3>1, ConnFields DEF SessionData
      <3>3. copy.expireAt <= TimeoutDuration
        BY <3>1, <3>2, Zenon
      <3>4. "updTTL" \in ConnPC
        BY DEF ConnPC, ConnectPC
      <3> QED
        BY <1>6, <2>2, <3>2, <3>3, <3>4, Zenon
    <2> QED
      BY <1>11, <2>1, <2>2 DEF UpdateGet
  <1>12. CASE DisconnectGet(c)
    <2>1. CASE Goto(c, "close")
      BY <1>4, <2>1 DEF ConnPC, RegisteredPC, DisconnectPC
    <2>2. CASE key # NoKey /\ conn' =
                 [conn EXCEPT ![c].pc = "discTTL", ![c].data = key.data]
      <3>1. /\ key.data \in SessionData
            /\ key.data.expireAt <= TimeoutDuration
        BY <1>2, <1>12, <2>2 DEF DisconnectGet, KeyGranted, SessionKey
      <3>2. "discTTL" \in ConnPC
        BY DEF ConnPC, RegisteredPC, DisconnectPC
      <3> QED
        BY <1>6, <2>2, <3>1, <3>2, Zenon
    <2> QED
      BY <1>12, <2>1, <2>2 DEF DisconnectGet
  <1>13. CASE \/ ConnectReconnect(c) \/ ConnectClear(c) \/ HandshakeFails(c)
              \/ HandshakeDone(c) \/ RegisterSession(c) \/ Disconnect(c)
              \/ DisconnectKey(c) \/ CloseTunnel(c)
    BY <1>4, <1>13
    DEF ConnectReconnect, ConnectClear, HandshakeFails, HandshakeDone,
        RegisterSession, Disconnect, DisconnectKey, CloseTunnel, ConnPC,
        ConnectPC, RegisteredPC, DisconnectPC
  <1> QED
    BY <1>7, <1>8, <1>9, <1>10, <1>11, <1>12, <1>13

(* The steps that write a copy back with the time the handler holds. *)
LEMMA TimeConnSet ==
    ASSUME TimeInv, NEW c \in Conns,
           ConnectSet(c) \/ UpdateSet(c) \/ DisconnectSet(c)
    PROVE  (KeysGranted /\ ConnsGranted /\ ReqsGranted)'
  <1> USE DEF TimeInv
  <1>1. /\ conn[c].pc # "idle"
        /\ SetSession(conn[c].s, conn[c].data, conn[c].ttl)
        /\ UNCHANGED req
    BY DEF ConnectSet, UpdateSet, DisconnectSet, connRedisVars
  <1>2. KeysGranted'
    BY <1>1, ConnFields, SetSessionGranted
    DEF TypeInv, ConnsGranted, SlotGranted
  <1>3. /\ \A d \in Conns \ {c} : conn'[d] = conn[d]
        /\ conn'[c].data = NoData /\ conn'[c].ttl = 0
    BY DEF ConnectSet, UpdateSet, DisconnectSet, TypeInv, TypeOK, ConnState
  <1>4. SlotGranted(conn'[c])
    BY <1>3, NoDataGranted, GrantedSmall DEF SlotGranted
  <1> QED
    BY <1>1, <1>2, <1>3, <1>4, ConnGiven DEF ReqsGranted

LEMMA TimeReqArrives ==
    ASSUME TimeInv, NEW r \in Reqs, NEW s \in Sessions, ReqArrives(r, s)
    PROVE  (KeysGranted /\ ConnsGranted /\ ReqsGranted)'
  <1> DEFINE key == session[s]
  <1> USE DEF TimeInv
  <1>1. UNCHANGED <<session, conn>>
    BY DEF ReqArrives, ShareGet, ExtendRequest, StopGet, JoinGet, reqRedisVars
  <1>2. /\ \A q \in Reqs \ {r} : req'[q] = req[q]
        /\ req'[r].ttl = req[r].ttl
        /\ \/ req'[r].data = req[r].data
           \/ key # NoKey /\ req'[r].data = key.data
    <2>1. CASE \E pc \in ReqPC : req' = [req EXCEPT ![r].pc = pc, ![r].s = s]
      BY <2>1 DEF TypeInv, TypeOK, ReqState
    <2>2. CASE \E pc \in ReqPC :
                 /\ key # NoKey
                 /\ req' = [req EXCEPT ![r].pc = pc, ![r].s = s,
                                       ![r].data = key.data]
      BY <2>2 DEF TypeInv, TypeOK, ReqState
    <2> QED
      BY <2>1, <2>2
      DEF ReqArrives, ShareGet, ExtendRequest, StopGet, JoinGet, HasTunnel,
          ReqPC, SharePC, ExtendPC, StopPC, JoinPC
  <1>3. SlotGranted(req'[r])
    BY <1>2 DEF SlotGranted, ReqsGranted, KeysGranted, KeyGranted
  <1> QED
    BY <1>1, <1>2, <1>3, ReqGiven DEF KeysGranted, ConnsGranted

(* A request that ends, or goes on without touching its copy. *)
LEMMA TimeAnswer ==
    ASSUME TimeInv, NEW r \in Reqs, NEW result, Answer(r, result)
    PROVE  ReqsGranted'
  <1>1. /\ \A q \in Reqs \ {r} : req'[q] = req[q]
        /\ req'[r].data = NoData /\ req'[r].ttl = 0
    BY DEF Answer, TimeInv, TypeInv, TypeOK, ReqState
  <1>2. SlotGranted(req'[r])
    BY <1>1, NoDataGranted, GrantedSmall DEF SlotGranted
  <1> QED
    BY <1>1, <1>2, ReqGiven DEF TimeInv

LEMMA TimeReqStep ==
    ASSUME TimeInv, NEW r \in Reqs, ReqStep(r)
    PROVE  (KeysGranted /\ ConnsGranted /\ ReqsGranted)'
  <1> DEFINE key == session[req[r].s]
             reply == RedisTTL(key)
  <1> USE DEF TimeInv
  <1>1. UNCHANGED conn
    BY DEF ReqStep, ShareTTL, ShareSet, ExtendCheck, ExtendGet, ExtendSet,
           StopPod, StopKey, JoinCheck, JoinDial, reqRedisVars
  <1>2. ConnsGranted'
    BY <1>1 DEF ConnsGranted
  <1>3. /\ req[r].pc # "idle"
        /\ req[r].s \in Sessions /\ key \in SessionKey \cup {NoKey}
        /\ KeyGranted(key) /\ SlotGranted(req[r])
        /\ req[r] \in ReqState
        /\ reply \in Int
    BY ReqFields DEF ReqStep, ShareTTL, ShareSet, ExtendCheck, ExtendGet,
       ExtendSet, StopPod, StopKey, JoinCheck, JoinDial, KeysGranted,
       ReqsGranted
  <1>4. Granted(reply)
    BY <1>3, RedisTTLGranted
  <1>5. UNCHANGED session => KeysGranted'
    BY DEF KeysGranted
  <1>6. CASE ShareTTL(r)
    <2>1. UNCHANGED session
      BY <1>6 DEF ShareTTL
    <2>2. CASE Answer(r, "shared")
      BY <1>2, <1>5, <2>1, <2>2, TimeAnswer
    <2>3. CASE req' = [req EXCEPT
                         ![r].pc = "shareSet",
                         ![r].data = [req[r].data EXCEPT !.share = TRUE],
                         ![r].ttl = reply]
      <3>1. /\ \A q \in Reqs \ {r} : req'[q] = req[q]
            /\ req'[r].data.expireAt = req[r].data.expireAt
            /\ req'[r].ttl = reply
        BY <1>3, <2>3 DEF TypeInv, TypeOK, ReqState, SessionData
      <3>2. SlotGranted(req'[r])
        BY <1>3, <1>4, <3>1 DEF SlotGranted
      <3> QED
        BY <1>2, <1>5, <2>1, <3>1, <3>2, ReqGiven
    <2> QED
      BY <1>6, <2>2, <2>3 DEF ShareTTL
  <1>7. CASE ShareSet(r) \/ ExtendSet(r)
    <2>1. /\ SetSession(req[r].s, req[r].data, req[r].ttl)
          /\ \E result : Answer(r, result)
      BY <1>7 DEF ShareSet, ExtendSet
    <2>2. KeysGranted'
      BY <1>3, <2>1, ReqFields, SetSessionGranted DEF TypeInv, SlotGranted
    <2> QED
      BY <1>2, <2>1, <2>2, TimeAnswer
  <1>8. CASE ExtendCheck(r)
    <2>1. UNCHANGED session
      BY <1>8 DEF ExtendCheck
    <2>2. CASE Answer(r, "refused")
      BY <1>2, <1>5, <2>1, <2>2, TimeAnswer
    <2>3. CASE CanExtend(key) /\ \E extension \in Extensions :
                 req' = [req EXCEPT ![r].pc = "extendGet",
                                    ![r].ttl = reply + extension]
      <3>1. PICK extension \in Extensions :
              req' = [req EXCEPT ![r].pc = "extendGet",
                                 ![r].ttl = reply + extension]
        BY <2>3
      <3>2. reply <= SessionTTL
        BY <2>3, ConstantsAssumption DEF CanExtend
      <3>3. reply + extension <= SessionTTL + extension
        BY <1>3, <3>2, ConstantsAssumption
      <3>4. Granted(reply + extension)
        BY <3>3, Zenon DEF Granted
      <3>5. /\ \A q \in Reqs \ {r} : req'[q] = req[q]
            /\ req'[r].data = req[r].data
            /\ req'[r].ttl = reply + extension
        BY <3>1 DEF TypeInv, TypeOK, ReqState
      <3>6. SlotGranted(req'[r])
        BY <1>3, <3>4, <3>5 DEF SlotGranted
      <3> QED
        BY <1>2, <1>5, <2>1, <3>5, <3>6, ReqGiven
    <2> QED
      BY <1>8, <2>2, <2>3 DEF ExtendCheck
  <1>9. CASE ExtendGet(r)
    <2>1. UNCHANGED session
      BY <1>9 DEF ExtendGet
    <2>2. CASE Answer(r, "refused")
      BY <1>2, <1>5, <2>1, <2>2, TimeAnswer
    <2>3. CASE key # NoKey /\ req' = [req EXCEPT ![r].pc = "extendSet",
                                                 ![r].data = key.data]
      <3>1. /\ \A q \in Reqs \ {r} : req'[q] = req[q]
            /\ req'[r].data = key.data
            /\ req'[r].ttl = req[r].ttl
        BY <2>3 DEF TypeInv, TypeOK, ReqState
      <3>2. SlotGranted(req'[r])
        BY <1>3, <2>3, <3>1 DEF SlotGranted, KeyGranted
      <3> QED
        BY <1>2, <1>5, <2>1, <3>1, <3>2, ReqGiven
    <2> QED
      BY <1>9, <2>2, <2>3 DEF ExtendGet
  <1>10. CASE StopKey(r)
    BY <1>2, <1>3, <1>10, DelSessionGranted, TimeAnswer DEF StopKey, TypeInv
  <1>11. CASE (\E result : Answer(r, result)) /\ UNCHANGED session
    BY <1>2, <1>5, <1>11, TimeAnswer
  <1>12. CASE \E pc : req' = [req EXCEPT ![r].pc = pc] /\ UNCHANGED session
    <2>1. /\ \A q \in Reqs \ {r} : req'[q] = req[q]
          /\ req'[r].data = req[r].data /\ req'[r].ttl = req[r].ttl
      BY <1>12 DEF TypeInv, TypeOK, ReqState
    <2> QED
      BY <1>2, <1>3, <1>5, <1>12, <2>1, ReqGiven DEF SlotGranted
  <1> QED
    BY <1>6, <1>7, <1>8, <1>9, <1>10, <1>11, <1>12
    DEF ReqStep, StopPod, JoinCheck, JoinDial

LEMMA TimeTick ==
    ASSUME TimeInv, Tick
    PROVE  (KeysGranted /\ ConnsGranted /\ ReqsGranted)'
  <1>1. KeysGranted'
    <2> SUFFICES ASSUME NEW s \in Sessions PROVE KeyGranted(session'[s])
      BY DEF KeysGranted
    <2>1. session'[s] = AgeKey(session[s])
      BY DEF Tick
    <2> QED
      BY <2>1, AgeKeyGranted DEF TimeInv, TypeInv, TypeOK, KeysGranted
  <1> QED
    BY <1>1 DEF TimeInv, Tick, ConnsGranted, ReqsGranted

LEMMA TimeCrash ==
    ASSUME TimeInv, Crash
    PROVE  (KeysGranted /\ ConnsGranted /\ ReqsGranted)'
  <1> USE DEF TimeInv
  <1>1. KeysGranted'
    BY DEF Crash, KeysGranted
  <1>2. ConnsGranted'
    <2> SUFFICES ASSUME NEW c \in Conns PROVE SlotGranted(conn'[c])
      BY DEF ConnsGranted
    <2>1. \/ conn'[c] = conn[c]
          \/ conn'[c].data = NoData /\ conn'[c].ttl = 0
      BY DEF Crash, IdleConn
    <2> QED
      BY <2>1, NoDataGranted, GrantedSmall DEF SlotGranted, ConnsGranted
  <1>3. ReqsGranted'
    <2> SUFFICES ASSUME NEW r \in Reqs PROVE SlotGranted(req'[r])
      BY DEF ReqsGranted
    <2>1. \/ req'[r] = req[r]
          \/ req'[r].data = NoData /\ req'[r].ttl = 0
      BY DEF Crash, IdleReq
    <2> QED
      BY <2>1, NoDataGranted, GrantedSmall DEF SlotGranted, ReqsGranted
  <1> QED
    BY <1>1, <1>2, <1>3

(* Everybody else deletes keys, or stores a new session without a time. *)
LEMMA TimeOthers ==
    ASSUME TimeInv,
           \/ \E s \in Sessions : DeployCreate(s) \/ DeployStep(s) \/ Expire(s)
           \/ \E c \in Conns : WatcherStep(c) \/ MonitorStep(c)
           \/ SweepStep
    PROVE  (KeysGranted /\ ConnsGranted /\ ReqsGranted)'
  <1> USE DEF TimeInv
  <1>1. UNCHANGED <<conn, req>>
    BY DEF DeployCreate, DeployStep, DeployNotReady, DeployReady, DeployStore,
           Expire, WatcherStep, WatcherPreserve, WatcherReap,
           WatcherDeletePod, WatcherDeleteKeys, MonitorStep, MonitorExpired,
           MonitorCancelled, MonitorDeletePod, MonitorDeleteKey,
           MonitorUnregister, SweepStep, SweepStart, SweepCheck,
           SweepDeletePod, SweepDeleteKey, SweepUnregister, cleanupRedisVars
  <1>2. \/ UNCHANGED session
        \/ \E s : DelSession(s)
        \/ \E s \in Sessions : DeployStore(s)
    BY DEF DeployCreate, DeployStep, DeployNotReady, DeployReady,
           Expire, WatcherStep, WatcherPreserve, WatcherReap,
           WatcherDeletePod, WatcherDeleteKeys, MonitorStep, MonitorExpired,
           MonitorCancelled, MonitorDeletePod, MonitorDeleteKey,
           MonitorUnregister, SweepStep, SweepStart, SweepCheck,
           SweepDeletePod, SweepDeleteKey, SweepUnregister
  <1>3. (\E s : DelSession(s)) => KeysGranted'
    BY DEF DelSession, TypeInv, TypeOK, KeysGranted, KeyGranted
  <1>4. ASSUME NEW s \in Sessions, DeployStore(s) PROVE KeysGranted'
    <2>1. PICK share \in BOOLEAN : SetSession(s, NewSession(share), 0)
      BY <1>4 DEF DeployStore
    <2>2. /\ NewSession(share) \in SessionData
          /\ NewSession(share).expireAt <= TimeoutDuration
          /\ Granted(0)
      BY NewSessionType, GrantedSmall, ConstantsAssumption
      DEF NewSession, Unset
    <2> QED
      BY <2>1, <2>2, SetSessionGranted DEF TypeInv
  <1>5. UNCHANGED session => KeysGranted'
    BY DEF KeysGranted
  <1> QED
    BY <1>1, <1>2, <1>3, <1>4, <1>5 DEF ConnsGranted, ReqsGranted

LEMMA TimeInvStep == TimeInv /\ [Next]_vars => TimeInv'
  <1> SUFFICES ASSUME TimeInv, [Next]_vars
               PROVE  (KeysGranted /\ ConnsGranted /\ ReqsGranted)'
    BY TypeInvStep DEF TimeInv
  <1>1. CASE UNCHANGED vars
    BY <1>1 DEF vars, TimeInv, KeysGranted, ConnsGranted, ReqsGranted
  <1>2. ASSUME NEW c \in Conns, ConnStep(c) \/ Disconnect(c)
        PROVE  (KeysGranted /\ ConnsGranted /\ ReqsGranted)'
    BY <1>2, TimeConnRead, TimeConnSet DEF ConnStep
  <1> QED
    BY <1>1, <1>2, TimeConnectGet, TimeReqArrives, TimeReqStep, TimeTick,
       TimeCrash, TimeOthers
    DEF Next

(***************************************************************************)
(* A session key that expires never has more time left than one timeout,   *)
(* or one extension on top of a last SessionTTL, for any number of tunnels *)
(* and requests that read and write the key between each other's commands, *)
(* and any extensions.                                                     *)
(***************************************************************************)
THEOREM TimeBounded == Spec => []TimeLeftBounded
  <1>1. Init => TypeInv
    BY TypeInit DEF TypeInv, SlotsUsed, Init, IdleConn, IdleReq
  <1>2. Init => KeysGranted /\ ConnsGranted /\ ReqsGranted
    BY NoDataGranted, GrantedSmall
    DEF Init, KeysGranted, KeyGranted, ConnsGranted, ReqsGranted, SlotGranted,
        IdleConn, IdleReq
  <1>3. Init => TimeInv
    BY <1>1, <1>2 DEF TimeInv
  <1>4. TimeInv => TimeLeftBounded
    BY DEF TimeInv, KeysGranted, KeyGranted, Granted, Expires, TimeLeftBounded
  <1> QED
    BY <1>3, <1>4, TimeInvStep, PTL DEF Spec

-----------------------------------------------------------------------------
(***************************************************************************)
(* What the backend promises about the pods, for every value of the        *)
(* constants: Supervised, and the refinement of PodLifecycle's safety.     *)
(*                                                                         *)
(* The argument.  A tunnel and a request only exist for a session whose    *)
(* deployment is done, so pods are created once and nobody deletes a pod   *)
(* that is not there (Deployed).  A cleanup that has come past its call to *)
(* DeletePod has a deleted pod behind it, unless Kubernetes may refuse     *)
(* (CleanedUp); only then does it unregister.                              *)
(***************************************************************************)
Deployed ==
    /\ \A c \in Conns : conn[c].pc # "idle" => deploy[conn[c].s] = "done"
    /\ \A r \in Reqs : req[r].pc # "idle" => deploy[req[r].s] = "done"
    /\ \A s \in Sessions : deploy[s] = "idle" <=> pod[s] = "none"

PastDeletePod == {"deleteKey", "unregister"}

CleanedUp ==
    ~PodDeleteMayFail =>
        /\ \A c \in Conns :
             monitor[c].pc \in PastDeletePod => pod[conn[c].s] = "deleted"
        /\ sweep.pc \in PastDeletePod => pod[conn[sweep.cur].s] = "deleted"

PodInv == MonitorInv /\ WindowInv /\ Deployed /\ CleanedUp /\ Supervised

(***************************************************************************)
(* What a step of a live process may do to the deployments and the pods:   *)
(* create the pod of a deployment that begins, or delete pods that exist.  *)
(***************************************************************************)
PodFrame ==
    \A s \in Sessions :
        /\ deploy[s] = "done" => deploy'[s] = "done"
        /\ deploy[s] # "idle" => deploy'[s] # "idle"
        /\ \/ pod'[s] = pod[s] /\ (deploy[s] = "idle" => deploy'[s] = "idle")
           \/ pod'[s] = "deleted" /\ deploy[s] # "idle"
           \/ deploy[s] = "idle" /\ deploy'[s] # "idle" /\ pod'[s] = "running"

(* Every goroutine works on a session whose deployment is done. *)
LEMMA PodSlots ==
    ASSUME PodInv
    PROVE  /\ \A c \in Conns :
                conn[c].pc # "idle" \/ watcher[c].pc # "none"
                  \/ monitor[c].pc # "none" =>
                    conn[c].s \in Sessions /\ deploy[conn[c].s] = "done"
           /\ \A r \in Reqs : req[r].pc # "idle" =>
                req[r].s \in Sessions /\ deploy[req[r].s] = "done"
           /\ sweep.pc \in CleanupPC =>
                /\ conn[sweep.cur].s \in Sessions
                /\ deploy[conn[sweep.cur].s] = "done"
  BY DEF PodInv, MonitorInv, TypeInv, WindowInv, SlotsUsed, Deployed,
         IdleUnwatched, CleanupSlots, RegisteredPC, DisconnectPC

LEMMA DeletePodFrame ==
    ASSUME PodInv, NEW s \in Sessions, deploy[s] # "idle", DeletePod(s),
           UNCHANGED deploy
    PROVE  PodFrame
  BY DEF DeletePod, PodFrame, PodInv, MonitorInv, TypeInv, TypeOK

LEMMA PodStepFrame ==
    ASSUME PodInv, [Next]_vars
    PROVE  PodFrame
  <1> USE DEF PodInv, MonitorInv, TypeInv, TypeOK
  <1>1. CASE UNCHANGED <<pod, deploy>>
    BY <1>1 DEF PodFrame
  <1>2. ASSUME NEW s \in Sessions, DeployCreate(s)
        PROVE  PodFrame
    BY <1>2 DEF DeployCreate, PodFrame
  <1>3. ASSUME NEW s \in Sessions, DeployStep(s)
        PROVE  PodFrame
    BY <1>3 DEF DeployStep, DeployNotReady, DeployReady, DeployStore,
                DeletePod, PodFrame
  <1>4. ASSUME NEW c \in Conns, WatcherStep(c)
        PROVE  PodFrame
    <2>1. CASE WatcherDeletePod(c)
      BY <2>1, PodSlots, DeletePodFrame DEF WatcherDeletePod
    <2>2. CASE ~WatcherDeletePod(c)
      BY <1>1, <1>4, <2>2
      DEF WatcherStep, WatcherPreserve, WatcherReap, WatcherDeleteKeys
    <2> QED
      BY <2>1, <2>2
  <1>5. ASSUME NEW c \in Conns, MonitorStep(c)
        PROVE  PodFrame
    <2>1. CASE MonitorDeletePod(c)
      BY <2>1, PodSlots, DeletePodFrame
      DEF MonitorDeletePod, cleanupRedisVars
    <2>2. CASE ~MonitorDeletePod(c)
      BY <1>1, <1>5, <2>2
      DEF MonitorStep, MonitorExpired, MonitorCancelled, MonitorDeleteKey,
          MonitorUnregister, cleanupRedisVars
    <2> QED
      BY <2>1, <2>2
  <1>6. CASE SweepStep
    <2>1. CASE SweepDeletePod
      BY <2>1, PodSlots, DeletePodFrame
      DEF SweepDeletePod, cleanupRedisVars, CleanupPC
    <2>2. CASE ~SweepDeletePod
      BY <1>1, <1>6, <2>2
      DEF SweepStep, SweepStart, SweepCheck, SweepDeleteKey, SweepUnregister,
          cleanupRedisVars
    <2> QED
      BY <2>1, <2>2
  <1>7. ASSUME NEW r \in Reqs,
               ReqStep(r) \/ \E s \in Sessions : ReqArrives(r, s)
        PROVE  PodFrame
    <2>1. CASE StopPod(r)
      BY <2>1, PodSlots, DeletePodFrame DEF StopPod
    <2>2. CASE ~StopPod(r)
      BY <1>1, <1>7, <2>2
      DEF ReqArrives, ShareGet, ExtendRequest, StopGet, JoinGet, ReqStep,
          ShareTTL, ShareSet, ExtendCheck, ExtendGet, ExtendSet, StopKey,
          JoinCheck, JoinDial, reqRedisVars
    <2> QED
      BY <2>1, <2>2
  <1>8. ASSUME NEW c \in Conns,
               \/ \E s \in Sessions : ConnectGet(c, s)
               \/ ConnStep(c) \/ Disconnect(c)
        PROVE  UNCHANGED <<pod, deploy>>
    BY <1>8
    DEF ConnectGet, ConnStep, ConnectFresh, ConnectReconnect, ConnectClear,
        ConnectTTL, ConnectSet, HandshakeFails, HandshakeDone, UpdateGet,
        UpdateTTL, UpdateSet, RegisterSession, DisconnectGet, DisconnectTTL,
        DisconnectSet, DisconnectKey, CloseTunnel, Disconnect, connRedisVars
  <1>9. Tick \/ UNCHANGED vars => UNCHANGED <<pod, deploy>>
    BY DEF Tick, vars
  <1>10. ASSUME NEW s \in Sessions, Expire(s)
         PROVE  UNCHANGED <<pod, deploy>>
    BY <1>10 DEF Expire
  <1>11. CASE Crash
    BY <1>11 DEF Crash, PodFrame
  <1> QED
    BY <1>1, <1>2, <1>3, <1>4, <1>5, <1>6, <1>7, <1>8, <1>9, <1>10, <1>11
    DEF Next

-----------------------------------------------------------------------------
LEMMA ReqStepFrame ==
    ASSUME PodInv, [Next]_vars
    PROVE  \A r \in Reqs : req'[r].pc # "idle" =>
             /\ req'[r].s \in Sessions
             /\ deploy[req'[r].s] = "done"
  <1> DEFINE Named(q) == q.s \in Sessions /\ deploy[q.s] = "done"
  <1> USE DEF PodInv, MonitorInv, TypeInv, TypeOK
  <1>1. CASE UNCHANGED req
    BY <1>1, PodSlots
  <1>2. ASSUME NEW r \in Reqs, NEW s \in Sessions, ReqArrives(r, s)
        PROVE  /\ Named(req'[r])
               /\ \A q \in Reqs \ {r} : req'[q] = req[q]
    BY <1>2 DEF ReqArrives, ShareGet, ExtendRequest, StopGet, JoinGet,
                Arrives, ReqState
  <1>3. ASSUME NEW r \in Reqs, ReqStep(r)
        PROVE  /\ req[r].pc # "idle" /\ req'[r].s = req[r].s
               /\ \A q \in Reqs \ {r} : req'[q] = req[q]
    <2>1. CASE ShareTTL(r)
      BY <2>1 DEF ShareTTL, Answer, ReqState
    <2>2. CASE ShareSet(r) \/ ExtendSet(r) \/ StopPod(r) \/ StopKey(r)
      BY <2>2 DEF ShareSet, ExtendSet, StopPod, StopKey, Answer, ReqState
    <2>3. CASE ExtendCheck(r) \/ ExtendGet(r)
      BY <2>3 DEF ExtendCheck, ExtendGet, Answer, ReqState
    <2>4. CASE JoinCheck(r) \/ JoinDial(r)
      BY <2>4 DEF JoinCheck, JoinDial, Answer, ReqState
    <2> QED
      BY <1>3, <2>1, <2>2, <2>3, <2>4 DEF ReqStep
  <1>4. ASSUME NEW s \in Sessions, DeployCreate(s) \/ DeployStep(s) \/ Expire(s)
        PROVE  UNCHANGED req
    BY <1>4 DEF DeployCreate, DeployStep, DeployNotReady, DeployReady,
                DeployStore, Expire
  <1>5. ASSUME NEW c \in Conns, WatcherStep(c) \/ MonitorStep(c)
        PROVE  UNCHANGED req
    BY <1>5 DEF WatcherStep, WatcherPreserve, WatcherReap, WatcherDeletePod,
                WatcherDeleteKeys, MonitorStep, MonitorExpired,
                MonitorCancelled, MonitorDeletePod, MonitorDeleteKey,
                MonitorUnregister, cleanupRedisVars
  <1>6. ASSUME NEW c \in Conns,
               \/ \E s \in Sessions : ConnectGet(c, s)
               \/ ConnStep(c) \/ Disconnect(c)
        PROVE  UNCHANGED req
    BY <1>6
    DEF ConnectGet, ConnStep, ConnectFresh, ConnectReconnect, ConnectClear,
        ConnectTTL, ConnectSet, HandshakeFails, HandshakeDone, UpdateGet,
        UpdateTTL, UpdateSet, RegisterSession, DisconnectGet, DisconnectTTL,
        DisconnectSet, DisconnectKey, CloseTunnel, Disconnect, connRedisVars
  <1>7. SweepStep \/ Tick \/ UNCHANGED vars => UNCHANGED req
    BY DEF SweepStep, SweepStart, SweepCheck, SweepDeletePod, SweepDeleteKey,
           SweepUnregister, cleanupRedisVars, Tick, vars
  <1>8. CASE Crash
    <2>1. \A r \in Reqs : \/ req[r].pc = "idle" /\ req'[r] = req[r]
                          \/ req[r].pc # "idle" /\ req'[r].s = req[r].s
      BY <1>8 DEF Crash, IdleReq
    <2> QED
      BY <2>1, PodSlots
  <1> QED
    BY <1>1, <1>2, <1>3, <1>4, <1>5, <1>6, <1>7, <1>8, PodSlots DEF Next

LEMMA DeployedStep ==
    ASSUME PodInv, [Next]_vars
    PROVE  Deployed'
  <1>1. PodFrame
    BY PodStepFrame
  <1>2. \A r \in Reqs : req'[r].pc # "idle" => deploy'[req'[r].s] = "done"
    BY <1>1, ReqStepFrame DEF PodFrame
  <1>3. \A c \in Conns : conn'[c].pc # "idle" => deploy'[conn'[c].s] = "done"
    <2>1. CASE ConnFrame
      BY <1>1, <2>1, PodSlots DEF ConnFrame, PodFrame
    <2>2. CASE Crash
      BY <1>1, <2>2, PodSlots DEF Crash, PodFrame, IdleConn
    <2> QED
      BY <2>1, <2>2, StepFrame DEF PodInv, MonitorInv
  <1>4. \A s \in Sessions : deploy'[s] = "idle" <=> pod'[s] = "none"
    BY <1>1 DEF PodFrame, PodInv, Deployed
  <1> QED
    BY <1>2, <1>3, <1>4 DEF Deployed

-----------------------------------------------------------------------------
LEMMA DeletedStays ==
    ASSUME PodInv, PodFrame, NEW s \in Sessions, deploy[s] = "done"
    PROVE  /\ pod[s] = "deleted" => pod'[s] = "deleted"
           /\ pod'[s] = "running" => pod[s] = "running"
  BY DEF PodFrame

LEMMA CleanedUpStep ==
    ASSUME PodInv, [Next]_vars, ~PodDeleteMayFail
    PROVE  CleanedUp'
  <1> USE DEF PodInv, MonitorInv, TypeInv, TypeOK
  <1>1. PodFrame
    BY PodStepFrame
  <1>2. \A c \in Conns : monitor[c].pc \in PastDeletePod =>
          pod[conn[c].s] = "deleted" /\ pod'[conn[c].s] = "deleted"
    BY <1>1, PodSlots, DeletedStays DEF CleanedUp, PastDeletePod
  <1>3. sweep.pc \in PastDeletePod =>
          pod[conn[sweep.cur].s] = "deleted"
            /\ pod'[conn[sweep.cur].s] = "deleted"
    BY <1>1, PodSlots, DeletedStays DEF CleanedUp, PastDeletePod, CleanupPC
  <1>4. CASE Crash
    BY <1>4 DEF Crash, CleanedUp, NoMonitor, IdleSweep, PastDeletePod
  <1>5. CASE ConnFrame /\ UNCHANGED sweep
               /\ \A c \in Conns : monitor'[c].pc \in PastDeletePod =>
                                     monitor[c].pc \in PastDeletePod
    <2>1. \A c \in Conns : monitor[c].pc # "none" => conn'[c].s = conn[c].s
      BY <1>5 DEF ConnFrame, CleanupSlots, RegisteredPC, DisconnectPC
    <2>2. sweep.pc \in PastDeletePod =>
            sweep'.cur = sweep.cur /\ conn'[sweep.cur].s = conn[sweep.cur].s
      BY <1>5 DEF ConnFrame, CleanupSlots, RegisteredPC, DisconnectPC,
                  PastDeletePod, CleanupPC
    <2> QED
      BY <1>2, <1>3, <1>5, <2>1, <2>2 DEF CleanedUp, PastDeletePod
  <1>6. ASSUME NEW c \in Conns, RegisterSession(c), ConnFrame
        PROVE  CleanedUp'
    <2>1. UNCHANGED sweep /\ \A d \in Conns :
            monitor'[d].pc \in PastDeletePod => monitor[d].pc \in PastDeletePod
      BY <1>6 DEF RegisterSession, PastDeletePod, MonitorState
    <2> QED
      BY <1>5, <1>6, <2>1
  <1>7. ASSUME NEW c \in Conns, MonitorStep(c)
        PROVE  CleanedUp'
    <2>1. UNCHANGED <<conn, sweep>>
      BY <1>7 DEF MonitorStep, MonitorExpired, MonitorCancelled,
                  MonitorDeletePod, MonitorDeleteKey, MonitorUnregister,
                  cleanupRedisVars
    <2>2. \A d \in Conns \ {c} : monitor'[d].pc = monitor[d].pc
      <3>1. CASE MonitorUnregister(c)
        BY <3>1 DEF MonitorUnregister, Unregister, MonitorState
      <3>2. CASE ~MonitorUnregister(c)
        BY <1>7, <3>2 DEF MonitorStep, MonitorExpired, MonitorCancelled,
             MonitorDeletePod, MonitorDeleteKey, MonitorGoto, MonitorState
      <3> QED
        BY <3>1, <3>2
    <2>3. monitor'[c].pc \in PastDeletePod => pod'[conn[c].s] = "deleted"
      <3>1. CASE MonitorDeletePod(c)
        BY <3>1, PodSlots DEF MonitorDeletePod, DeletePod
      <3>2. CASE MonitorDeleteKey(c)
        BY <3>2, <1>2 DEF MonitorDeleteKey, PastDeletePod
      <3>3. CASE MonitorExpired(c) \/ MonitorCancelled(c)
        BY <3>3 DEF MonitorExpired, MonitorCancelled, MonitorGoto,
                    PastDeletePod, MonitorState
      <3>4. CASE MonitorUnregister(c)
        BY <3>4 DEF MonitorUnregister, Unregister, PastDeletePod,
                    MonitorState
      <3> QED
        BY <1>7, <3>1, <3>2, <3>3, <3>4 DEF MonitorStep
    <2> QED
      BY <1>2, <1>3, <2>1, <2>2, <2>3 DEF CleanedUp
  <1>8. CASE SweepStep
    <2>1. UNCHANGED conn /\ \A d \in Conns : monitor'[d].pc = monitor[d].pc
      <3>1. CASE SweepUnregister
        BY <3>1 DEF SweepUnregister, Unregister, cleanupRedisVars,
                    MonitorState
      <3>2. CASE ~SweepUnregister
        BY <1>8, <3>2 DEF SweepStep, SweepStart, SweepCheck, SweepDeletePod,
                          SweepDeleteKey, cleanupRedisVars
      <3> QED
        BY <3>1, <3>2
    <2>2. sweep'.pc \in PastDeletePod => pod'[conn[sweep'.cur].s] = "deleted"
      <3>1. CASE SweepDeletePod
        BY <3>1, PodSlots DEF SweepDeletePod, DeletePod, CleanupPC, SweepState
      <3>2. CASE SweepDeleteKey
        BY <3>2, <1>3 DEF SweepDeleteKey, PastDeletePod, SweepState
      <3>3. CASE SweepStart \/ (\E c \in Conns : SweepCheck(c))
                   \/ SweepUnregister
        <4>1. sweep'.pc \in {"idle", "check", "deletePod"}
          BY <3>3 DEF SweepStart, SweepCheck, SweepUnregister, SweepRest
        <4> QED
          BY <4>1 DEF PastDeletePod
      <3> QED
        BY <1>8, <3>1, <3>2, <3>3 DEF SweepStep
    <2> QED
      BY <1>2, <2>1, <2>2 DEF CleanedUp
  <1>9. CleanupFrame => UNCHANGED sweep /\ UNCHANGED monitor
    BY DEF CleanupFrame
  <1> QED
    BY <1>4, <1>5, <1>6, <1>7, <1>8, <1>9, StepFrame, CleanupSteps

LEMMA CrashedConns ==
    ASSUME Crash, NEW c \in Conns
    PROVE  conn'[c].pc \notin RegisteredPC
  <1>1. conn'[c].pc \in {"idle", "dead"}
    BY DEF Crash, IdleConn
  <1> QED
    BY <1>1 DEF RegisteredPC, DisconnectPC

LEMMA AlreadyRegistered ==
    ASSUME ConnFrame, NEW c \in Conns, conn'[c].pc \in RegisteredPC,
           ~RegisterSession(c)
    PROVE  conn'[c].s = conn[c].s /\ conn[c].pc \in RegisteredPC
  BY DEF ConnFrame, RegisteredPC, DisconnectPC

LEMMA SupervisedStep ==
    ASSUME PodInv, [Next]_vars, ~PodDeleteMayFail
    PROVE  Supervised'
  <1> USE DEF PodInv, MonitorInv, TypeInv, TypeOK
  <1>1. PodFrame
    BY PodStepFrame
  <1>2. SUFFICES ASSUME NEW s \in Sessions, NEW c \in Conns,
                        conn'[c].s = s, conn'[c].pc \in RegisteredPC,
                        pod'[s] = "running"
                 PROVE  registry'[s] # NoConn
    BY DEF Supervised, Registered
  <1>3. ~Crash
    BY <1>2, CrashedConns
  <1>4. ConnFrame
    BY <1>3, StepFrame
  <1>5. CASE RegisterSession(c)
    BY <1>2, <1>5, ConstantsAssumption
    DEF RegisterSession, Goto, ConnState, SlotsUsed
  <1>6. CASE ~RegisterSession(c)
    <2>1. conn[c].s = s /\ conn[c].pc \in RegisteredPC
      BY <1>2, <1>4, <1>6, AlreadyRegistered
    <2>2. pod[s] = "running"
      BY <1>1, <1>2, <2>1, PodSlots, DeletedStays
      DEF RegisteredPC, DisconnectPC
    <2>3. registry[s] # NoConn
      BY <2>1, <2>2 DEF Supervised, Registered
    <2>4. CASE UNCHANGED registry
      BY <2>3, <2>4
    <2>5. ASSUME NEW d \in Conns, RegisterSession(d)
          PROVE  registry'[s] # NoConn
      BY <2>3, <2>5, ConstantsAssumption DEF RegisterSession
    <2>6. ASSUME NEW d \in Conns, MonitorUnregister(d)
          PROVE  registry'[s] # NoConn
      <3>1. pod[conn[d].s] = "deleted"
        BY <2>6 DEF MonitorUnregister, CleanedUp, PastDeletePod
      <3> QED
        BY <2>2, <2>3, <2>6, <3>1 DEF MonitorUnregister, Unregister
    <2>7. ASSUME SweepUnregister
          PROVE  registry'[s] # NoConn
      <3>1. pod[conn[sweep.cur].s] = "deleted"
        BY <2>7 DEF SweepUnregister, CleanedUp, PastDeletePod
      <3> QED
        BY <2>2, <2>3, <2>7, <3>1 DEF SweepUnregister, Unregister
    <2>8. \/ UNCHANGED registry \/ SweepUnregister
          \/ \E d \in Conns : RegisterSession(d) \/ MonitorUnregister(d)
      BY <1>3, CleanupSteps
      DEF CleanupFrame, MonitorStep, MonitorExpired, MonitorCancelled,
          MonitorDeletePod, MonitorDeleteKey, SweepStep, SweepStart,
          SweepCheck, SweepDeletePod, SweepDeleteKey
    <2> QED
      BY <2>4, <2>5, <2>6, <2>7, <2>8
  <1> QED
    BY <1>5, <1>6

LEMMA PodInvStep == PodInv /\ [Next]_vars => PodInv'
  <1> SUFFICES ASSUME PodInv, [Next]_vars PROVE PodInv'
    OBVIOUS
  <1>1. CleanedUp' /\ Supervised'
    <2>1. CASE PodDeleteMayFail
      BY <2>1 DEF CleanedUp, Supervised
    <2> QED
      BY <2>1, CleanedUpStep, SupervisedStep
  <1> QED
    BY <1>1, MonitorInvStep, WindowInvStep, DeployedStep DEF PodInv

LEMMA PodInvariant == Spec => []PodInv
  <1>1. Init => TypeInv
    BY TypeInit DEF TypeInv, SlotsUsed, Init, IdleConn, IdleReq
  <1>2. Init => CleanupSlots /\ RegistryInverse
    BY DEF Init, CleanupSlots, RegistryInverse, ActiveMonitors, ActiveMonitor,
           NoMonitor, IdleSweep, CleanupPC
  <1>3. Init => IdleUnwatched /\ WindowIsWatched
    BY DEF Init, IdleUnwatched, WindowIsWatched, NoWatcher
  <1>4. Init => Deployed /\ CleanedUp /\ Supervised
    BY DEF Init, Deployed, CleanedUp, Supervised, Registered, IdleConn,
           IdleReq, NoMonitor, IdleSweep, PastDeletePod, RegisteredPC,
           DisconnectPC
  <1>5. Init => PodInv
    BY <1>1, <1>2, <1>3, <1>4 DEF PodInv, MonitorInv, WindowInv
  <1> QED
    BY <1>5, PodInvStep, PTL DEF Spec

(***************************************************************************)
(* A pod that still runs after one of its tunnels was registered has a     *)
(* monitor, for any number of tunnels, monitors and sweeps, as long as     *)
(* Kubernetes refuses no deletion.                                         *)
(***************************************************************************)
THEOREM PodsSupervised == Spec => []Supervised
  <1>1. PodInv => Supervised
    BY DEF PodInv
  <1> QED
    BY <1>1, PodInvariant, PTL

-----------------------------------------------------------------------------
(***************************************************************************)
(* The refinement.  Phase changes where pod or registry does: for one      *)
(* session in every step but Crash, which abandons all that are supervised.*)
(***************************************************************************)
PhaseOf(p, r) ==
    IF p = "none" THEN "absent"
    ELSE IF p = "deleted" THEN "deleted"
    ELSE IF r # NoConn THEN "supervised" ELSE "started"

LEMMA PhaseIs ==
    /\ Phase = [s \in Sessions |-> PhaseOf(pod[s], registry[s])]
    /\ Phase' = [s \in Sessions |-> PhaseOf(pod'[s], registry'[s])]
  BY DEF Phase, PhaseOf

LEMMA PhaseOfOne ==
    ASSUME NEW s \in Sessions,
           \A t \in Sessions \ {s} :
             pod'[t] = pod[t] /\ registry'[t] = registry[t]
    PROVE  Phase' = [Phase EXCEPT ![s] = PhaseOf(pod'[s], registry'[s])]
  BY PhaseIs

LEMMA LifecycleStep ==
    ASSUME PodInv, NEW s \in Sessions,
           \A t \in Sessions \ {s} :
             pod'[t] = pod[t] /\ registry'[t] = registry[t],
           \/ pod'[s] = pod[s] /\ registry'[s] = registry[s]
           \/ /\ pod[s] = "none" /\ pod'[s] = "running"
              /\ registry[s] = NoConn /\ registry'[s] = NoConn
           \/ pod[s] = "running" /\ pod'[s] = "deleted"
           \/ pod[s] = "deleted" /\ pod'[s] = "deleted"
           \/ /\ pod[s] = "running" /\ pod'[s] = "running"
              /\ registry'[s] # NoConn \/ PodDeleteMayFail
    PROVE  [Lifecycle!Next]_Phase
  <1> DEFINE from == PhaseOf(pod[s], registry[s])
             to == PhaseOf(pod'[s], registry'[s])
  <1>1. Phase[s] = from /\ Phase' = [Phase EXCEPT ![s] = to]
    BY PhaseIs, PhaseOfOne
  <1>2. CASE from = to
    <2>1. Phase = [t \in Sessions |-> Phase[t]]
      BY PhaseIs
    <2>2. Phase' = Phase
      BY <1>1, <1>2, <2>1
    <2> QED
      BY <2>2
  <1>3. CASE from = "absent" /\ to = "started"
    BY <1>1, <1>3, Zenon DEF Lifecycle!Next, Lifecycle!Start
  <1>4. CASE from = "started" /\ to = "supervised"
    BY <1>1, <1>4, Zenon DEF Lifecycle!Next, Lifecycle!Supervise
  <1>5. CASE from \in {"started", "supervised"} /\ to = "deleted"
    BY <1>1, <1>5, Zenon DEF Lifecycle!Next, Lifecycle!Delete
  <1>6. CASE from = "supervised" /\ to = "started" /\ PodDeleteMayFail
    <2>1. Phase' = [t \in Sessions |->
                      IF t \in {s} THEN "started" ELSE Phase[t]]
      BY <1>1, <1>6, PhaseIs
    <2>2. Lifecycle!Abandon
      BY <1>1, <1>6, <2>1, Zenon DEF Lifecycle!Abandon
    <2> QED
      BY <2>2 DEF Lifecycle!Next
  <1>7. \/ from = to
        \/ from = "absent" /\ to = "started"
        \/ from = "started" /\ to = "supervised"
        \/ from \in {"started", "supervised"} /\ to = "deleted"
        \/ from = "supervised" /\ to = "started" /\ PodDeleteMayFail
    BY DEF PhaseOf
  <1> HIDE DEF from, to
  <1> QED
    BY <1>2, <1>3, <1>4, <1>5, <1>6, <1>7

LEMMA LifecycleCrash ==
    ASSUME PodInv, Crash
    PROVE  [Lifecycle!Next]_Phase
  <1> DEFINE lost == {s \in Sessions : Phase[s] = "supervised"}
  <1>1. MaxCrashes > 0
    <2>1. crashes \in Nat /\ crashes < MaxCrashes /\ MaxCrashes \in Nat
      BY ConstantsAssumption, Zenon
      DEF PodInv, MonitorInv, TypeInv, TypeOK, Crash
    <2> QED
      BY <2>1
  <1>2. UNCHANGED pod /\ \A s \in Sessions : registry'[s] = NoConn
    BY DEF Crash
  <1>3. Phase' = [s \in Sessions |->
                    IF s \in lost THEN "started" ELSE Phase[s]]
    BY <1>2, PhaseIs DEF PhaseOf
  <1>4. Lifecycle!Abandon
    BY <1>1, <1>3, Zenon DEF Lifecycle!Abandon
  <1> QED
    BY <1>4 DEF Lifecycle!Next

LEMMA LifecycleNext ==
    ASSUME PodInv, [Next]_vars
    PROVE  [Lifecycle!Next]_Phase
  <1> USE DEF PodInv, MonitorInv, TypeInv, TypeOK
  <1>1. PodFrame
    BY PodStepFrame
  <1>2. ASSUME NEW s \in Sessions, registry[s] # NoConn
        PROVE  pod[s] # "none"
    <2>1. registry[s] \in Conns /\ conn[registry[s]].s = s
            /\ monitor[registry[s]].pc # "none"
      BY <1>2 DEF RegistryInverse, ActiveMonitors, ActiveMonitor, CleanupPC
    <2> QED
      BY <2>1, PodSlots DEF Deployed
  <1>3. \A s \in Sessions : deploy[s] # "idle" => pod[s] \in {"running", "deleted"}
    BY DEF Deployed
  <1>4. CASE UNCHANGED <<pod, registry>>
    <2>1. UNCHANGED Phase
      BY <1>4 DEF Phase
    <2> QED
      BY <2>1
  <1>5. ASSUME NEW s \in Sessions, deploy[s] # "idle", DeletePod(s),
               UNCHANGED registry
        PROVE  [Lifecycle!Next]_Phase
    <2>1. \A t \in Sessions \ {s} : pod'[t] = pod[t]
      BY <1>5 DEF DeletePod
    <2>2. pod'[s] = pod[s] \/ pod'[s] = "deleted"
      BY <1>5 DEF DeletePod
    <2> QED
      BY <1>3, <1>5, <2>1, <2>2, LifecycleStep
  <1>6. ASSUME NEW s \in Sessions, DeployCreate(s)
        PROVE  [Lifecycle!Next]_Phase
    <2>1. /\ pod[s] = "none" /\ pod'[s] = "running"
          /\ registry[s] = NoConn /\ registry'[s] = NoConn
          /\ \A t \in Sessions \ {s} :
               pod'[t] = pod[t] /\ registry'[t] = registry[t]
      BY <1>2, <1>6 DEF DeployCreate, Deployed
    <2> QED
      BY <2>1, LifecycleStep
  <1>7. ASSUME NEW s \in Sessions, DeployStep(s) \/ Expire(s)
        PROVE  [Lifecycle!Next]_Phase
    <2>1. CASE DeployNotReady(s)
      BY <1>4, <1>5, <2>1 DEF DeployNotReady
    <2>2. CASE ~DeployNotReady(s)
      BY <1>4, <1>7, <2>2 DEF DeployStep, DeployReady, DeployStore, Expire
    <2> QED
      BY <2>1, <2>2
  <1>8. ASSUME NEW c \in Conns, RegisterSession(c)
        PROVE  [Lifecycle!Next]_Phase
    <2> DEFINE s == conn[c].s
    <2>1. s \in Sessions /\ deploy[s] = "done"
      BY <1>8, PodSlots DEF RegisterSession
    <2>2. /\ UNCHANGED pod /\ registry'[s] # NoConn
          /\ \A t \in Sessions \ {s} : registry'[t] = registry[t]
      BY <1>8, <2>1, ConstantsAssumption DEF RegisterSession
    <2>3. pod[s] \in {"running", "deleted"}
      BY <1>3, <2>1
    <2> HIDE DEF s
    <2> QED
      BY <2>1, <2>2, <2>3, LifecycleStep
  <1>9. ASSUME NEW s \in Sessions, UNCHANGED pod,
               registry' = [registry EXCEPT ![s] = NoConn],
               pod[s] = "deleted" \/ PodDeleteMayFail
        PROVE  [Lifecycle!Next]_Phase
    <2>1. \A t \in Sessions \ {s} : registry'[t] = registry[t]
      BY <1>9
    <2>2. pod[s] = "none" => registry'[s] = registry[s]
      BY <1>2, <1>9
    <2> QED
      BY <1>9, <2>1, <2>2, LifecycleStep
  <1>10. ASSUME NEW c \in Conns, MonitorStep(c)
         PROVE  [Lifecycle!Next]_Phase
    <2>1. CASE MonitorDeletePod(c)
      BY <1>5, <2>1, PodSlots DEF MonitorDeletePod
    <2>2. CASE MonitorUnregister(c)
      BY <1>9, <2>2, PodSlots
      DEF MonitorUnregister, Unregister, CleanedUp, PastDeletePod
    <2>3. CASE MonitorExpired(c) \/ MonitorCancelled(c) \/ MonitorDeleteKey(c)
      BY <1>4, <2>3 DEF MonitorExpired, MonitorCancelled, MonitorDeleteKey
    <2> QED
      BY <1>10, <2>1, <2>2, <2>3 DEF MonitorStep
  <1>11. CASE SweepStep
    <2>1. CASE SweepDeletePod
      BY <1>5, <2>1, PodSlots DEF SweepDeletePod, CleanupPC
    <2>2. CASE SweepUnregister
      BY <1>9, <2>2, PodSlots
      DEF SweepUnregister, Unregister, CleanedUp, PastDeletePod, CleanupPC
    <2>3. CASE SweepStart \/ (\E c \in Conns : SweepCheck(c))
                 \/ SweepDeleteKey
      BY <1>4, <2>3 DEF SweepStart, SweepCheck, SweepDeleteKey
    <2> QED
      BY <1>11, <2>1, <2>2, <2>3 DEF SweepStep
  <1>12. ASSUME NEW c \in Conns, WatcherStep(c)
         PROVE  [Lifecycle!Next]_Phase
    <2>1. CASE WatcherDeletePod(c)
      BY <1>5, <2>1, PodSlots DEF WatcherDeletePod
    <2>2. CASE ~WatcherDeletePod(c)
      BY <1>4, <1>12, <2>2
      DEF WatcherStep, WatcherPreserve, WatcherReap, WatcherDeleteKeys
    <2> QED
      BY <2>1, <2>2
  <1>13. ASSUME NEW r \in Reqs,
                ReqStep(r) \/ \E s \in Sessions : ReqArrives(r, s)
         PROVE  [Lifecycle!Next]_Phase
    <2>1. CASE StopPod(r)
      BY <1>5, <2>1, PodSlots DEF StopPod
    <2>2. CASE ~StopPod(r)
      BY <1>4, <1>13, <2>2
      DEF ReqArrives, ShareGet, ExtendRequest, StopGet, JoinGet, ReqStep,
          ShareTTL, ShareSet, ExtendCheck, ExtendGet, ExtendSet, StopKey,
          JoinCheck, JoinDial, reqRedisVars
    <2> QED
      BY <2>1, <2>2
  <1>14. ASSUME NEW c \in Conns,
                \/ \E s \in Sessions : ConnectGet(c, s)
                \/ ConnStep(c) \/ Disconnect(c)
         PROVE  UNCHANGED <<pod, registry>> \/ RegisterSession(c)
    BY <1>14
    DEF ConnectGet, ConnStep, ConnectFresh, ConnectReconnect, ConnectClear,
        ConnectTTL, ConnectSet, HandshakeFails, HandshakeDone, UpdateGet,
        UpdateTTL, UpdateSet, DisconnectGet, DisconnectTTL, DisconnectSet,
        DisconnectKey, CloseTunnel, Disconnect, connRedisVars
  <1>15. Tick \/ UNCHANGED vars => UNCHANGED <<pod, registry>>
    BY DEF Tick, vars
  <1> QED
    BY <1>4, <1>6, <1>7, <1>8, <1>10, <1>11, <1>12, <1>13, <1>14, <1>15,
       LifecycleCrash DEF Next

(***************************************************************************)
(* The backend implements the safety of PodLifecycle: for any number of    *)
(* sessions, tunnels, requests and restarts a pod is started once, never   *)
(* comes back, and is supervised until it is deleted, unless a refused     *)
(* deletion or a restart has lost it.                                      *)
(***************************************************************************)
THEOREM PodsImplementLifecycle == Spec => PodsSafe
  <1>1. Init => Lifecycle!Init
    BY DEF Init, Lifecycle!Init, Phase
  <1>2. PodInv /\ [Next]_vars => [Lifecycle!Next]_Phase
    BY LifecycleNext
  <1> QED
    BY <1>1, <1>2, PodInvariant, PTL DEF Spec, PodsSafe, Lifecycle!Safe
-----------------------------------------------------------------------------
(***************************************************************************)
(* UnlimitedOnlyAtTheEnd.  The argument: what a handler holds when it is   *)
(* about to write is above 0 for a tunnel that connects and a request that *)
(* extends, not negative for a tunnel that updates or disconnects, and a   *)
(* reply of TTL for a share request (ConnsHold, ReqsHold); a positive      *)
(* expiration and KEEPTTL leave an expiring key expiring.  The deployment, *)
(* which writes without a time, finds no key (NothingStored).              *)
(***************************************************************************)
WritePC == {"set", "updSet", "discSet"}

ConnHolds(slot) ==
    /\ slot.pc = "set" => slot.ttl > 0
    /\ slot.pc \in {"updSet", "discSet"} => slot.ttl >= 0

ReqHolds(slot) ==
    /\ slot.pc \in {"extendGet", "extendSet"} => slot.ttl > 0
    /\ slot.pc = "shareSet" => slot.ttl >= Missing

ConnsHold == \A c \in Conns : ConnHolds(conn[c])
ReqsHold == \A r \in Reqs : ReqHolds(req[r])
NothingStored == \A s \in Sessions : deploy[s] # "done" => session[s] = NoKey

WriteInv == PodInv /\ ConnsHold /\ ReqsHold /\ NothingStored

LEMMA RedisTTLLeast ==
    ASSUME NEW key \in SessionKey \cup {NoKey}
    PROVE  RedisTTL(key) >= Missing
  BY DEF RedisTTL, SessionKey, Persistent, Missing

(* A positive expiration, and KEEPTTL, leave an expiring key expiring. *)
LEMMA RedisSetExpires ==
    ASSUME NEW key \in SessionKey, Expires(key), NEW data,
           NEW expiration \in Int, expiration > 0 \/ expiration = KeepTTL
    PROVE  RedisSet(key, data, expiration).ttl # Persistent
  BY DEF RedisSet, Expires, Persistent, KeepTTL

LEMMA AgeKeyExpires ==
    ASSUME NEW key \in SessionKey, Expires(key)
    PROVE  AgeKey(key).ttl # Persistent
  BY DEF AgeKey, Expires, Elapse, SessionKey, Persistent

(* Who gets a tunnel to one of its writes, and with what. *)
LEMMA ConnHoldsStep ==
    ASSUME TypeInv, ConnsHold, NEW c \in Conns,
           ConnStep(c) \/ Disconnect(c)
    PROVE  ConnsHold'
  <1> DEFINE reply == RedisTTL(session[conn[c].s])
             left == conn[c].data.expireAt
  <1> USE DEF TypeInv, TypeOK
  <1>1. /\ left \in Nat \cup {Unset}
        /\ conn[c].pc # "idle" => reply \in Int
    BY ConnFields DEF ConnState, SessionData
  <1>2. ASSUME \A d \in Conns \ {c} : conn'[d] = conn[d], ConnHolds(conn'[c])
        PROVE  ConnsHold'
    BY <1>2 DEF ConnsHold
  <1>3. ASSUME \A d \in Conns \ {c} : conn'[d] = conn[d],
               conn'[c].pc \notin WritePC
        PROVE  ConnsHold'
    BY <1>3 DEF ConnsHold, ConnHolds, WritePC
  <1>4. CASE ConnectFresh(c)
    <2> DEFINE ttl == IF left > 0 THEN left ELSE TimeoutDuration
    <2>1. ttl > 0
      BY <1>1, ConstantsAssumption
    <2>2. conn' = [conn EXCEPT ![c].pc = "set", ![c].ttl = ttl]
      BY <1>4 DEF ConnectFresh
    <2> HIDE DEF ttl
    <2>3. /\ \A d \in Conns \ {c} : conn'[d] = conn[d]
          /\ conn'[c].pc = "set" /\ conn'[c].ttl = ttl
      BY <2>2 DEF ConnState
    <2> QED
      BY <1>2, <2>1, <2>3 DEF ConnHolds
  <1>5. CASE ConnectTTL(c)
    <2> DEFINE found == IF reply > 0 THEN reply ELSE left
               ttl == IF found > 0 THEN found ELSE ReconnectMinimum
    <2>1. ttl > 0
      BY ConstantsAssumption
    <2>2. conn' = [conn EXCEPT ![c].pc = "set", ![c].ttl = ttl]
      BY <1>5 DEF ConnectTTL
    <2> HIDE DEF ttl
    <2>3. /\ \A d \in Conns \ {c} : conn'[d] = conn[d]
          /\ conn'[c].pc = "set" /\ conn'[c].ttl = ttl
      BY <2>2 DEF ConnState
    <2> QED
      BY <1>2, <2>1, <2>3 DEF ConnHolds
  <1>6. CASE UpdateTTL(c)
    <2> DEFINE ttl == IF reply >= 0 THEN reply
                      ELSE IF left # Unset THEN TimeoutDuration ELSE SessionTTL
    <2>1. ttl >= 0
      BY ConstantsAssumption
    <2>2. conn' = [conn EXCEPT ![c].pc = "updSet", ![c].ttl = ttl]
      BY <1>6 DEF UpdateTTL
    <2> HIDE DEF ttl
    <2>3. /\ \A d \in Conns \ {c} : conn'[d] = conn[d]
          /\ conn'[c].pc = "updSet" /\ conn'[c].ttl = ttl
      BY <2>2 DEF ConnState
    <2> QED
      BY <1>2, <2>1, <2>3 DEF ConnHolds
  <1>7. CASE DisconnectTTL(c)
    <2> DEFINE ttl == IF reply >= 0 THEN reply
                      ELSE IF left # Unset THEN left ELSE 0
    <2>1. ttl >= 0
      BY <1>1 DEF Unset
    <2>2. conn' = [conn EXCEPT ![c].pc = "discSet", ![c].ttl = ttl]
      BY <1>7 DEF DisconnectTTL
    <2> HIDE DEF ttl
    <2>3. /\ \A d \in Conns \ {c} : conn'[d] = conn[d]
          /\ conn'[c].pc = "discSet" /\ conn'[c].ttl = ttl
      BY <2>2 DEF ConnState
    <2> QED
      BY <1>2, <2>1, <2>3 DEF ConnHolds
  <1>8. CASE \E pc \in ConnPC \ WritePC : Goto(c, pc)
    BY <1>3, <1>8 DEF Goto, ConnState
  <1>9. CASE \/ ConnectReconnect(c) \/ ConnectClear(c) \/ HandshakeFails(c)
             \/ HandshakeDone(c) \/ RegisterSession(c) \/ Disconnect(c)
             \/ DisconnectKey(c) \/ CloseTunnel(c)
    BY <1>8, <1>9
    DEF ConnectReconnect, ConnectClear, HandshakeFails, HandshakeDone,
        RegisterSession, Disconnect, DisconnectKey, CloseTunnel, ConnPC,
        ConnectPC, RegisteredPC, DisconnectPC, WritePC
  <1>10. CASE \/ ConnectSet(c) \/ UpdateSet(c) \/ DisconnectSet(c)
             \/ UpdateGet(c) \/ DisconnectGet(c)
    <2>1. /\ \A d \in Conns \ {c} : conn'[d] = conn[d]
          /\ conn'[c].pc \notin WritePC
      BY <1>10 DEF ConnectSet, UpdateSet, DisconnectSet, UpdateGet,
                  DisconnectGet, Goto, ConnState, WritePC
    <2> QED
      BY <1>3, <2>1
  <1> QED
    BY <1>4, <1>5, <1>6, <1>7, <1>9, <1>10 DEF ConnStep

LEMMA ReqHoldsStep ==
    ASSUME TypeInv, ReqsHold, NEW r \in Reqs,
           ReqStep(r) \/ \E s \in Sessions : ReqArrives(r, s)
    PROVE  ReqsHold'
  <1> DEFINE reply == RedisTTL(session[req[r].s])
             HeldPC == ExtendPC \cup SharePC
  <1> USE DEF TypeInv, TypeOK
  <1>1. req[r].pc # "idle" => reply \in Int /\ reply >= Missing
    BY ReqFields, RedisTTLLeast DEF ReqState
  <1>2. ASSUME \A q \in Reqs \ {r} : req'[q] = req[q], ReqHolds(req'[r])
        PROVE  ReqsHold'
    BY <1>2 DEF ReqsHold
  <1>3. ASSUME NEW result, Answer(r, result),
               result \in {"refused", "shared", "extended", "stopped", "joined"}
        PROVE  ReqsHold'
    BY <1>2, <1>3 DEF Answer, ReqHolds, ReqState
  <1>4. CASE \E s \in Sessions : ReqArrives(r, s)
    <2>1. /\ \A q \in Reqs \ {r} : req'[q] = req[q]
          /\ req'[r].pc \in {"refused", "shareTTL", "extendCheck", "stopPod",
                             "joinCheck"}
      BY <1>4 DEF ReqArrives, ShareGet, ExtendRequest, StopGet, JoinGet,
                  ReqState
    <2> QED
      BY <1>2, <2>1 DEF ReqHolds
  <1>5. CASE ShareTTL(r)
    <2>1. CASE Answer(r, "shared")
      BY <1>3, <2>1
    <2>2. CASE req' = [req EXCEPT
                         ![r].pc = "shareSet",
                         ![r].data = [req[r].data EXCEPT !.share = TRUE],
                         ![r].ttl = reply]
      <3>1. reply >= Missing
        BY <1>1, <1>5 DEF ShareTTL
      <3>2. /\ \A q \in Reqs \ {r} : req'[q] = req[q]
            /\ req'[r].pc = "shareSet" /\ req'[r].ttl = reply
        BY <2>2 DEF ReqState
      <3> QED
        BY <1>2, <3>1, <3>2 DEF ReqHolds
    <2> QED
      BY <1>5, <2>1, <2>2 DEF ShareTTL
  <1>6. CASE ExtendCheck(r)
    <2>1. CASE Answer(r, "refused")
      BY <1>3, <2>1
    <2>2. CASE reply \in 1..SessionTTL /\ \E extension \in Extensions :
                 req' = [req EXCEPT ![r].pc = "extendGet",
                                    ![r].ttl = reply + extension]
      <3>1. PICK extension \in Extensions :
              req' = [req EXCEPT ![r].pc = "extendGet",
                                 ![r].ttl = reply + extension]
        BY <2>2
      <3>2. reply + extension > 0
        BY <2>2, ConstantsAssumption
      <3>3. /\ \A q \in Reqs \ {r} : req'[q] = req[q]
            /\ req'[r].pc = "extendGet" /\ req'[r].ttl = reply + extension
        BY <3>1 DEF ReqState
      <3> QED
        BY <1>2, <3>2, <3>3 DEF ReqHolds
    <2> QED
      BY <1>6, <2>1, <2>2 DEF ExtendCheck, CanExtend
  <1>7. CASE ExtendGet(r)
    <2>1. CASE Answer(r, "refused")
      BY <1>3, <2>1
    <2>2. CASE req' = [req EXCEPT ![r].pc = "extendSet",
                                  ![r].data = session[req[r].s].data]
      BY <1>2, <1>7, <2>2 DEF ExtendGet, ReqHolds, ReqState, ReqsHold
    <2> QED
      BY <1>7, <2>1, <2>2 DEF ExtendGet
  <1>8. CASE ShareSet(r) \/ ExtendSet(r) \/ StopKey(r) \/ JoinDial(r)
    BY <1>3, <1>8 DEF ShareSet, ExtendSet, StopKey, JoinDial
  <1>9. CASE StopPod(r) \/ JoinCheck(r)
    <2>1. CASE Answer(r, "refused")
      BY <1>3, <2>1
    <2>2. CASE \E pc \in {"stopKey", "joinDial"} :
                 req' = [req EXCEPT ![r].pc = pc]
      BY <1>2, <2>2 DEF ReqHolds, ReqState
    <2> QED
      BY <1>9, <2>1, <2>2 DEF StopPod, JoinCheck
  <1> QED
    BY <1>4, <1>5, <1>6, <1>7, <1>8, <1>9 DEF ReqStep

(* Who touches the key of a session, and how. *)
LEMMA SessionSteps ==
    ASSUME [Next]_vars
    PROVE  \/ UNCHANGED session
           \/ \E s : DelSession(s)
           \/ Tick
           \/ \E s \in Sessions : DeployStore(s)
           \/ \E c \in Conns : ConnectSet(c) \/ UpdateSet(c) \/ DisconnectSet(c)
           \/ \E r \in Reqs : ShareSet(r) \/ ExtendSet(r)
  <1>1. ASSUME NEW s \in Sessions,
               DeployCreate(s) \/ DeployNotReady(s) \/ DeployReady(s)
        PROVE  UNCHANGED session
    BY <1>1 DEF DeployCreate, DeployNotReady, DeployReady
  <1>2. ASSUME NEW s \in Sessions, Expire(s)
        PROVE  DelSession(s)
    BY <1>2 DEF Expire
  <1>3. ASSUME NEW c \in Conns,
               \/ \E s \in Sessions : ConnectGet(c, s)
               \/ ConnectFresh(c) \/ ConnectReconnect(c) \/ ConnectClear(c)
               \/ ConnectTTL(c) \/ HandshakeFails(c) \/ HandshakeDone(c)
               \/ UpdateGet(c) \/ UpdateTTL(c) \/ RegisterSession(c)
               \/ DisconnectGet(c) \/ DisconnectTTL(c) \/ DisconnectKey(c)
               \/ CloseTunnel(c) \/ Disconnect(c)
        PROVE  UNCHANGED session
    BY <1>3
    DEF ConnectGet, ConnectFresh, ConnectReconnect, ConnectClear,
        ConnectTTL, HandshakeFails, HandshakeDone, UpdateGet, UpdateTTL,
        RegisterSession, DisconnectGet, DisconnectTTL, DisconnectKey,
        CloseTunnel, Disconnect
  <1>4. ASSUME NEW c \in Conns, WatcherStep(c) \/ MonitorStep(c)
        PROVE  UNCHANGED session \/ DelSession(conn[c].s)
    BY <1>4 DEF WatcherStep, WatcherPreserve, WatcherReap, WatcherDeletePod,
                WatcherDeleteKeys, MonitorStep, MonitorExpired,
                MonitorCancelled, MonitorDeletePod, MonitorDeleteKey,
                MonitorUnregister
  <1>5. ASSUME NEW r \in Reqs,
               \/ \E s \in Sessions : ReqArrives(r, s)
               \/ ShareTTL(r) \/ ExtendCheck(r) \/ ExtendGet(r) \/ StopPod(r)
               \/ JoinCheck(r) \/ JoinDial(r)
        PROVE  UNCHANGED session
    BY <1>5 DEF ReqArrives, ShareGet, ExtendRequest, StopGet, JoinGet,
                ShareTTL, ExtendCheck, ExtendGet, StopPod, JoinCheck, JoinDial
  <1>6. SweepStep => UNCHANGED session \/ \E s : DelSession(s)
    BY DEF SweepStep, SweepStart, SweepCheck, SweepDeletePod, SweepDeleteKey,
           SweepUnregister
  <1>7. Crash \/ UNCHANGED vars => UNCHANGED session
    BY DEF Crash, vars
  <1>8. ASSUME NEW r \in Reqs, StopKey(r)
        PROVE  DelSession(req[r].s)
    BY <1>8 DEF StopKey
  <1> QED
    BY <1>1, <1>2, <1>3, <1>4, <1>5, <1>6, <1>7, <1>8, Zenon
    DEF Next, DeployStep, ConnStep, ReqStep

(* A write names a session that is deployed. *)
LEMMA WriteSlots ==
    ASSUME PodInv
    PROVE  /\ \A c \in Conns :
                ConnectSet(c) \/ UpdateSet(c) \/ DisconnectSet(c) =>
                  /\ conn[c].s \in Sessions /\ deploy[conn[c].s] = "done"
                  /\ conn[c].data \in SessionData /\ conn[c].ttl \in Int
                  /\ SetSession(conn[c].s, conn[c].data, conn[c].ttl)
           /\ \A r \in Reqs : ShareSet(r) \/ ExtendSet(r) =>
                /\ req[r].s \in Sessions /\ deploy[req[r].s] = "done"
                /\ req[r].data \in SessionData /\ req[r].ttl \in Int
                /\ SetSession(req[r].s, req[r].data, req[r].ttl)
  <1>1. TypeInv
    BY DEF PodInv, MonitorInv
  <1>2. ASSUME NEW c \in Conns,
               ConnectSet(c) \/ UpdateSet(c) \/ DisconnectSet(c)
        PROVE  /\ conn[c].pc # "idle"
               /\ SetSession(conn[c].s, conn[c].data, conn[c].ttl)
    BY <1>2 DEF ConnectSet, UpdateSet, DisconnectSet
  <1>3. ASSUME NEW r \in Reqs, ShareSet(r) \/ ExtendSet(r)
        PROVE  /\ req[r].pc # "idle"
               /\ SetSession(req[r].s, req[r].data, req[r].ttl)
    BY <1>3 DEF ShareSet, ExtendSet
  <1> QED
    BY <1>1, <1>2, <1>3, PodSlots, ConnFields, ReqFields

LEMMA NothingStoredStep ==
    ASSUME PodInv, NothingStored, [Next]_vars
    PROVE  NothingStored'
  <1> USE DEF PodInv, MonitorInv, TypeInv, TypeOK
  <1>1. SUFFICES ASSUME NEW s \in Sessions, deploy'[s] # "done"
                 PROVE  session'[s] = NoKey
    BY DEF NothingStored
  <1>2. deploy[s] # "done" /\ session[s] = NoKey
    BY <1>1, PodStepFrame DEF PodFrame, NothingStored
  <1>3. CASE UNCHANGED session
    BY <1>2, <1>3
  <1>4. CASE \E t : DelSession(t)
    BY <1>2, <1>4 DEF DelSession
  <1>5. CASE Tick
    BY <1>2, <1>5 DEF Tick, AgeKey
  <1>6. ASSUME NEW t \in Sessions, DeployStore(t) PROVE session'[s] = NoKey
    BY <1>1, <1>2, <1>6 DEF DeployStore, SetSession
  <1>7. ASSUME NEW t \in Sessions, deploy[t] = "done", NEW data, NEW ttl,
               SetSession(t, data, ttl)
        PROVE  session'[s] = NoKey
    BY <1>2, <1>7 DEF SetSession
  <1> QED
    BY <1>3, <1>4, <1>5, <1>6, <1>7, SessionSteps, WriteSlots

LEMMA WriteInvStep == WriteInv /\ [Next]_vars => WriteInv'
  <1> SUFFICES ASSUME WriteInv, [Next]_vars PROVE WriteInv'
    OBVIOUS
  <1> USE DEF WriteInv
  <1>1. TypeInv
    BY DEF PodInv, MonitorInv
  <1>2. UNCHANGED conn => ConnsHold'
    BY DEF ConnsHold
  <1>3. UNCHANGED req => ReqsHold'
    BY DEF ReqsHold
  <1>4. ASSUME NEW c \in Conns, NEW s \in Sessions, ConnectGet(c, s)
        PROVE  (ConnsHold /\ ReqsHold)'
    <2>1. /\ \A d \in Conns \ {c} : conn'[d] = conn[d]
          /\ conn'[c].pc \notin WritePC
          /\ UNCHANGED req
      BY <1>1, <1>4 DEF ConnectGet, connRedisVars, WritePC, TypeInv, TypeOK,
                        ConnState
    <2> QED
      BY <1>3, <2>1 DEF ConnsHold, ConnHolds, WritePC
  <1>5. ASSUME NEW c \in Conns, ConnStep(c) \/ Disconnect(c)
        PROVE  (ConnsHold /\ ReqsHold)'
    <2>1. UNCHANGED req
      BY <1>5
      DEF ConnStep, ConnectFresh, ConnectReconnect, ConnectClear, ConnectTTL,
          ConnectSet, HandshakeFails, HandshakeDone, UpdateGet, UpdateTTL,
          UpdateSet, RegisterSession, DisconnectGet, DisconnectTTL,
          DisconnectSet, DisconnectKey, CloseTunnel, Disconnect, connRedisVars
    <2> QED
      BY <1>1, <1>3, <1>5, <2>1, ConnHoldsStep
  <1>6. ASSUME NEW r \in Reqs,
               ReqStep(r) \/ \E s \in Sessions : ReqArrives(r, s)
        PROVE  (ConnsHold /\ ReqsHold)'
    <2>1. UNCHANGED conn
      BY <1>6 DEF ReqArrives, ShareGet, ExtendRequest, StopGet, JoinGet,
                  ReqStep, ShareTTL, ShareSet, ExtendCheck, ExtendGet,
                  ExtendSet, StopPod, StopKey, JoinCheck, JoinDial,
                  reqRedisVars
    <2> QED
      BY <1>1, <1>2, <1>6, <2>1, ReqHoldsStep
  <1>7. ASSUME Crash
        PROVE  (ConnsHold /\ ReqsHold)'
    <2>1. ASSUME NEW c \in Conns PROVE ConnHolds(conn'[c])
      <3>1. conn'[c].pc \in {"idle", "dead"}
        BY <1>7 DEF Crash, IdleConn
      <3> QED
        BY <3>1 DEF ConnHolds
    <2>2. ASSUME NEW r \in Reqs PROVE ReqHolds(req'[r])
      <3>1. req'[r].pc \in {"idle", "refused"}
        BY <1>7 DEF Crash, IdleReq
      <3> QED
        BY <3>1 DEF ReqHolds
    <2> QED
      BY <2>1, <2>2 DEF ConnsHold, ReqsHold
  <1>8. ASSUME \/ \E s \in Sessions :
                    DeployCreate(s) \/ DeployStep(s) \/ Expire(s)
               \/ \E c \in Conns : WatcherStep(c) \/ MonitorStep(c)
               \/ SweepStep \/ Tick \/ UNCHANGED vars
        PROVE  UNCHANGED <<conn, req>>
    BY <1>8
    DEF DeployCreate, DeployStep, DeployNotReady, DeployReady, DeployStore,
        Expire, WatcherStep, WatcherPreserve, WatcherReap, WatcherDeletePod,
        WatcherDeleteKeys, MonitorStep, MonitorExpired, MonitorCancelled,
        MonitorDeletePod, MonitorDeleteKey, MonitorUnregister, SweepStep,
        SweepStart, SweepCheck, SweepDeletePod, SweepDeleteKey,
        SweepUnregister, cleanupRedisVars, Tick, vars
  <1>9. ConnsHold' /\ ReqsHold'
    BY <1>2, <1>3, <1>4, <1>5, <1>6, <1>7, <1>8 DEF Next
  <1> QED
    BY <1>9, PodInvStep, NothingStoredStep

(***************************************************************************)
(* An expiring key becomes persistent only by one of the writes the        *)
(* property names, for any number of tunnels, requests and restarts.       *)
(***************************************************************************)
LEMMA ExpirationKept ==
    ASSUME WriteInv, [Next]_vars, NEW s \in Sessions, Expires(session[s]),
           session'[s] # NoKey, ~Expires(session'[s])
    PROVE  \/ \E c \in Conns : /\ conn[c].s = s
                              /\ conn[c].pc \in {"updSet", "discSet"}
                              /\ conn[c].ttl = 0
           \/ \E r \in Reqs : /\ req[r].s = s
                             /\ req[r].pc = "shareSet"
                             /\ req[r].ttl \in {0, Missing}
  <1> USE DEF WriteInv, PodInv, MonitorInv, TypeInv, TypeOK
  <1>1. session[s] \in SessionKey
    BY DEF Expires
  <1>2. session'[s] # session[s] /\ session'[s].ttl = Persistent
    BY DEF Expires
  <1>3. ASSUME NEW t \in Sessions, NEW data, NEW ttl \in Int,
               SetSession(t, data, ttl)
        PROVE  t = s /\ ~(ttl > 0 \/ ttl = KeepTTL)
    <2>1. t = s
      BY <1>2, <1>3 DEF SetSession
    <2>2. session'[s] = RedisSet(session[s], data, ttl)
      BY <1>3, <2>1 DEF SetSession
    <2> QED
      BY <1>1, <1>2, <2>1, <2>2, RedisSetExpires
  <1>4. ~UNCHANGED session /\ ~\E t : DelSession(t)
    BY <1>2 DEF DelSession
  <1>5. ~Tick
    <2>1. Tick => session'[s] = AgeKey(session[s])
      BY DEF Tick
    <2> QED
      BY <1>1, <1>2, <2>1, AgeKeyExpires
  <1>6. ASSUME NEW t \in Sessions PROVE ~DeployStore(t)
    <2>1. DeployStore(t) => t = s
      BY <1>2 DEF DeployStore, SetSession
    <2>2. deploy[s] = "done"
      BY DEF NothingStored, Expires
    <2> QED
      BY <2>1, <2>2 DEF DeployStore
  <1>7. ASSUME NEW c \in Conns,
               ConnectSet(c) \/ UpdateSet(c) \/ DisconnectSet(c)
        PROVE  /\ conn[c].s = s /\ conn[c].ttl = 0
               /\ conn[c].pc \in {"updSet", "discSet"}
    <2>1. conn[c].s = s /\ ~(conn[c].ttl > 0) /\ conn[c].ttl \in Int
      BY <1>3, <1>7, WriteSlots
    <2>2. conn[c].pc \in WritePC
      BY <1>7 DEF ConnectSet, UpdateSet, DisconnectSet, WritePC
    <2> QED
      BY <2>1, <2>2 DEF ConnsHold, ConnHolds, WritePC
  <1>8. ASSUME NEW r \in Reqs, ShareSet(r) \/ ExtendSet(r)
        PROVE  /\ req[r].s = s /\ req[r].ttl \in {0, Missing}
               /\ req[r].pc = "shareSet"
    <2>1. /\ req[r].s = s /\ req[r].ttl \in Int
          /\ ~(req[r].ttl > 0) /\ req[r].ttl # KeepTTL
      BY <1>3, <1>8, WriteSlots
    <2>2. req[r].pc \in {"shareSet", "extendSet"}
      BY <1>8 DEF ShareSet, ExtendSet
    <2> QED
      BY <2>1, <2>2 DEF ReqsHold, ReqHolds, KeepTTL, Missing
  <1> QED
    BY <1>4, <1>5, <1>6, <1>7, <1>8, SessionSteps

(***************************************************************************)
(* A key that expires goes on to expire, whoever writes it: for any number *)
(* of sessions, tunnels, requests and restarts, the only exceptions are    *)
(* the writes the property names, of a tunnel that holds 0 or of a share   *)
(* request that holds the reply 0 or -2.                                   *)
(***************************************************************************)
THEOREM ExpirationsKept == Spec => UnlimitedOnlyAtTheEnd
  <1>1. Init => ConnsHold /\ ReqsHold /\ NothingStored
    BY DEF Init, ConnsHold, ConnHolds, ReqsHold, ReqHolds, NothingStored,
           IdleConn, IdleReq
  <1>2. Init /\ PodInv => WriteInv
    BY <1>1 DEF WriteInv
  <1> DEFINE Kept ==
        \A s \in Sessions :
          /\ Expires(session[s])
          /\ session'[s] # NoKey /\ ~Expires(session'[s])
          => \/ \E c \in Conns : /\ conn[c].s = s
                                /\ conn[c].pc \in {"updSet", "discSet"}
                                /\ conn[c].ttl = 0
             \/ \E r \in Reqs : /\ req[r].s = s
                               /\ req[r].pc = "shareSet"
                               /\ req[r].ttl \in {0, Missing}
  <1>3. WriteInv /\ [Next]_vars => [Kept]_vars
    BY ExpirationKept
  <1> QED
    BY <1>2, <1>3, WriteInvStep, PodInvariant, PTL
    DEF Spec, UnlimitedOnlyAtTheEnd
=============================================================================
