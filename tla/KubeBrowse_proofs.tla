------------------------- MODULE KubeBrowse_proofs -------------------------
(* The types of the session lifecycle, for every value of the constants. *)
EXTENDS KubeBrowse, TLAPS

(***************************************************************************)
(* A handler that has begun names a session: what TypeOK needs to be       *)
(* inductive, since handlers read session[conn[c].s].                      *)
(***************************************************************************)
SlotsUsed ==
    /\ \A c \in Conns : conn[c].pc # "idle" => conn[c].s \in Sessions
    /\ \A r \in Reqs : req[r].pc # "idle" => req[r].s \in Sessions

TypeInv == TypeOK /\ SlotsUsed

LEMMA RedisSetType ==
    ASSUME NEW key \in SessionKey \cup {NoKey}, NEW data \in SessionData,
           NEW expiration \in Int
    PROVE  RedisSet(key, data, expiration) \in SessionKey
  BY ConstantsAssumption DEF RedisSet, SessionKey, Persistent, KeepTTL

LEMMA RedisTTLType ==
    ASSUME NEW key \in SessionKey \cup {NoKey}
    PROVE  RedisTTL(key) \in Int
  BY ConstantsAssumption DEF RedisTTL, SessionKey, Persistent, Missing

LEMMA AgeKeyType ==
    ASSUME NEW key \in SessionKey \cup {NoKey}
    PROVE  AgeKey(key) \in SessionKey \cup {NoKey}
  BY ConstantsAssumption DEF AgeKey, SessionKey, SessionData, Elapse, Persistent, Unset

LEMMA NewSessionType ==
    ASSUME NEW share \in BOOLEAN
    PROVE  NewSession(share) \in SessionData
  BY DEF NewSession, SessionData, Unset

LEMMA NoDataType == NoData \in SessionData
  BY NewSessionType DEF NoData

LEMMA SetSessionType ==
    ASSUME session \in [Sessions -> SessionKey \cup {NoKey}],
           NEW s, NEW data \in SessionData, NEW expiration \in Int,
           SetSession(s, data, expiration)
    PROVE  session' \in [Sessions -> SessionKey \cup {NoKey}]
  BY RedisSetType DEF SetSession

LEMMA DelSessionType ==
    ASSUME session \in [Sessions -> SessionKey \cup {NoKey}],
           NEW s, DelSession(s)
    PROVE  session' \in [Sessions -> SessionKey \cup {NoKey}]
  BY DEF DelSession

LEMMA TypeInit == Init => TypeOK
  BY NoDataType DEF Init, TypeOK, DeployPC, ConnState, IdleConn, ConnPC, MonitorState, NoMonitor,
     MonitorPC, SweepState, IdleSweep, SweepPC, WatcherState, NoWatcher, WatcherPC,
     ReqState, IdleReq, ReqPC

-----------------------------------------------------------------------------
(* What the handler of a tunnel does to its own record. *)

LEMMA ConnGoto ==
    ASSUME conn \in [Conns -> ConnState], NEW c, NEW pc \in ConnPC,
           Goto(c, pc)
    PROVE  conn' \in [Conns -> ConnState]
  BY DEF ConnState, Goto

LEMMA ConnWait ==
    ASSUME conn \in [Conns -> ConnState], NEW c, NEW pc \in ConnPC,
           NEW ttl \in Int,
           conn' = [conn EXCEPT ![c].pc = pc, ![c].ttl = ttl]
    PROVE  conn' \in [Conns -> ConnState]
  BY DEF ConnState

LEMMA ConnCopy ==
    ASSUME conn \in [Conns -> ConnState], NEW c, NEW pc \in ConnPC,
           NEW data \in SessionData,
           conn' = [conn EXCEPT ![c].pc = pc, ![c].data = data]
    PROVE  conn' \in [Conns -> ConnState]
  BY DEF ConnState

LEMMA ConnForget ==
    ASSUME conn \in [Conns -> ConnState], NEW c, NEW pc \in ConnPC,
           NEW data \in SessionData, NEW ttl \in Int,
           conn' = [conn EXCEPT ![c].pc = pc, ![c].data = data, ![c].ttl = ttl]
    PROVE  conn' \in [Conns -> ConnState]
  BY DEF ConnState

LEMMA ConnFields ==
    ASSUME TypeInv, NEW c \in Conns
    PROVE  /\ conn[c] \in ConnState
           /\ conn[c].pc \in ConnPC
           /\ conn[c].share \in BOOLEAN
           /\ conn[c].data \in SessionData
           /\ conn[c].data.expireAt \in Int
           /\ conn[c].ttl \in Int
           /\ conn[c].pc # "idle" =>
                /\ conn[c].s \in Sessions
                /\ session[conn[c].s] \in SessionKey \cup {NoKey}
                /\ RedisTTL(session[conn[c].s]) \in Int
  BY RedisTTLType
  DEF TypeInv, TypeOK, SlotsUsed, ConnState, SessionData, Unset

LEMMA TypeDeploy ==
    ASSUME TypeOK, NEW s \in Sessions, DeployCreate(s) \/ DeployStep(s)
    PROVE  TypeOK'
  <1>1. CASE DeployCreate(s)
    BY <1>1 DEF TypeOK, DeployCreate, DeployPC
  <1>2. CASE DeployNotReady(s)
    BY <1>2 DEF TypeOK, DeployNotReady, DeletePod, DeployPC
  <1>3. CASE DeployReady(s)
    BY <1>3 DEF TypeOK, DeployReady, DeployPC
  <1>4. CASE DeployStore(s)
    <2>1. PICK share \in BOOLEAN : SetSession(s, NewSession(share), 0)
      BY <1>4 DEF DeployStore
    <2>2. session' \in [Sessions -> SessionKey \cup {NoKey}]
      <3>1. NewSession(share) \in SessionData /\ 0 \in Int
        BY NewSessionType
      <3> QED
        BY <2>1, <3>1, SetSessionType, Zenon DEF TypeOK
    <2> QED
      BY <1>4, <2>2 DEF TypeOK, DeployStore, DeployPC
  <1> QED
    BY <1>1, <1>2, <1>3, <1>4 DEF DeployStep

LEMMA TypeConnectGet ==
    ASSUME TypeOK, NEW c \in Conns, NEW s \in Sessions, ConnectGet(c, s)
    PROVE  TypeOK'
  BY ConstantsAssumption
  DEF TypeOK, ConnectGet, connRedisVars, ConnState, ConnPC, ConnectPC,
      SessionKey, SessionData, Unset

(* The steps of DemoDoConnect and OnDisconnect that only read Redis. *)
LEMMA TypeConnRead ==
    ASSUME TypeInv, NEW c \in Conns,
           \/ ConnectFresh(c) \/ ConnectReconnect(c) \/ ConnectTTL(c)
           \/ HandshakeFails(c) \/ UpdateGet(c) \/ UpdateTTL(c)
           \/ Disconnect(c) \/ DisconnectGet(c) \/ DisconnectTTL(c)
           \/ CloseTunnel(c)
    PROVE  TypeOK'
  <1> DEFINE key == session[conn[c].s]
             data == conn[c].data
             reply == RedisTTL(key)
  <1> USE ConnFields
  <1>0. SUFFICES conn' \in [Conns -> ConnState]
    BY DEF TypeInv, TypeOK, connRedisVars, ConnectFresh, ConnectReconnect,
           ConnectTTL, HandshakeFails, UpdateGet, UpdateTTL, Disconnect,
           DisconnectGet, DisconnectTTL, CloseTunnel
  <1>1. CASE ConnectFresh(c)
    <2> DEFINE ttl == IF data.expireAt > 0 THEN data.expireAt
                      ELSE TimeoutDuration
    <2>1. ttl \in Int /\ "set" \in ConnPC
      BY ConstantsAssumption DEF ConnPC, ConnectPC
    <2>2. conn' = [conn EXCEPT ![c].pc = "set", ![c].ttl = ttl]
      BY <1>1 DEF ConnectFresh
    <2> QED
      BY <2>1, <2>2, ConnWait, Zenon DEF TypeInv, TypeOK
  <1>2. CASE ConnectReconnect(c)
    BY <1>2, ConnGoto
    DEF TypeInv, TypeOK, ConnectReconnect, ConnPC, ConnectPC
  <1>3. CASE ConnectTTL(c)
    <2> DEFINE left == IF reply > 0 THEN reply ELSE data.expireAt
               ttl == IF left > 0 THEN left ELSE ReconnectMinimum
    <2>1. reply \in Int /\ "set" \in ConnPC
      BY <1>3 DEF ConnectTTL, ConnPC, ConnectPC
    <2>2. ttl \in Int
      BY <2>1, ConstantsAssumption
    <2>3. conn' = [conn EXCEPT ![c].pc = "set", ![c].ttl = ttl]
      BY <1>3 DEF ConnectTTL
    <2> QED
      BY <2>1, <2>2, <2>3, ConnWait, Zenon DEF TypeInv, TypeOK
  <1>4. CASE HandshakeFails(c)
    BY <1>4, ConnGoto DEF TypeInv, TypeOK, HandshakeFails, ConnPC
  <1>5. CASE UpdateGet(c)
    <2>1. CASE Goto(c, "register")
      BY <2>1, ConnGoto DEF TypeInv, TypeOK, ConnPC, ConnectPC
    <2>2. CASE key # NoKey /\ conn' =
                 [conn EXCEPT
                    ![c].pc = "updTTL",
                    ![c].data = [key.data EXCEPT !.tunnel = c,
                                                 !.share = conn[c].share]]
      <3>1. key \in SessionKey
        BY <1>5, <2>2 DEF UpdateGet
      <3>2. [key.data EXCEPT !.tunnel = c, !.share = conn[c].share]
              \in SessionData
        BY <3>1 DEF SessionKey, SessionData
      <3>3. "updTTL" \in ConnPC
        BY DEF ConnPC, ConnectPC
      <3> QED
        BY <2>2, <3>2, <3>3, ConnCopy, Zenon DEF TypeInv, TypeOK
    <2> QED
      BY <1>5, <2>1, <2>2 DEF UpdateGet
  <1>6. CASE UpdateTTL(c)
    <2> DEFINE ttl == IF reply >= 0 THEN reply
                      ELSE IF data.expireAt # Unset THEN TimeoutDuration
                           ELSE SessionTTL
    <2>1. reply \in Int /\ "updSet" \in ConnPC
      BY <1>6 DEF UpdateTTL, ConnPC, ConnectPC
    <2>2. ttl \in Int
      BY <2>1, ConstantsAssumption
    <2>3. conn' = [conn EXCEPT ![c].pc = "updSet", ![c].ttl = ttl]
      BY <1>6 DEF UpdateTTL
    <2> QED
      BY <2>1, <2>2, <2>3, ConnWait, Zenon DEF TypeInv, TypeOK
  <1>7. CASE Disconnect(c)
    BY <1>7, ConnGoto
    DEF TypeInv, TypeOK, Disconnect, ConnPC, RegisteredPC, DisconnectPC
  <1>8. CASE DisconnectGet(c)
    <2>1. CASE Goto(c, "close")
      BY <2>1, ConnGoto
      DEF TypeInv, TypeOK, ConnPC, RegisteredPC, DisconnectPC
    <2>2. CASE key # NoKey /\ conn' =
                 [conn EXCEPT ![c].pc = "discTTL", ![c].data = key.data]
      <3>1. key.data \in SessionData
        BY <1>8, <2>2 DEF DisconnectGet, SessionKey
      <3>2. "discTTL" \in ConnPC
        BY DEF ConnPC, RegisteredPC, DisconnectPC
      <3> QED
        BY <2>2, <3>1, <3>2, ConnCopy, Zenon DEF TypeInv, TypeOK
    <2> QED
      BY <1>8, <2>1, <2>2 DEF DisconnectGet
  <1>9. CASE DisconnectTTL(c)
    <2> DEFINE ttl == IF reply >= 0 THEN reply
                      ELSE IF data.expireAt # Unset THEN data.expireAt ELSE 0
    <2>1. reply \in Int /\ "discSet" \in ConnPC
      BY <1>9 DEF DisconnectTTL, ConnPC, RegisteredPC, DisconnectPC
    <2>2. ttl \in Int
      BY <2>1
    <2>3. conn' = [conn EXCEPT ![c].pc = "discSet", ![c].ttl = ttl]
      BY <1>9 DEF DisconnectTTL
    <2> QED
      BY <2>1, <2>2, <2>3, ConnWait, Zenon DEF TypeInv, TypeOK
  <1>10. CASE CloseTunnel(c)
    BY <1>10, ConnGoto DEF TypeInv, TypeOK, CloseTunnel, ConnPC, RegisteredPC
  <1> QED
    BY <1>1, <1>2, <1>3, <1>4, <1>5, <1>6, <1>7, <1>8, <1>9, <1>10

(* The steps of DemoDoConnect and OnDisconnect that write the session. *)
LEMMA TypeConnSet ==
    ASSUME TypeInv, NEW c \in Conns,
           ConnectSet(c) \/ UpdateSet(c) \/ DisconnectSet(c)
    PROVE  TypeOK'
  <1>1. SetSession(conn[c].s, conn[c].data, conn[c].ttl)
    BY DEF ConnectSet, UpdateSet, DisconnectSet
  <1>2. session' \in [Sessions -> SessionKey \cup {NoKey}]
    BY <1>1, SetSessionType, ConnFields, Zenon DEF TypeInv, TypeOK
  <1>3. PICK pc \in ConnPC :
          conn' = [conn EXCEPT ![c].pc = pc, ![c].data = NoData, ![c].ttl = 0]
    BY DEF ConnectSet, UpdateSet, DisconnectSet, ConnPC, ConnectPC,
           RegisteredPC, DisconnectPC
  <1>4. NoData \in SessionData /\ 0 \in Int
    BY NoDataType
  <1>5. conn' \in [Conns -> ConnState]
    BY <1>3, <1>4, ConnForget, Zenon DEF TypeInv, TypeOK
  <1> QED
    BY <1>2, <1>5
    DEF TypeInv, TypeOK, ConnectSet, UpdateSet, DisconnectSet, connRedisVars

(* The steps of a tunnel's handler that write something else as well. *)
LEMMA TypeConnWrite ==
    ASSUME TypeInv, NEW c \in Conns,
           \/ ConnectClear(c) \/ HandshakeDone(c) \/ RegisterSession(c)
           \/ DisconnectKey(c)
    PROVE  TypeOK'
  <1>1. conn' \in [Conns -> ConnState]
    <2>1. PICK pc \in ConnPC : Goto(c, pc)
      BY DEF ConnectClear, HandshakeDone, RegisterSession, DisconnectKey,
             ConnPC, ConnectPC, RegisteredPC, DisconnectPC
    <2> QED
      BY <2>1, ConnGoto DEF TypeInv, TypeOK
  <1>2. CASE ConnectClear(c)
    BY <1>1, <1>2 DEF TypeInv, TypeOK, ConnectClear
  <1>3. CASE HandshakeDone(c)
    BY <1>1, <1>3 DEF TypeInv, TypeOK, HandshakeDone
  <1>4. CASE RegisterSession(c)
    <2>1. monitor' \in [Conns -> MonitorState]
      BY <1>4 DEF TypeInv, TypeOK, RegisterSession, MonitorState, MonitorPC
    <2> QED
      BY <1>1, <1>4, <2>1 DEF TypeInv, TypeOK, RegisterSession
  <1>5. CASE DisconnectKey(c)
    BY <1>1, <1>5, ConstantsAssumption
    DEF TypeInv, TypeOK, DisconnectKey, WatcherState, WatcherPC
  <1> QED
    BY <1>2, <1>3, <1>4, <1>5

LEMMA TypeConnStep ==
    ASSUME TypeInv, NEW c \in Conns, ConnStep(c) \/ Disconnect(c)
    PROVE  TypeOK'
  BY TypeConnRead, TypeConnSet, TypeConnWrite DEF ConnStep

LEMMA TypeWatcherStep ==
    ASSUME TypeOK, NEW c \in Conns, WatcherStep(c)
    PROVE  TypeOK'
  <1>1. CASE WatcherPreserve(c)
    BY <1>1 DEF TypeOK, WatcherPreserve, WatcherState, WatcherPC
  <1>2. CASE WatcherReap(c)
    BY <1>2 DEF TypeOK, WatcherReap, WatcherState, WatcherPC
  <1>3. CASE WatcherDeletePod(c)
    BY <1>3 DEF TypeOK, WatcherDeletePod, DeletePod, WatcherState, WatcherPC
  <1>4. CASE WatcherDeleteKeys(c)
    BY <1>4, DelSessionType
    DEF TypeOK, WatcherDeleteKeys, WatcherState, WatcherPC
  <1> QED
    BY <1>1, <1>2, <1>3, <1>4 DEF WatcherStep

-----------------------------------------------------------------------------
(* Requests. *)

LEMMA ReqFields ==
    ASSUME TypeInv, NEW r \in Reqs
    PROVE  /\ req[r] \in ReqState
           /\ req[r].data \in SessionData
           /\ req[r].ttl \in Int
           /\ req[r].pc # "idle" =>
                /\ req[r].s \in Sessions
                /\ session[req[r].s] \in SessionKey \cup {NoKey}
                /\ RedisTTL(session[req[r].s]) \in Int
  BY RedisTTLType DEF TypeInv, TypeOK, SlotsUsed, ReqState

LEMMA ReqUpdate ==
    ASSUME req \in [Reqs -> ReqState], NEW r, NEW pc \in ReqPC,
           NEW data \in SessionData, NEW ttl \in Int,
           req' = [req EXCEPT ![r].pc = pc, ![r].data = data, ![r].ttl = ttl]
    PROVE  req' \in [Reqs -> ReqState]
  BY DEF ReqState

LEMMA ReqNewTTL ==
    ASSUME req \in [Reqs -> ReqState], NEW r, NEW pc \in ReqPC,
           NEW ttl \in Int,
           req' = [req EXCEPT ![r].pc = pc, ![r].ttl = ttl]
    PROVE  req' \in [Reqs -> ReqState]
  BY DEF ReqState

LEMMA ReqNewData ==
    ASSUME req \in [Reqs -> ReqState], NEW r, NEW pc \in ReqPC,
           NEW data \in SessionData,
           req' = [req EXCEPT ![r].pc = pc, ![r].data = data]
    PROVE  req' \in [Reqs -> ReqState]
  BY DEF ReqState

LEMMA AnswerType ==
    ASSUME req \in [Reqs -> ReqState], NEW r, NEW result \in ReqPC,
           Answer(r, result)
    PROVE  req' \in [Reqs -> ReqState]
  <1>1. NoData \in SessionData /\ 0 \in Int
    BY NoDataType
  <1> QED
    BY <1>1, ReqUpdate, Zenon DEF Answer

LEMMA ReqBegins ==
    ASSUME req \in [Reqs -> ReqState], NEW r, NEW pc \in ReqPC,
           NEW s \in Sessions,
           req' = [req EXCEPT ![r].pc = pc, ![r].s = s]
    PROVE  req' \in [Reqs -> ReqState]
  BY DEF ReqState

LEMMA ReqBeginsCopy ==
    ASSUME req \in [Reqs -> ReqState], NEW r, NEW pc \in ReqPC,
           NEW s \in Sessions, NEW data \in SessionData,
           req' = [req EXCEPT ![r].pc = pc, ![r].s = s, ![r].data = data]
    PROVE  req' \in [Reqs -> ReqState]
  BY DEF ReqState

LEMMA TypeReqArrives ==
    ASSUME TypeOK, NEW r \in Reqs, NEW s \in Sessions, ReqArrives(r, s)
    PROVE  TypeOK'
  <1> DEFINE key == session[s]
  <1> SUFFICES req' \in [Reqs -> ReqState]
    BY DEF TypeOK, reqRedisVars, ReqArrives, ShareGet, ExtendRequest,
           StopGet, JoinGet
  <1>1. CASE \E pc \in ReqPC : req' = [req EXCEPT ![r].pc = pc, ![r].s = s]
    BY <1>1, ReqBegins DEF TypeOK
  <1>2. CASE \E pc \in ReqPC :
               /\ key # NoKey
               /\ req' = [req EXCEPT ![r].pc = pc, ![r].s = s,
                                     ![r].data = key.data]
    <2>1. key.data \in SessionData
      BY <1>2 DEF TypeOK, SessionKey
    <2> QED
      BY <1>2, <2>1, ReqBeginsCopy, Zenon DEF TypeOK
  <1> QED
    BY <1>1, <1>2
    DEF ReqArrives, ShareGet, ExtendRequest, StopGet, JoinGet, HasTunnel,
        ReqPC, SharePC, ExtendPC, StopPC, JoinPC

LEMMA TypeReqStep ==
    ASSUME TypeInv, NEW r \in Reqs, ReqStep(r)
    PROVE  TypeOK'
  <1> DEFINE key == session[req[r].s]
  <1>1. CASE ShareTTL(r)
    <2>1. CASE Answer(r, "shared")
      BY <1>1, <2>1, AnswerType
      DEF TypeInv, TypeOK, ShareTTL, reqRedisVars, ReqPC
    <2>2. CASE req' = [req EXCEPT
                         ![r].pc = "shareSet",
                         ![r].data = [req[r].data EXCEPT !.share = TRUE],
                         ![r].ttl = RedisTTL(key)]
      <3>1. RedisTTL(key) \in Int
        BY <1>1, ReqFields DEF ShareTTL
      <3>2. [req[r].data EXCEPT !.share = TRUE] \in SessionData
        BY ReqFields DEF SessionData
      <3>3. "shareSet" \in ReqPC
        BY DEF ReqPC, SharePC
      <3>4. req' \in [Reqs -> ReqState]
        BY <2>2, <3>1, <3>2, <3>3, ReqUpdate, Zenon DEF TypeInv, TypeOK
      <3> QED
        BY <1>1, <3>4 DEF TypeInv, TypeOK, ShareTTL, reqRedisVars
    <2> QED
      BY <1>1, <2>1, <2>2 DEF ShareTTL
  <1>2. CASE ShareSet(r) \/ ExtendSet(r)
    <2>1. SetSession(req[r].s, req[r].data, req[r].ttl)
      BY <1>2 DEF ShareSet, ExtendSet
    <2>2. session' \in [Sessions -> SessionKey \cup {NoKey}]
      BY <2>1, ReqFields, SetSessionType, Zenon DEF TypeInv, TypeOK
    <2>3. req' \in [Reqs -> ReqState]
      BY <1>2, AnswerType DEF TypeInv, TypeOK, ShareSet, ExtendSet, ReqPC
    <2> QED
      BY <1>2, <2>2, <2>3
      DEF TypeInv, TypeOK, ShareSet, ExtendSet, reqRedisVars
  <1>3. CASE ExtendCheck(r)
    <2>1. CASE Answer(r, "refused")
      BY <1>3, <2>1, AnswerType
      DEF TypeInv, TypeOK, ExtendCheck, reqRedisVars, ReqPC
    <2>2. CASE \E extension \in Extensions :
                 req' = [req EXCEPT ![r].pc = "extendGet",
                                    ![r].ttl = RedisTTL(key) + extension]
      <3>1. PICK ttl \in Int :
              req' = [req EXCEPT ![r].pc = "extendGet", ![r].ttl = ttl]
        <4>1. PICK extension \in Extensions :
                req' = [req EXCEPT ![r].pc = "extendGet",
                                   ![r].ttl = RedisTTL(key) + extension]
          BY <2>2
        <4>2. RedisTTL(key) \in Int
          BY <1>3, ReqFields DEF ExtendCheck
        <4>3. RedisTTL(key) + extension \in Int
          BY <4>2, ConstantsAssumption
        <4> QED
          BY <4>1, <4>3, Zenon
      <3>2. "extendGet" \in ReqPC
        BY DEF ReqPC, ExtendPC
      <3>3. req' \in [Reqs -> ReqState]
        BY <3>1, <3>2, ReqNewTTL, Zenon DEF TypeInv, TypeOK
      <3> QED
        BY <1>3, <3>3 DEF TypeInv, TypeOK, ExtendCheck, reqRedisVars
    <2> QED
      BY <1>3, <2>1, <2>2 DEF ExtendCheck
  <1>4. CASE ExtendGet(r)
    <2>1. CASE Answer(r, "refused")
      BY <1>4, <2>1, AnswerType
      DEF TypeInv, TypeOK, ExtendGet, reqRedisVars, ReqPC
    <2>2. CASE key # NoKey /\ req' = [req EXCEPT ![r].pc = "extendSet",
                                                 ![r].data = key.data]
      <3>1. key.data \in SessionData
        BY <1>4, <2>2, ReqFields DEF ExtendGet, SessionKey
      <3>2. "extendSet" \in ReqPC
        BY DEF ReqPC, ExtendPC
      <3>3. req' \in [Reqs -> ReqState]
        BY <2>2, <3>1, <3>2, ReqNewData, Zenon DEF TypeInv, TypeOK
      <3> QED
        BY <1>4, <3>3 DEF TypeInv, TypeOK, ExtendGet, reqRedisVars
    <2> QED
      BY <1>4, <2>1, <2>2 DEF ExtendGet
  <1>5. CASE StopPod(r)
    BY <1>5
    DEF TypeInv, TypeOK, StopPod, DeletePod, ReqState, ReqPC, StopPC
  <1>6. CASE StopKey(r)
    BY <1>6, AnswerType, DelSessionType
    DEF TypeInv, TypeOK, StopKey, reqRedisVars, ReqPC
  <1>7. CASE JoinCheck(r)
    <2>1. CASE Answer(r, "refused")
      BY <1>7, <2>1, AnswerType
      DEF TypeInv, TypeOK, JoinCheck, reqRedisVars, ReqPC
    <2>2. CASE req' = [req EXCEPT ![r].pc = "joinDial"]
      BY <1>7, <2>2 DEF TypeInv, TypeOK, JoinCheck, reqRedisVars, ReqState,
                        ReqPC, JoinPC
    <2> QED
      BY <1>7, <2>1, <2>2 DEF JoinCheck
  <1>8. CASE JoinDial(r)
    BY <1>8, AnswerType DEF TypeInv, TypeOK, JoinDial, reqRedisVars, ReqPC
  <1> QED
    BY <1>1, <1>2, <1>3, <1>4, <1>5, <1>6, <1>7, <1>8 DEF ReqStep

-----------------------------------------------------------------------------
(* The cleanup service. *)

LEMMA UnregisterType ==
    ASSUME registry \in [Sessions -> Conns \cup {NoConn}],
           NEW mon \in [Conns -> MonitorState], NEW s, Unregister(s, mon)
    PROVE  /\ registry' \in [Sessions -> Conns \cup {NoConn}]
           /\ monitor' \in [Conns -> MonitorState]
  BY DEF Unregister, MonitorState

LEMMA MonitorGotoType ==
    ASSUME monitor \in [Conns -> MonitorState], NEW c, NEW pc \in MonitorPC,
           MonitorGoto(c, pc)
    PROVE  monitor' \in [Conns -> MonitorState]
  BY DEF MonitorState, MonitorGoto

LEMMA TypeMonitorStep ==
    ASSUME TypeOK, NEW c \in Conns, MonitorStep(c)
    PROVE  TypeOK'
  <1>1. CASE \/ MonitorExpired(c) \/ MonitorCancelled(c)
             \/ MonitorDeletePod(c) \/ MonitorDeleteKey(c)
    <2>1. monitor' \in [Conns -> MonitorState]
      BY <1>1, MonitorGotoType
      DEF TypeOK, MonitorExpired, MonitorCancelled, MonitorDeletePod,
          MonitorDeleteKey, MonitorPC, CleanupPC
    <2>2. session' \in [Sessions -> SessionKey \cup {NoKey}]
      BY <1>1, DelSessionType
      DEF TypeOK, MonitorExpired, MonitorCancelled, MonitorDeletePod,
          MonitorDeleteKey
    <2> QED
      BY <1>1, <2>1, <2>2
      DEF TypeOK, MonitorExpired, MonitorCancelled, MonitorDeletePod,
          MonitorDeleteKey, DeletePod, cleanupRedisVars
  <1>2. CASE MonitorUnregister(c)
    <2>1. [monitor EXCEPT ![c].pc = "stopped"] \in [Conns -> MonitorState]
      BY DEF TypeOK, MonitorState, MonitorPC
    <2> QED
      BY <1>2, <2>1, UnregisterType
      DEF TypeOK, MonitorUnregister, cleanupRedisVars
  <1> QED
    BY <1>1, <1>2 DEF MonitorStep

LEMMA TypeSweepStep ==
    ASSUME TypeOK, SweepStep
    PROVE  TypeOK'
  <1>1. CASE SweepStart \/ \E c \in Conns : SweepCheck(c)
    BY <1>1 DEF TypeOK, SweepStart, SweepCheck, SweepRest, SweepState,
                SweepPC, CleanupPC, cleanupRedisVars
  <1>2. CASE SweepDeletePod
    BY <1>2 DEF TypeOK, SweepDeletePod, DeletePod, SweepState, SweepPC,
                CleanupPC, cleanupRedisVars
  <1>3. CASE SweepDeleteKey
    BY <1>3, DelSessionType DEF TypeOK, SweepDeleteKey, SweepState, SweepPC,
                CleanupPC, cleanupRedisVars
  <1>4. CASE SweepUnregister
    BY <1>4, UnregisterType DEF TypeOK, SweepUnregister, SweepRest,
                SweepState, SweepPC, cleanupRedisVars
  <1> QED
    BY <1>1, <1>2, <1>3, <1>4 DEF SweepStep

-----------------------------------------------------------------------------
(* Time and restarts. *)

LEMMA TypeTick ==
    ASSUME TypeOK, Tick
    PROVE  TypeOK'
  <1>1. session' \in [Sessions -> SessionKey \cup {NoKey}]
    BY AgeKeyType DEF TypeOK, Tick
  <1>2. reconnect' \in [Sessions -> Nat]
    BY DEF TypeOK, Tick, Elapse
  <1>3. watcher' \in [Conns -> WatcherState]
    <2>1. ASSUME NEW c \in Conns
          PROVE  [watcher[c] EXCEPT !.timer = Elapse(@)] \in WatcherState
      <3>1. watcher[c] \in WatcherState
        BY DEF TypeOK
      <3>2. Elapse(watcher[c].timer) \in Nat
        BY <3>1 DEF WatcherState, Elapse
      <3> QED
        BY <3>1, <3>2 DEF WatcherState
    <2> QED
      BY <2>1 DEF Tick
  <1> QED
    BY <1>1, <1>2, <1>3 DEF TypeOK, Tick

LEMMA TypeExpire ==
    ASSUME TypeOK, NEW s \in Sessions, Expire(s)
    PROVE  TypeOK'
  BY DelSessionType DEF TypeOK, Expire

LEMMA TypeCrash ==
    ASSUME TypeOK, Crash
    PROVE  TypeOK'
  <1>1. conn' \in [Conns -> ConnState]
    <2>1. IdleConn \in ConnState /\ "dead" \in ConnPC
      BY NoDataType DEF IdleConn, ConnState, ConnPC
    <2>2. ASSUME NEW c \in Conns
          PROVE  [IdleConn EXCEPT !.pc = "dead", !.s = conn[c].s] \in ConnState
      <3>1. conn[c].s \in Sessions \cup {NoSession}
        BY DEF TypeOK, ConnState
      <3> QED
        BY <2>1, <3>1 DEF ConnState
    <2> QED
      BY <2>2 DEF TypeOK, Crash
  <1>2. req' \in [Reqs -> ReqState]
    <2>1. IdleReq \in ReqState /\ "refused" \in ReqPC
      BY NoDataType DEF IdleReq, ReqState, ReqPC
    <2>2. ASSUME NEW r \in Reqs
          PROVE  [IdleReq EXCEPT !.pc = "refused", !.s = req[r].s] \in ReqState
      <3>1. req[r].s \in Sessions \cup {NoSession}
        BY DEF TypeOK, ReqState
      <3> QED
        BY <2>1, <3>1 DEF ReqState
    <2> QED
      BY <2>2 DEF TypeOK, Crash
  <1>3. /\ monitor' \in [Conns -> MonitorState]
        /\ watcher' \in [Conns -> WatcherState]
        /\ sweep' \in SweepState
    BY DEF Crash, MonitorState, NoMonitor, MonitorPC, WatcherState,
           NoWatcher, WatcherPC, SweepState, IdleSweep, SweepPC
  <1>4. /\ deploy' \in [Sessions -> DeployPC]
        /\ registry' \in [Sessions -> Conns \cup {NoConn}]
    BY DEF TypeOK, Crash, DeployPC
  <1>5. UNCHANGED <<session, reconnect, pod>> /\ tunnels' = {} /\ params' = {}
    BY DEF Crash
  <1>6. crashes' \in Nat
    <2>1. crashes \in Nat
      BY DEF TypeOK
    <2>2. crashes' = crashes + 1
      BY Zenon DEF Crash
    <2> QED
      BY <2>1, <2>2
  <1> QED
    BY <1>1, <1>2, <1>3, <1>4, <1>5, <1>6 DEF TypeOK

-----------------------------------------------------------------------------
LEMMA SlotsUsedStep ==
    ASSUME TypeInv, [Next]_vars
    PROVE  SlotsUsed'
  <1> USE DEF TypeInv, TypeOK, SlotsUsed
  <1>1. CASE UNCHANGED vars
    BY <1>1 DEF vars
  <1>2. ASSUME NEW c \in Conns, NEW s \in Sessions, ConnectGet(c, s)
        PROVE  SlotsUsed'
    BY <1>2 DEF ConnectGet, connRedisVars, ConnState
  <1>3. ASSUME NEW c \in Conns, ConnStep(c) \/ Disconnect(c)
        PROVE  SlotsUsed'
    <2>1. /\ conn[c].pc # "idle"
          /\ \A d \in Conns : conn'[d].s = conn[d].s
          /\ \A d \in Conns \ {c} : conn'[d].pc = conn[d].pc
          /\ UNCHANGED req
      BY <1>3
      DEF ConnStep, ConnectFresh, ConnectReconnect, ConnectClear, ConnectTTL,
          ConnectSet, HandshakeFails, HandshakeDone, UpdateGet, UpdateTTL,
          UpdateSet, RegisterSession, DisconnectGet, DisconnectTTL,
          DisconnectSet, DisconnectKey, CloseTunnel, Disconnect, Goto,
          connRedisVars, ConnState
    <2> QED
      BY <2>1
  <1>4. ASSUME NEW r \in Reqs, NEW s \in Sessions, ReqArrives(r, s)
        PROVE  SlotsUsed'
    BY <1>4 DEF ReqArrives, ShareGet, ExtendRequest, StopGet, JoinGet,
                reqRedisVars, ReqState
  <1>5. ASSUME NEW r \in Reqs, ReqStep(r)
        PROVE  SlotsUsed'
    <2>1. /\ req[r].pc # "idle"
          /\ \A q \in Reqs : req'[q].s = req[q].s
          /\ \A q \in Reqs \ {r} : req'[q].pc = req[q].pc
          /\ UNCHANGED conn
      <3>1. CASE ShareTTL(r)
        BY <3>1 DEF ShareTTL, Answer, reqRedisVars, ReqState
      <3>2. CASE ShareSet(r) \/ ExtendSet(r) \/ StopPod(r) \/ StopKey(r)
        BY <3>2 DEF ShareSet, ExtendSet, StopPod, StopKey, Answer,
                    reqRedisVars, ReqState
      <3>3. CASE ExtendCheck(r) \/ ExtendGet(r)
        BY <3>3 DEF ExtendCheck, ExtendGet, Answer, reqRedisVars, ReqState
      <3>4. CASE JoinCheck(r) \/ JoinDial(r)
        BY <3>4 DEF JoinCheck, JoinDial, Answer, reqRedisVars, ReqState
      <3> QED
        BY <1>5, <3>1, <3>2, <3>3, <3>4 DEF ReqStep
    <2> QED
      BY <2>1
  <1>6. CASE Crash
    BY <1>6 DEF Crash, IdleConn, IdleReq
  <1>7. CASE UNCHANGED <<conn, req>>
    BY <1>7
  <1>8. ASSUME NEW s \in Sessions, DeployCreate(s) \/ DeployStep(s) \/ Expire(s)
        PROVE  UNCHANGED <<conn, req>>
    BY <1>8 DEF DeployCreate, DeployStep, DeployNotReady, DeployReady,
                DeployStore, Expire
  <1>9. ASSUME NEW c \in Conns, WatcherStep(c) \/ MonitorStep(c)
        PROVE  UNCHANGED <<conn, req>>
    BY <1>9 DEF WatcherStep, WatcherPreserve, WatcherReap, WatcherDeletePod,
                WatcherDeleteKeys, MonitorStep, MonitorExpired,
                MonitorCancelled, MonitorDeletePod, MonitorDeleteKey,
                MonitorUnregister, cleanupRedisVars
  <1>10. ASSUME SweepStep
         PROVE  UNCHANGED <<conn, req>>
    BY <1>10 DEF SweepStep, SweepStart, SweepCheck, SweepDeletePod,
                 SweepDeleteKey, SweepUnregister, cleanupRedisVars
  <1>11. Tick => UNCHANGED <<conn, req>>
    BY DEF Tick
  <1> QED
    BY <1>1, <1>2, <1>3, <1>4, <1>5, <1>6, <1>7, <1>8, <1>9, <1>10, <1>11
    DEF Next

LEMMA TypeInvStep == TypeInv /\ [Next]_vars => TypeInv'
  <1> SUFFICES ASSUME TypeInv, [Next]_vars
               PROVE  TypeOK'
    BY SlotsUsedStep DEF TypeInv
  <1>1. CASE UNCHANGED vars
    BY <1>1 DEF TypeInv, TypeOK, vars
  <1>2. CASE Next
    BY <1>2, TypeDeploy, TypeExpire, TypeConnectGet, TypeConnStep,
       TypeWatcherStep, TypeMonitorStep, TypeReqArrives, TypeReqStep,
       TypeSweepStep, TypeTick, TypeCrash
    DEF Next, TypeInv
  <1> QED
    BY <1>1, <1>2

LEMMA TypeInvariant == Spec => []TypeInv
  <1>1. Init => TypeInv
    BY TypeInit DEF TypeInv, SlotsUsed, Init, IdleConn, IdleReq
  <1> QED
    BY <1>1, TypeInvStep, PTL DEF Spec

(***************************************************************************)
(* Every handler keeps Redis, the pods and the process's maps within their *)
(* types, whatever the interleaving: in particular no timer of a key or of *)
(* a watcher goes below zero and SET always gets a whole document.         *)
(***************************************************************************)
THEOREM TypeCorrect == Spec => []TypeOK
  BY TypeInvariant, PTL DEF TypeInv
=============================================================================
