-------------------------- MODULE HttpTunnels_proofs --------------------------
(***************************************************************************)
(* The HTTP transport for any tunnels, any finite set of requests and any  *)
(* timeout.                                                                *)
(***************************************************************************)
EXTENDS HttpTunnels, FiniteSetTheorems, TLAPS

(* A request past its lookup has a lock. *)
RequestsPlaced == \A r \in Reqs : ~At(r, "idle") => http[r].lock \in Locks

HttpTypeInv == HttpTypeOK /\ RequestsPlaced

LEMMA PlacedTypes ==
    ASSUME NEW t \in Locks
    PROVE  t[1] \in Tunnels
  BY DEF Locks

LEMMA HttpTypeInit ==
    ASSUME HttpInit
    PROVE  HttpTypeInv
  BY HttpAssumption
  DEF HttpInit, HttpTypeInv, HttpTypeOK, RequestsPlaced, At, HttpPC

(* What a request's step to another place keeps. *)
LEMMA GotoType ==
    ASSUME HttpTypeInv, NEW r \in Reqs, NEW pc \in HttpPC, ~At(r, "idle"),
           Goto(r, pc)
    PROVE  /\ http' \in [Reqs -> [pc : HttpPC, lock : Locks \cup {NoLock}]]
           /\ RequestsPlaced'
  BY DEF HttpTypeInv, HttpTypeOK, RequestsPlaced, At, Goto

LEMMA HttpReqType ==
    ASSUME HttpTypeInv, NEW r \in Reqs,
           ReqStep(r) \/ Take(r) \/ Respond(r) \/ Copy(r)
    PROVE  HttpTypeInv'
  <1> USE DEF HttpTypeInv, HttpTypeOK, lockVars, mapVars, taskVars
  <1>1. ~At(r, "idle") /\ http[r].lock \in Locks /\ TunnelOf(r) \in Tunnels
    BY PlacedTypes
    DEF RequestsPlaced, TunnelOf, At, ReqStep, Access, Enqueue, ReadSome,
        GiveWay, Deregister, Close, Leave, Unlock, Take, Respond, Copy
  <1>2. \E pc \in HttpPC : Goto(r, pc)
    BY DEF HttpPC, HoldingPC, WritingPC, ReqStep, Access, Enqueue, ReadSome,
        GiveWay, Deregister, Close, Leave, Unlock, Take, Respond, Copy
  <1>3. /\ http' \in [Reqs -> [pc : HttpPC, lock : Locks \cup {NoLock}]]
        /\ RequestsPlaced'
    BY <1>1, <1>2, GotoType
  <1>4. /\ core' \in [Locks -> Reqs \cup {NoReq}]
        /\ numLocks' \in [Locks -> Int]
    BY <1>1
    DEF ReqStep, Access, Enqueue, ReadSome, GiveWay, Deregister, Close,
        Leave, Unlock, Take, Respond, Copy
  <1>5. /\ tunnel' \in [Tunnels -> {"none", "open", "closed"}]
        /\ tunnelMap' \in SUBSET Tunnels
        /\ idle' \in [Tunnels -> Nat]
    BY <1>1
    DEF ReqStep, Access, Enqueue, ReadSome, GiveWay, Deregister, Close,
        Leave, Unlock, Take, Respond, Copy
  <1>6. UNCHANGED <<ticker, removeIDs>>
    BY DEF ReqStep, Access, Enqueue, ReadSome, GiveWay, Deregister, Close,
        Leave, Unlock, Take, Respond, Copy
  <1> QED
    BY <1>3, <1>4, <1>5, <1>6

LEMMA HttpTypeStep ==
    ASSUME HttpTypeInv, [HttpNext]_httpVars
    PROVE  HttpTypeInv'
  <1> USE DEF HttpTypeInv, HttpTypeOK, lockVars, mapVars, taskVars
  <1>1. ASSUME NEW t \in Tunnels, Connect(t)
        PROVE  HttpTypeInv'
    BY <1>1 DEF Connect, RequestsPlaced, At
  <1>2. ASSUME NEW r \in Reqs, NEW l \in Locks, Lookup(r, l)
        PROVE  HttpTypeInv'
    <2>1. \E pc \in {"access", "done"} :
              http' = [http EXCEPT ![r] = [pc |-> pc, lock |-> l]]
      BY <1>2 DEF Lookup
    <2>2. UNCHANGED <<tunnel, tunnelMap, idle, core, numLocks, ticker,
                      removeIDs>>
      BY <1>2 DEF Lookup
    <2> QED
      BY <2>1, <2>2 DEF RequestsPlaced, At, HttpPC
  <1>3. ASSUME Scan \/ RemoveMarked \/ Tick
        PROVE  HttpTypeInv'
    <2>1. CASE Scan
      BY <2>1, HttpAssumption DEF Scan, RequestsPlaced, At
    <2>2. CASE RemoveMarked
      BY <2>2 DEF RemoveMarked, RequestsPlaced, At
    <2>3. CASE Tick
      BY <2>3, HttpAssumption DEF Tick, IdleCap, RequestsPlaced, At
    <2> QED
      BY <1>3, <2>1, <2>2, <2>3
  <1>4. ASSUME UNCHANGED httpVars
        PROVE  HttpTypeInv'
    BY <1>4 DEF httpVars, RequestsPlaced, At
  <1> QED
    BY <1>1, <1>2, <1>3, <1>4, HttpReqType DEF HttpNext

(* Every variable keeps its sort. *)
THEOREM HttpTypeCorrect == HttpSpec => []HttpTypeOK
  <1>1. HttpInit => HttpTypeInv
    BY HttpTypeInit
  <1>2. HttpTypeInv /\ [HttpNext]_httpVars => HttpTypeInv'
    BY HttpTypeStep
  <1>3. HttpTypeInv => HttpTypeOK
    BY DEF HttpTypeInv
  <1> QED
    BY <1>1, <1>2, <1>3, PTL DEF HttpSpec

-----------------------------------------------------------------------------
(***************************************************************************)
(* Between two runs of the task the clock of a registered tunnel is ahead  *)
(* of the ticker by at most the timeout: otherwise the last run would have *)
(* marked the tunnel.                                                      *)
(***************************************************************************)
AgeBounded ==
    \A t \in tunnelMap :
        \/ idle[t] <= TunnelTimeout + ticker
        \/ t \in removeIDs /\ idle[t] <= 2 * TunnelTimeout

AgeInv == HttpTypeInv /\ AgeBounded

LEMMA ReqStepEffect ==
    ASSUME HttpTypeInv, NEW r \in Reqs,
           ReqStep(r) \/ Take(r) \/ Respond(r) \/ Copy(r)
    PROVE  /\ UNCHANGED <<ticker, removeIDs>>
           /\ tunnelMap' \in SUBSET tunnelMap
           /\ \A t \in Tunnels : idle'[t] = idle[t] \/ idle'[t] = 0
  BY DEF ReqStep, Access, Enqueue, ReadSome, GiveWay, Deregister, Close,
         Leave, Unlock, Take, Respond, Copy, lockVars, mapVars, taskVars,
         HttpTypeInv, HttpTypeOK

LEMMA AgeStep ==
    ASSUME AgeInv, [HttpNext]_httpVars
    PROVE  AgeBounded'
  <1> USE HttpAssumption DEF AgeInv, AgeBounded
  <1>0. /\ ticker \in Nat /\ ticker <= TunnelTimeout
        /\ idle \in [Tunnels -> Nat] /\ tunnelMap \in SUBSET Tunnels
    BY DEF HttpTypeInv, HttpTypeOK
  <1>1. ASSUME NEW t \in Tunnels, Connect(t)
        PROVE  AgeBounded'
    BY <1>0, <1>1 DEF Connect, lockVars, taskVars
  <1>2. ASSUME NEW r \in Reqs, NEW l \in Locks, Lookup(r, l)
        PROVE  AgeBounded'
    BY <1>2 DEF Lookup, mapVars, taskVars
  <1>3. ASSUME NEW r \in Reqs, ReqStep(r) \/ Take(r) \/ Respond(r) \/ Copy(r)
        PROVE  AgeBounded'
    <2>1. /\ UNCHANGED <<ticker, removeIDs>>
          /\ tunnelMap' \in SUBSET tunnelMap
          /\ \A t \in Tunnels : idle'[t] = idle[t] \/ idle'[t] = 0
      BY <1>3, ReqStepEffect
    <2> QED
      BY <1>0, <2>1
  <1>4. CASE Scan
    BY <1>0, <1>4 DEF Scan, mapVars
  <1>5. CASE RemoveMarked
    BY <1>0, <1>5 DEF RemoveMarked
  <1>6. CASE Tick
    BY <1>0, <1>6 DEF Tick, IdleCap
  <1>7. CASE UNCHANGED httpVars
    BY <1>7 DEF httpVars
  <1> QED
    BY <1>1, <1>2, <1>3, <1>4, <1>5, <1>6, <1>7 DEF HttpNext

(* No tunnel stays registered for more than twice the timeout unused. *)
THEOREM UnusedAreRemoved == HttpSpec => []UnusedRemoved
  <1>1. HttpInit => AgeInv
    BY HttpTypeInit DEF HttpInit, AgeInv, AgeBounded
  <1>2. AgeInv /\ [HttpNext]_httpVars => AgeInv'
    BY HttpTypeStep, AgeStep DEF AgeInv
  <1>3. AgeInv => UnusedRemoved
    BY HttpAssumption
    DEF AgeInv, AgeBounded, UnusedRemoved, HttpTypeInv, HttpTypeOK
  <1> QED
    BY <1>1, <1>2, <1>3, PTL DEF HttpSpec

-----------------------------------------------------------------------------
(***************************************************************************)
(* A request closes a tunnel only after it has removed it, and no tunnel   *)
(* comes back to the map.                                                  *)
(***************************************************************************)
ClosersDeregistered ==
    \A r \in Reqs :
        /\ ~At(r, "idle") => tunnel[TunnelOf(r)] # "none"
        /\ At(r, "close") => TunnelOf(r) \notin tunnelMap

CloseInv == HttpTypeInv /\ ClosersDeregistered /\ ClosedNotRegistered

LEMMA CloseReqStep ==
    ASSUME CloseInv, NEW r \in Reqs,
           ReqStep(r) \/ Take(r) \/ Respond(r) \/ Copy(r)
    PROVE  (ClosersDeregistered /\ ClosedNotRegistered)'
  <1> USE DEF CloseInv, ClosersDeregistered, ClosedNotRegistered, At
  <1>1. /\ http \in [Reqs -> [pc : HttpPC, lock : Locks \cup {NoLock}]]
        /\ tunnel \in [Tunnels -> {"none", "open", "closed"}]
        /\ tunnelMap \in SUBSET Tunnels
    BY DEF HttpTypeInv, HttpTypeOK
  <1>2. ~At(r, "idle") /\ TunnelOf(r) \in Tunnels
    BY PlacedTypes
    DEF HttpTypeInv, RequestsPlaced, TunnelOf, ReqStep, Access, Enqueue,
        ReadSome, GiveWay, Deregister, Close, Leave, Unlock, Take, Respond, Copy
  <1>3. ASSUME NEW q \in Reqs
        PROVE  TunnelOf(q)' = TunnelOf(q) /\ (q # r => http'[q] = http[q])
    BY <1>1 DEF TunnelOf, Goto, ReqStep, Access, Enqueue, ReadSome, GiveWay,
        Deregister, Close, Leave, Unlock, Take, Respond, Copy
  <1>4. CASE Deregister(r)
    BY <1>1, <1>2, <1>3, <1>4 DEF Deregister, Goto
  <1>5. CASE Close(r)
    BY <1>1, <1>2, <1>3, <1>5 DEF Close, Goto
  <1>6. CASE ~Deregister(r) /\ ~Close(r)
    <2>1. UNCHANGED <<tunnel, tunnelMap>>
      BY <1>6 DEF ReqStep, Access, Enqueue, ReadSome, GiveWay, Leave, Unlock,
          Take, Respond, Copy, mapVars
    <2>2. http'[r].pc # "close"
      BY <1>1, <1>6 DEF ReqStep, Access, Enqueue, ReadSome, GiveWay, Leave,
          Unlock, Take, Respond, Copy, Goto
    <2> QED
      BY <1>2, <1>3, <2>1, <2>2
  <1> QED
    BY <1>4, <1>5, <1>6

LEMMA CloseStep ==
    ASSUME CloseInv, [HttpNext]_httpVars
    PROVE  (ClosersDeregistered /\ ClosedNotRegistered)'
  <1> USE DEF CloseInv, ClosersDeregistered, ClosedNotRegistered, At, TunnelOf
  <1>0. /\ http \in [Reqs -> [pc : HttpPC, lock : Locks \cup {NoLock}]]
        /\ tunnel \in [Tunnels -> {"none", "open", "closed"}]
        /\ tunnelMap \in SUBSET Tunnels
        /\ \A r \in Reqs : ~At(r, "idle") => TunnelOf(r) \in Tunnels
    BY PlacedTypes DEF HttpTypeInv, HttpTypeOK, RequestsPlaced
  <1>1. ASSUME NEW t \in Tunnels, Connect(t)
        PROVE  (ClosersDeregistered /\ ClosedNotRegistered)'
    BY <1>0, <1>1 DEF Connect
  <1>2. ASSUME NEW r \in Reqs, NEW l \in Locks, Lookup(r, l)
        PROVE  (ClosersDeregistered /\ ClosedNotRegistered)'
    BY <1>0, <1>2 DEF Lookup, mapVars
  <1>3. CASE Scan \/ Tick
    BY <1>3 DEF Scan, Tick, mapVars
  <1>4. CASE RemoveMarked
    BY <1>0, <1>4 DEF RemoveMarked
  <1>5. CASE UNCHANGED httpVars
    BY <1>5 DEF httpVars
  <1> QED
    BY <1>1, <1>2, <1>3, <1>4, <1>5, CloseReqStep DEF HttpNext

(* No later request finds a tunnel that was closed. *)
THEOREM ClosedAreNotRegistered == HttpSpec => []ClosedNotRegistered
  <1>1. HttpInit => CloseInv
    BY HttpTypeInit
    DEF HttpInit, CloseInv, ClosersDeregistered, ClosedNotRegistered, At
  <1>2. CloseInv /\ [HttpNext]_httpVars => CloseInv'
    BY HttpTypeStep, CloseStep DEF CloseInv
  <1>3. CloseInv => ClosedNotRegistered
    BY DEF CloseInv
  <1> QED
    BY <1>1, <1>2, <1>3, PTL DEF HttpSpec

-----------------------------------------------------------------------------
(* Refinement: each lock goes through the states of CountedLock.           *)

(* A step that leaves l and everybody's place at l alone stutters. *)
LEMMA LockStutters ==
    ASSUME NEW l \in Locks, core'[l] = core[l], numLocks'[l] = numLocks[l],
           \A q \in Reqs : LockPC(q, l)' = LockPC(q, l)
    PROVE  [Lock(l)!LockNext]_(Lock(l)!lockVars)
  BY DEF Lock!lockVars

(* A request that goes on touches only its own place at its own lock. *)
LEMMA OthersStay ==
    ASSUME HttpTypeInv, NEW r \in Reqs, NEW l \in Locks, NEW pc, Goto(r, pc),
           NEW q \in Reqs, q # r \/ http[r].lock # l
    PROVE  LockPC(q, l)' = LockPC(q, l)
  <1>1. http \in [Reqs -> [pc : HttpPC, lock : Locks \cup {NoLock}]]
    BY DEF HttpTypeInv, HttpTypeOK
  <1>2. http'[q].lock = http[q].lock /\ (q # r => http'[q] = http[q])
    BY <1>1 DEF Goto
  <1> QED
    BY <1>2 DEF LockPC

(* A request that moves to place pc at its lock l, as CountedLock sees it. *)
LEMMA PlaceMoves ==
    ASSUME NEW r \in Reqs, NEW l \in Locks, NEW pc,
           LockPC(r, l)' = pc,
           \A q \in Reqs : q # r => LockPC(q, l)' = LockPC(q, l)
    PROVE  [q \in Reqs |-> LockPC(q, l)'] =
               [[q \in Reqs |-> LockPC(q, l)] EXCEPT ![r] = pc]
  OBVIOUS

LEMMA ReqStepOnLock ==
    ASSUME HttpTypeInv, NEW r \in Reqs,
           ReqStep(r) \/ Take(r) \/ Respond(r) \/ Copy(r),
           NEW l \in Locks
    PROVE  [Lock(l)!LockNext]_(Lock(l)!lockVars)
  <1>0. /\ core \in [Locks -> Reqs \cup {NoReq}]
        /\ numLocks \in [Locks -> Int]
        /\ http \in [Reqs -> [pc : HttpPC, lock : Locks \cup {NoLock}]]
    BY DEF HttpTypeInv, HttpTypeOK
  <1>1. PICK pc \in HttpPC : Goto(r, pc)
    BY DEF HttpPC, HoldingPC, WritingPC, ReqStep, Access, Enqueue, ReadSome,
        GiveWay, Deregister, Close, Leave, Unlock, Take, Respond, Copy
  <1>2. \A q \in Reqs : q # r \/ http[r].lock # l => LockPC(q, l)' = LockPC(q, l)
    BY <1>1, OthersStay
  <1>3. CASE http[r].lock # l
    <2>1. core'[l] = core[l] /\ numLocks'[l] = numLocks[l]
      BY <1>0, <1>3 DEF ReqStep, Access, Enqueue, ReadSome, GiveWay,
          Deregister, Close, Leave, Unlock, Take, Respond, Copy, lockVars
    <2> QED
      BY <1>2, <1>3, <2>1, LockStutters
  <1>4. CASE http[r].lock = l /\ Enqueue(r)
    <2>1. LockPC(r, l) = "out" /\ LockPC(r, l)' = "wait"
      BY <1>0, <1>4 DEF Enqueue, Goto, At, LockPC, HoldingPC, WritingPC
    <2>2. Lock(l)!Enqueue(r)
      BY <1>0, <1>2, <1>4, <2>1, PlaceMoves DEF Enqueue, Lock!Enqueue
    <2> QED
      BY <2>2 DEF Lock!LockNext
  <1>5. CASE http[r].lock = l /\ Take(r)
    <2>1. LockPC(r, l) = "wait" /\ LockPC(r, l)' = "held"
      BY <1>0, <1>5 DEF Take, Goto, At, LockPC, HoldingPC, WritingPC
    <2>2. Lock(l)!Take(r)
      BY <1>0, <1>2, <1>5, <2>1, PlaceMoves DEF Take, Lock!Take
    <2> QED
      BY <2>2 DEF Lock!LockNext
  <1>6. CASE http[r].lock = l /\ Leave(r)
    <2>1. LockPC(r, l) = "held" /\ LockPC(r, l)' = "release"
      BY <1>0, <1>6 DEF Leave, Goto, At, LockPC, HoldingPC, WritingPC
    <2>2. Lock(l)!Leave(r)
      BY <1>0, <1>2, <1>6, <2>1, PlaceMoves DEF Leave, Lock!Leave
    <2> QED
      BY <2>2 DEF Lock!LockNext
  <1>7. CASE http[r].lock = l /\ Unlock(r)
    <2>1. LockPC(r, l) = "release" /\ LockPC(r, l)' = "out"
      BY <1>0, <1>7 DEF Unlock, Goto, At, LockPC, HoldingPC, WritingPC
    <2>2. Lock(l)!Unlock(r)
      BY <1>0, <1>2, <1>7, <2>1, PlaceMoves DEF Unlock, Lock!Unlock
    <2> QED
      BY <2>2 DEF Lock!LockNext
  <1>8. CASE /\ http[r].lock = l
             /\ ~(Enqueue(r) \/ Take(r) \/ Leave(r) \/ Unlock(r))
    <2>1. UNCHANGED <<core, numLocks>>
      BY <1>8 DEF ReqStep, Access, ReadSome, GiveWay, Deregister, Close,
          Respond, Copy, lockVars
    <2>2. LockPC(r, l)' = LockPC(r, l)
      BY <1>0, <1>8 DEF ReqStep, Access, ReadSome, GiveWay, Deregister, Close,
          Respond, Copy, Goto, At, LockPC, HoldingPC, WritingPC
    <2> QED
      BY <1>2, <2>1, <2>2, LockStutters
  <1> QED
    BY <1>3, <1>4, <1>5, <1>6, <1>7, <1>8

LEMMA LockStep ==
    ASSUME HttpTypeInv, [HttpNext]_httpVars, NEW l \in Locks
    PROVE  [Lock(l)!LockNext]_(Lock(l)!lockVars)
  <1>1. ASSUME UNCHANGED <<core, numLocks, http>>
        PROVE  [Lock(l)!LockNext]_(Lock(l)!lockVars)
    BY <1>1, LockStutters DEF LockPC
  <1>2. ASSUME NEW r \in Reqs, NEW k \in Locks, Lookup(r, k)
        PROVE  [Lock(l)!LockNext]_(Lock(l)!lockVars)
    <2>1. http \in [Reqs -> [pc : HttpPC, lock : Locks \cup {NoLock}]]
      BY DEF HttpTypeInv, HttpTypeOK
    <2>2. \A q \in Reqs : q # r => http'[q] = http[q]
      BY <1>2, <2>1 DEF Lookup
    <2>3. LockPC(r, l) = "out" /\ LockPC(r, l)' = "out"
      BY <1>2, <2>1 DEF Lookup, At, LockPC, HoldingPC, WritingPC
    <2>4. \A q \in Reqs : LockPC(q, l)' = LockPC(q, l)
      BY <2>2, <2>3 DEF LockPC
    <2> QED
      BY <1>2, <2>4, LockStutters DEF Lookup, lockVars
  <1>3. ASSUME NEW t \in Tunnels, Connect(t)
        PROVE  UNCHANGED <<core, numLocks, http>>
    BY <1>3 DEF Connect, lockVars
  <1>4. ASSUME Scan \/ RemoveMarked \/ Tick \/ UNCHANGED httpVars
        PROVE  UNCHANGED <<core, numLocks, http>>
    BY <1>4 DEF Scan, RemoveMarked, Tick, httpVars, lockVars
  <1> QED
    BY <1>1, <1>2, <1>3, <1>4, ReqStepOnLock DEF HttpNext

(* Requests use the locks of the tunnels as CountedLock says. *)
THEOREM LocksAreImplemented == HttpSpec => LocksImplemented
  <1>1. HttpInit => \A l \in Locks : Lock(l)!LockInit
    BY DEF HttpInit, Lock!LockInit, LockPC, HoldingPC, WritingPC
  <1>2. HttpInit => HttpTypeInv
    BY HttpTypeInit
  <1>3. HttpTypeInv /\ [HttpNext]_httpVars => HttpTypeInv'
    BY HttpTypeStep
  <1>4. HttpTypeInv /\ [HttpNext]_httpVars
            => [\A l \in Locks : [Lock(l)!LockNext]_(Lock(l)!lockVars)]_httpVars
    BY LockStep
  <1> QED
    BY <1>1, <1>2, <1>3, <1>4, PTL DEF HttpSpec, LocksImplemented

-----------------------------------------------------------------------------
(***************************************************************************)
(* What the holder of a lock relies on.  The count of a lock is, between   *)
(* any two steps, the number of requests that wait for it or hold it.      *)
(***************************************************************************)
CountedAt(l) == {r \in Reqs : LockPC(r, l) \in {"wait", "held"}}

QueueInv ==
    \A l \in Locks :
        /\ \A r \in Reqs : LockPC(r, l) \in {"held", "release"} => core[l] = r
        /\ numLocks[l] = Cardinality(CountedAt(l))

(* Where a request is is one of CountedLock's four places. *)
LEMMA LockPCType ==
    ASSUME NEW r, NEW l
    PROVE  LockPC(r, l) \in {"out", "wait", "held", "release"}
  BY DEF LockPC

LEMMA CountedAtFinite ==
    ASSUME NEW l
    PROVE  IsFiniteSet(CountedAt(l))
  BY FS_Subset, CountedAt(l) \in SUBSET Reqs, HttpAssumption DEF CountedAt

LEMMA QueueInit ==
    ASSUME HttpInit
    PROVE  QueueInv
  <1> SUFFICES ASSUME NEW l \in Locks
               PROVE  /\ \A r \in Reqs : LockPC(r, l) = "out"
                      /\ numLocks[l] = Cardinality(CountedAt(l))
    BY DEF QueueInv
  <1>1. \A r \in Reqs : LockPC(r, l) = "out"
    BY DEF HttpInit, LockPC, HoldingPC, WritingPC
  <1>2. CountedAt(l) = {}
    BY <1>1 DEF CountedAt
  <1> QED
    BY <1>1, <1>2, FS_EmptySet DEF HttpInit

(* A step of CountedLock at l keeps the count. *)
LEMMA QueueStepAt ==
    ASSUME QueueInv, NEW l \in Locks, [Lock(l)!LockNext]_(Lock(l)!lockVars)
    PROVE  /\ \A r \in Reqs : LockPC(r, l)' \in {"held", "release"} => core'[l] = r
           /\ numLocks'[l] = Cardinality(CountedAt(l)')
  <1> DEFINE place == [r \in Reqs |-> LockPC(r, l)]
             place2 == [r \in Reqs |-> LockPC(r, l)']
  <1>0. /\ \A r \in Reqs : place[r] = LockPC(r, l)
        /\ \A r \in Reqs : place2[r] = LockPC(r, l)'
        /\ CountedAt(l) = {r \in Reqs : place[r] \in {"wait", "held"}}
        /\ CountedAt(l)' = {r \in Reqs : place2[r] \in {"wait", "held"}}
        /\ place \in [Reqs -> {"out", "wait", "held", "release"}]
    BY LockPCType DEF CountedAt
  <1>1. /\ \A r \in Reqs : place[r] \in {"held", "release"} => core[l] = r
        /\ numLocks[l] = Cardinality(CountedAt(l))
        /\ IsFiniteSet(CountedAt(l))
    BY <1>0, CountedAtFinite DEF QueueInv
  <1>2. \/ \E r \in Reqs :
             \/ /\ place[r] = "out" /\ place2 = [place EXCEPT ![r] = "wait"]
                /\ numLocks'[l] = numLocks[l] + 1 /\ core'[l] = core[l]
             \/ /\ place[r] = "wait" /\ place2 = [place EXCEPT ![r] = "held"]
                /\ numLocks'[l] = numLocks[l] /\ core[l] = NoReq /\ core'[l] = r
             \/ /\ place[r] = "held" /\ place2 = [place EXCEPT ![r] = "release"]
                /\ numLocks'[l] = numLocks[l] - 1 /\ core'[l] = core[l]
             \/ /\ place[r] = "release" /\ place2 = [place EXCEPT ![r] = "out"]
                /\ numLocks'[l] = numLocks[l] /\ core'[l] = NoReq
        \/ place2 = place /\ numLocks'[l] = numLocks[l] /\ core'[l] = core[l]
    BY DEF Lock!LockNext, Lock!lockVars, Lock!Enqueue, Lock!Take, Lock!Leave,
           Lock!Unlock
  <1> HIDE DEF place, place2
  <1> DEFINE holds == \A r \in Reqs : place2[r] \in {"held", "release"} => core'[l] = r
             counts == numLocks'[l] = Cardinality(CountedAt(l)')
  <1> SUFFICES holds /\ counts
    BY <1>0
  <1>3. ASSUME NEW r \in Reqs, place[r] = "out",
               place2 = [place EXCEPT ![r] = "wait"],
               numLocks'[l] = numLocks[l] + 1, core'[l] = core[l]
        PROVE  holds /\ counts
    <2>1. r \notin CountedAt(l) /\ CountedAt(l)' = CountedAt(l) \cup {r}
      BY <1>0, <1>3
    <2>2. Cardinality(CountedAt(l)') = Cardinality(CountedAt(l)) + 1
      BY <1>1, <2>1, FS_AddElement
    <2> QED
      BY <1>0, <1>1, <1>3, <2>2
  <1>4. ASSUME NEW r \in Reqs, place[r] = "wait",
               place2 = [place EXCEPT ![r] = "held"],
               numLocks'[l] = numLocks[l], core[l] = NoReq, core'[l] = r
        PROVE  holds /\ counts
    <2>1. CountedAt(l)' = CountedAt(l)
      BY <1>0, <1>4
    <2> QED
      BY <1>0, <1>1, <1>4, <2>1, HttpAssumption
  <1>5. ASSUME NEW r \in Reqs, place[r] = "held",
               place2 = [place EXCEPT ![r] = "release"],
               numLocks'[l] = numLocks[l] - 1, core'[l] = core[l]
        PROVE  holds /\ counts
    <2>1. r \in CountedAt(l) /\ CountedAt(l)' = CountedAt(l) \ {r}
      BY <1>0, <1>5
    <2>2. Cardinality(CountedAt(l)') = Cardinality(CountedAt(l)) - 1
      BY <1>1, <2>1, FS_RemoveElement
    <2> QED
      BY <1>0, <1>1, <1>5, <2>2
  <1>6. ASSUME NEW r \in Reqs, place[r] = "release",
               place2 = [place EXCEPT ![r] = "out"],
               numLocks'[l] = numLocks[l], core'[l] = NoReq
        PROVE  holds /\ counts
    <2>1. CountedAt(l)' = CountedAt(l)
      BY <1>0, <1>6
    <2> QED
      BY <1>0, <1>1, <1>6, <2>1
  <1>7. CASE place2 = place /\ numLocks'[l] = numLocks[l] /\ core'[l] = core[l]
    <2>1. CountedAt(l)' = CountedAt(l)
      BY <1>0, <1>7
    <2> QED
      BY <1>0, <1>1, <1>7, <2>1
  <1> QED
    BY <1>2, <1>3, <1>4, <1>5, <1>6, <1>7

(* The count while r holds the lock: one more than the requests waiting. *)
LEMMA QueuesSeenFromInv ==
    ASSUME QueueInv
    PROVE  QueuesSeen
  <1> SUFFICES ASSUME NEW l \in Locks PROVE Lock(l)!QueueSeen
    BY DEF QueuesSeen
  <1> SUFFICES ASSUME NEW t \in Reqs, LockPC(t, l) = "held"
               PROVE  /\ \A u \in Reqs : LockPC(u, l) \in {"held", "release"} => u = t
                      /\ numLocks[l] > 1 <=> \E u \in Reqs : LockPC(u, l) = "wait"
    BY DEF Lock!QueueSeen, Lock!HasQueued
  <1>1. \A u \in Reqs : LockPC(u, l) \in {"held", "release"} => u = t
    BY DEF QueueInv
  <1>2. t \in CountedAt(l) /\ IsFiniteSet(CountedAt(l))
    BY CountedAtFinite DEF CountedAt
  <1>3. Cardinality(CountedAt(l)) \in Nat /\ Cardinality(CountedAt(l)) # 0
    BY <1>2, FS_CardinalityType, FS_EmptySet
  <1>4. Cardinality(CountedAt(l)) = 1 <=> \E x : CountedAt(l) = {x}
    BY <1>2, FS_Singleton
  <1>5. (\E x : CountedAt(l) = {x}) <=> CountedAt(l) = {t}
    BY <1>2
  <1>6. CountedAt(l) = {t} <=> ~\E u \in Reqs : LockPC(u, l) = "wait"
    BY <1>1, <1>2 DEF CountedAt
  <1>7. numLocks[l] > 1 <=> numLocks[l] # 1
    BY <1>3 DEF QueueInv
  <1> QED
    BY <1>1, <1>4, <1>5, <1>6, <1>7 DEF QueueInv

(* The holder of a tunnel's lock sees exactly whether another request waits. *)
THEOREM QueuesAreSeen == HttpSpec => []QueuesSeen
  <1>1. HttpInit => HttpTypeInv /\ QueueInv
    BY HttpTypeInit, QueueInit
  <1>2. HttpTypeInv /\ QueueInv /\ [HttpNext]_httpVars => QueueInv'
    BY LockStep, QueueStepAt DEF QueueInv
  <1>3. HttpTypeInv /\ QueueInv /\ [HttpNext]_httpVars
            => (HttpTypeInv /\ QueueInv)'
    BY <1>2, HttpTypeStep
  <1>4. QueueInv => QueuesSeen
    BY QueuesSeenFromInv
  <1> QED
    BY <1>1, <1>3, <1>4, PTL DEF HttpSpec
===============================================================================
