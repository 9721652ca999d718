---------------------------- MODULE HttpTunnels ----------------------------
(***************************************************************************)
(* The HTTP transport of a tunnel: Server with its TunnelMap.  A tunnel is *)
(* used by read and write requests, each a goroutine; the reader and the   *)
(* writer lock of the tunnel are CountedLocks; a task closes tunnels that  *)
(* have not been accessed for TunnelTimeout.                               *)
(***************************************************************************)
EXTENDS Integers, FiniteSets

CONSTANTS
    Tunnels,        \* tunnels by their own uuid; each is connected once
    Reqs,           \* read and write requests, each served once
    NoReq,          \* a lock nobody holds
    NoLock,         \* an unused request slot
    TunnelTimeout   \* in ticks; also the period of the ticker

ASSUME HttpAssumption ==
    /\ IsFiniteSet(Reqs)
    /\ NoReq \notin Reqs
    /\ NoLock \notin Tunnels \X {"read", "write"}
    /\ TunnelTimeout \in Nat \ {0}

VARIABLES
    tunnel,     \* whether SimpleTunnel, and its stream, is open
    tunnelMap,  \* TunnelMap.tunnelMap, its keys
    idle,       \* ticks since lastAccessedTime
    core,       \* holder of the mutex of each lock
    numLocks,   \* its count
    http,       \* the requests: next step, and the lock they use
    ticker,     \* ticks since the timeout task last ran
    removeIDs   \* what the running task has marked; empty between its runs

httpVars == <<tunnel, tunnelMap, idle, core, numLocks, http, ticker,
              removeIDs>>

Locks == Tunnels \X {"read", "write"}

(* In a write to the client, which ends when the client reads or goes. *)
WritingPC == {"headers", "message", "marker"}

(* From taking the lock to the count of Unlock, and past it. *)
HoldingPC == WritingPC \cup {"work", "got", "deregister", "close", "leave"}
HttpPC == {"idle", "access", "enqueue", "wait", "unlock", "done"}
            \cup HoldingPC

HttpTypeOK ==
    /\ tunnel \in [Tunnels -> {"none", "open", "closed"}]
    /\ tunnelMap \in SUBSET Tunnels
    /\ idle \in [Tunnels -> Nat]
    /\ core \in [Locks -> Reqs \cup {NoReq}]
    /\ numLocks \in [Locks -> Int]
    /\ http \in [Reqs -> [pc : HttpPC, lock : Locks \cup {NoLock}]]
    /\ ticker \in 0..TunnelTimeout
    /\ removeIDs \in SUBSET Tunnels

HttpInit ==
    /\ tunnel = [t \in Tunnels |-> "none"]
    /\ tunnelMap = {}
    /\ idle = [t \in Tunnels |-> 0]
    /\ core = [l \in Locks |-> NoReq]
    /\ numLocks = [l \in Locks |-> 0]
    /\ http = [r \in Reqs |-> [pc |-> "idle", lock |-> NoLock]]
    /\ ticker = 0
    /\ removeIDs = {}

(* Where r is with respect to lock l. *)
LockPC(r, l) ==
    IF http[r].lock # l THEN "out"
    ELSE IF http[r].pc = "wait" THEN "wait"
    ELSE IF http[r].pc \in HoldingPC THEN "held"
    ELSE IF http[r].pc = "unlock" THEN "release"
    ELSE "out"

Lock(l) == INSTANCE CountedLock
    WITH Threads <- Reqs, NoThread <- NoReq,
         core <- core[l], numLocks <- numLocks[l],
         pc <- [r \in Reqs |-> LockPC(r, l)]

-----------------------------------------------------------------------------
(* Requests. *)

At(r, pc) == http[r].pc = pc
Goto(r, pc) == http' = [http EXCEPT ![r].pc = pc]
TunnelOf(r) == http[r].lock[1]

lockVars == <<core, numLocks>>
mapVars  == <<tunnel, tunnelMap, idle>>
taskVars == <<ticker, removeIDs>>

(* "connect": the callback makes the tunnel, Put registers it. *)
Connect(t) ==
    /\ tunnel[t] = "none"
    /\ tunnel' = [tunnel EXCEPT ![t] = "open"]
    /\ tunnelMap' = tunnelMap \cup {t}
    /\ idle' = [idle EXCEPT ![t] = 0]
    /\ UNCHANGED http /\ UNCHANGED lockVars /\ UNCHANGED taskVars

(* "read:" or "write:", the lookup of TunnelMap.Get under its lock ... *)
Lookup(r, l) ==
    /\ At(r, "idle")
    /\ tunnel[l[1]] # "none"
    /\ \/ /\ l[1] \in tunnelMap
          /\ http' = [http EXCEPT ![r] = [pc |-> "access", lock |-> l]]
       \/ /\ l[1] \notin tunnelMap
          /\ http' = [http EXCEPT ![r] = [pc |-> "done", lock |-> l]]
    /\ UNCHANGED mapVars /\ UNCHANGED lockVars /\ UNCHANGED taskVars

(* ... and Access, after that lock is released. *)
Access(r) ==
    /\ At(r, "access")
    /\ idle' = [idle EXCEPT ![TunnelOf(r)] = 0]
    /\ Goto(r, "enqueue")
    /\ UNCHANGED <<tunnel, tunnelMap>>
    /\ UNCHANGED lockVars /\ UNCHANGED taskVars

(* AcquireReader, AcquireWriter: the two steps of CountedLock.Lock. *)
Enqueue(r) ==
    /\ At(r, "enqueue")
    /\ Goto(r, "wait")
    /\ numLocks' = [numLocks EXCEPT ![http[r].lock] = @ + 1]
    /\ UNCHANGED core /\ UNCHANGED mapVars /\ UNCHANGED taskVars

Take(r) ==
    /\ At(r, "wait")
    /\ core[http[r].lock] = NoReq
    /\ core' = [core EXCEPT ![http[r].lock] = r]
    /\ Goto(r, IF http[r].lock[2] = "read" THEN "headers" ELSE "work")
    /\ UNCHANGED numLocks /\ UNCHANGED mapVars /\ UNCHANGED taskVars

(***************************************************************************)
(* writeSome, one round: ReadSome returns a message, or an error: guacd    *)
(* has closed the connection and what it sent before is used up, nothing   *)
(* came for 15 seconds, or this side has closed it (no deadline can be set *)
(* any more, so that what is buffered is not returned either).             *)
(***************************************************************************)
ReadSome(r) ==
    /\ At(r, "work")
    /\ http[r].lock[2] = "read"
    /\ \/ tunnel[TunnelOf(r)] = "open" /\ Goto(r, "message")
       \/ Goto(r, "deregister")
    /\ UNCHANGED mapVars /\ UNCHANGED lockVars /\ UNCHANGED taskVars

(***************************************************************************)
(* A write to the response, or its Flush, returns: the headers', that of a *)
(* message, which may fail, and that of the marker "0.;".  (If the marker  *)
(* of writeSome fails, doRead panics on the type of the error, and the     *)
(* deferred release is all that happens: the same step.)                   *)
(***************************************************************************)
Respond(r) ==
    /\ \/ At(r, "headers") /\ Goto(r, "work")
       \/ At(r, "message") /\ (Goto(r, "got") \/ Goto(r, "deregister"))
       \/ At(r, "marker") /\ Goto(r, "leave")
    /\ UNCHANGED mapVars /\ UNCHANGED lockVars /\ UNCHANGED taskVars

(* The reader ends when another one is waiting. *)
GiveWay(r) ==
    /\ At(r, "got")
    /\ Goto(r, IF Lock(http[r].lock)!HasQueued THEN "marker" ELSE "work")
    /\ UNCHANGED mapVars /\ UNCHANGED lockVars /\ UNCHANGED taskVars

(* doWrite copies the body to guacd; the client may take its time. *)
Copy(r) ==
    /\ At(r, "work")
    /\ http[r].lock[2] = "write"
    /\ Goto(r, "leave") \/ Goto(r, "deregister")
    /\ UNCHANGED mapVars /\ UNCHANGED lockVars /\ UNCHANGED taskVars

(* Wrong on purpose: leaves the tunnel registered. *)
Deregister_Forgets(r) ==
    /\ At(r, "deregister")
    /\ Goto(r, "close")
    /\ UNCHANGED mapVars /\ UNCHANGED lockVars /\ UNCHANGED taskVars

(* After an error.  doRead repeats what writeSome did; that changes nothing.*)
Deregister(r) ==
    /\ At(r, "deregister")
    /\ tunnelMap' = tunnelMap \ {TunnelOf(r)}
    /\ Goto(r, "close")
    /\ UNCHANGED <<tunnel, idle>>
    /\ UNCHANGED lockVars /\ UNCHANGED taskVars

(* Wrong on purpose: the error path returns without the deferred release. *)
Close_NoRelease(r) ==
    /\ At(r, "close")
    /\ tunnel' = [tunnel EXCEPT ![TunnelOf(r)] = "closed"]
    /\ Goto(r, "done")
    /\ UNCHANGED <<tunnelMap, idle>>
    /\ UNCHANGED lockVars /\ UNCHANGED taskVars

(* A reader told that the connection is closed tells its client. *)
Close(r) ==
    /\ At(r, "close")
    /\ tunnel' = [tunnel EXCEPT ![TunnelOf(r)] = "closed"]
    /\ Goto(r, "leave") \/ (http[r].lock[2] = "read" /\ Goto(r, "marker"))
    /\ UNCHANGED <<tunnelMap, idle>>
    /\ UNCHANGED lockVars /\ UNCHANGED taskVars

(* Wrong on purpose: never lowers the count. *)
Leave_StaysCounted(r) ==
    /\ At(r, "leave")
    /\ Goto(r, "unlock")
    /\ UNCHANGED numLocks
    /\ UNCHANGED core /\ UNCHANGED mapVars /\ UNCHANGED taskVars

(* ReleaseReader, ReleaseWriter: the two steps of CountedLock.Unlock. *)
Leave(r) ==
    /\ At(r, "leave")
    /\ numLocks' = [numLocks EXCEPT ![http[r].lock] = @ - 1]
    /\ Goto(r, "unlock")
    /\ UNCHANGED core /\ UNCHANGED mapVars /\ UNCHANGED taskVars

Unlock(r) ==
    /\ At(r, "unlock")
    /\ core' = [core EXCEPT ![http[r].lock] = NoReq]
    /\ Goto(r, "done")
    /\ UNCHANGED numLocks /\ UNCHANGED mapVars /\ UNCHANGED taskVars

-----------------------------------------------------------------------------
(* The timeout task, run by a ticker.                                      *)

(* Wrong on purpose: allows twice the time. *)
Scan_Doubled ==
    /\ ticker = TunnelTimeout
    /\ removeIDs' = {t \in tunnelMap : idle[t] > 2 * TunnelTimeout}
    /\ ticker' = 0
    /\ UNCHANGED http /\ UNCHANGED mapVars /\ UNCHANGED lockVars

(* Wrong on purpose: spares a tunnel somebody is reading from. *)
Scan_SparesReaders ==
    /\ ticker = TunnelTimeout
    /\ removeIDs' = {t \in tunnelMap : /\ idle[t] > TunnelTimeout
                                       /\ core[<<t, "read">>] = NoReq}
    /\ ticker' = 0
    /\ UNCHANGED http /\ UNCHANGED mapVars /\ UNCHANGED lockVars

(* Under the read lock. *)
Scan ==
    /\ ticker = TunnelTimeout
    /\ removeIDs' = {t \in tunnelMap : idle[t] > TunnelTimeout}
    /\ ticker' = 0
    /\ UNCHANGED http /\ UNCHANGED mapVars /\ UNCHANGED lockVars

(* Under the write lock, without a second look at the access times. *)
RemoveMarked ==
    /\ removeIDs # {}
    /\ tunnelMap' = tunnelMap \ removeIDs
    /\ tunnel' = [t \in Tunnels |->
                    IF t \in removeIDs THEN "closed" ELSE tunnel[t]]
    /\ removeIDs' = {}
    /\ UNCHANGED <<idle, ticker, http>> /\ UNCHANGED lockVars

(* No two longer times are told apart. *)
IdleCap == 2 * TunnelTimeout + 1

(* Wrong on purpose: the task may come later than the ticker says. *)
Tick_TaskLate ==
    /\ removeIDs = {}
    /\ \A r \in Reqs : ~At(r, "access")
    /\ ticker' = ticker + 1
    /\ idle' = [t \in Tunnels |->
                  IF t \in tunnelMap /\ idle[t] < IdleCap
                  THEN idle[t] + 1 ELSE idle[t]]
    /\ UNCHANGED <<tunnel, tunnelMap, removeIDs, http>>
    /\ UNCHANGED lockVars

(* Neither the task nor Get takes a tick.  The time of an unregistered      *)
(* tunnel is not read.                                                     *)
Tick ==
    /\ ticker < TunnelTimeout
    /\ removeIDs = {}
    /\ \A r \in Reqs : ~At(r, "access")
    /\ ticker' = ticker + 1
    /\ idle' = [t \in Tunnels |->
                  IF t \in tunnelMap /\ idle[t] < IdleCap
                  THEN idle[t] + 1 ELSE idle[t]]
    /\ UNCHANGED <<tunnel, tunnelMap, removeIDs, http>>
    /\ UNCHANGED lockVars

-----------------------------------------------------------------------------
(* What a request does by itself. *)
ReqStep(r) ==
    \/ Access(r) \/ Enqueue(r) \/ ReadSome(r) \/ GiveWay(r)
    \/ Deregister(r) \/ Close(r) \/ Leave(r) \/ Unlock(r)

HttpNext ==
    \/ \E t \in Tunnels : Connect(t)
    \/ \E r \in Reqs, l \in Locks : Lookup(r, l)
    \/ \E r \in Reqs : ReqStep(r) \/ Take(r) \/ Respond(r) \/ Copy(r)
    \/ Scan \/ RemoveMarked \/ Tick

HttpSpec == HttpInit /\ [][HttpNext]_httpVars

-----------------------------------------------------------------------------
(***************************************************************************)
(* The requests use both locks of every tunnel as CountedLocks: no request *)
(* leaves one behind, on whatever path it ends.                            *)
(***************************************************************************)
LocksImplemented ==
    /\ \A l \in Locks : Lock(l)!LockInit
    /\ [][\A l \in Locks : [Lock(l)!LockNext]_(Lock(l)!lockVars)]_httpVars

(* ... so the reader that gives way knows whether there is somebody to. *)
QueuesSeen == \A l \in Locks : Lock(l)!QueueSeen

(***************************************************************************)
(* A closed tunnel is not found by a later request, although requests, the *)
(* timeout task and a second close race for it.                            *)
(***************************************************************************)
ClosedNotRegistered ==
    \A t \in tunnelMap : tunnel[t] # "closed"

(***************************************************************************)
(* tunnel_map.go:44-49: no tunnel stays registered for more than twice the *)
(* timeout after its last access.                                          *)
(***************************************************************************)
UnusedRemoved ==
    \A t \in tunnelMap : idle[t] <= 2 * TunnelTimeout

(* The holder of l waits for its client to read. *)
HeldUp(l) == core[l] # NoReq /\ http[core[l]].pc \in WritingPC

(***************************************************************************)
(* A second reader of a tunnel gets its turn in the end, even if guacd     *)
(* never stops sending: the first gives way, or fails, and releases on     *)
(* every path.  Only a client can prevent that: a reader waits for ever    *)
(* only if, from some time on, the one before it is in a write of its      *)
(* response, always the same, since a step lies between any two.  No       *)
(* deadline ends that write, nor does closing the tunnel.  (Of writers     *)
(* nothing is said: they wait for a client's body.)                        *)
(***************************************************************************)
ReadersTakeOver ==
    \A r \in Reqs, l \in Tunnels \X {"read"} :
        <>[](At(r, "wait") /\ http[r].lock = l) => <>[]HeldUp(l)

(***************************************************************************)
(* When no more requests come, every tunnel is removed, also one whose     *)
(* reader guacd keeps busy and one whose lock is never released.           *)
(***************************************************************************)
TunnelsDrain ==
    \A t \in Tunnels : []<>(t \notin tunnelMap)

(***************************************************************************)
(* tunnel_map.go:46-48, "it will take between TUNNEL_TIMEOUT and           *)
(* TUNNEL_TIMEOUT*2 seconds before that tunnel is closed and removed": the *)
(* task removes no tunnel accessed since.  Does not hold: a request that   *)
(* looks the tunnel up between the marking and the removal has its access  *)
(* recorded and its tunnel closed.                                         *)
(***************************************************************************)
OnlyUnusedTimedOut ==
    [][RemoveMarked => \A t \in removeIDs : idle[t] >= TunnelTimeout]_httpVars
=============================================================================
