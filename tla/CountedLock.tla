---------------------------- MODULE CountedLock ----------------------------
(***************************************************************************)
(* A mutex that knows how many goroutines are waiting for it: the count is *)
(* an atomic integer next to the mutex, raised before Lock and lowered     *)
(* before Unlock, not under the mutex.  (The count is 32 bits wide, which  *)
(* no number of goroutines exceeds.)                                       *)
(***************************************************************************)
EXTENDS Integers, FiniteSets

CONSTANTS Threads, NoThread

LockAssumption == IsFiniteSet(Threads) /\ NoThread \notin Threads

VARIABLES
    core,       \* the holder of the sync.Mutex
    numLocks,   \* the counter
    pc          \* where each thread is: out, wait, held, release

lockVars == <<core, numLocks, pc>>

LockPC == {"out", "wait", "held", "release"}

LockTypeOK ==
    /\ core \in Threads \cup {NoThread}
    /\ numLocks \in Nat
    /\ pc \in [Threads -> LockPC]

LockInit ==
    /\ core = NoThread
    /\ numLocks = 0
    /\ pc = [t \in Threads |-> "out"]

(* Lock, its two steps. *)
Enqueue(t) ==
    /\ pc[t] = "out"
    /\ numLocks' = numLocks + 1
    /\ pc' = [pc EXCEPT ![t] = "wait"]
    /\ UNCHANGED core

Take(t) ==
    /\ pc[t] = "wait"
    /\ core = NoThread
    /\ core' = t
    /\ pc' = [pc EXCEPT ![t] = "held"]
    /\ UNCHANGED numLocks

(* Unlock, its two steps. *)
Leave(t) ==
    /\ pc[t] = "held"
    /\ numLocks' = numLocks - 1
    /\ pc' = [pc EXCEPT ![t] = "release"]
    /\ UNCHANGED core

Unlock(t) ==
    /\ pc[t] = "release"
    /\ core' = NoThread
    /\ pc' = [pc EXCEPT ![t] = "out"]
    /\ UNCHANGED numLocks

LockNext ==
    \E t \in Threads : Enqueue(t) \/ Take(t) \/ Leave(t) \/ Unlock(t)

LockSpec == LockInit /\ [][LockNext]_lockVars

(* Wrong on purpose: counts the caller's predecessor too. *)
HasQueued_OffByOne == numLocks > 2

HasQueued == numLocks > 1

-----------------------------------------------------------------------------
(***************************************************************************)
(* What the holder relies on when it asks HasQueued to decide whether to   *)
(* give way (Server.writeSome): nobody else is past Lock, and the answer   *)
(* is true exactly if somebody is waiting, whatever steps of Lock and      *)
(* Unlock the others are between.                                          *)
(***************************************************************************)
QueueSeen ==
    \A t \in Threads : pc[t] = "held" =>
        /\ \A u \in Threads : pc[u] \in {"held", "release"} => u = t
        /\ HasQueued <=> \E u \in Threads : pc[u] = "wait"
=============================================================================
