-------------------------- MODULE CountedLock_proofs --------------------------
(***************************************************************************)
(* QueueSeen for any finite set of threads: the count is, between any two  *)
(* steps, the number of threads that wait or hold.                         *)
(***************************************************************************)
EXTENDS CountedLock, FiniteSetTheorems, TLAPS

Counted == {t \in Threads : pc[t] \in {"wait", "held"}}

LockInv ==
    /\ LockTypeOK
    /\ \A t \in Threads : pc[t] \in {"held", "release"} => core = t
    /\ numLocks = Cardinality(Counted)

LEMMA CountedFinite ==
    ASSUME LockAssumption
    PROVE  IsFiniteSet(Counted)
  BY FS_Subset, Counted \in SUBSET Threads DEF LockAssumption, Counted

(* The count while t holds the mutex: one more than the threads waiting. *)
LEMMA QueueSeenFromInv ==
    ASSUME LockAssumption, LockInv
    PROVE  QueueSeen
  <1> SUFFICES ASSUME NEW t \in Threads, pc[t] = "held"
               PROVE  /\ \A u \in Threads : pc[u] \in {"held", "release"} => u = t
                      /\ HasQueued <=> \E u \in Threads : pc[u] = "wait"
    BY DEF QueueSeen
  <1>1. \A u \in Threads : pc[u] \in {"held", "release"} => u = t
    BY DEF LockInv
  <1>2. t \in Counted /\ IsFiniteSet(Counted)
    BY CountedFinite DEF Counted
  <1>3. Cardinality(Counted) \in Nat /\ Cardinality(Counted) # 0
    BY <1>2, FS_CardinalityType, FS_EmptySet
  <1>4. Cardinality(Counted) = 1 <=> \E x : Counted = {x}
    BY <1>2, FS_Singleton
  <1>5. (\E x : Counted = {x}) <=> Counted = {t}
    BY <1>2
  <1>6. Counted = {t} <=> ~\E u \in Threads : pc[u] = "wait"
    BY <1>1, <1>2 DEF Counted
  <1>7. HasQueued <=> numLocks # 1
    BY <1>3 DEF HasQueued, LockInv
  <1> QED
    BY <1>1, <1>4, <1>5, <1>6, <1>7 DEF LockInv

LEMMA LockInvInit ==
    ASSUME LockInit
    PROVE  LockInv
  <1>1. Counted = {}
    BY DEF LockInit, Counted
  <1> QED
    BY <1>1, FS_EmptySet DEF LockInit, LockInv, LockTypeOK, LockPC

LEMMA LockInvStep ==
    ASSUME LockAssumption, LockInv, [LockNext]_lockVars
    PROVE  LockInv'
  <1> USE DEF LockInv, LockTypeOK, LockPC
  <1>0. IsFiniteSet(Counted)
    BY CountedFinite
  <1>1. ASSUME NEW t \in Threads, Enqueue(t)
        PROVE  LockInv'
    <2>1. t \notin Counted /\ Counted' = Counted \cup {t}
      BY <1>1 DEF Enqueue, Counted
    <2>2. Cardinality(Counted') = Cardinality(Counted) + 1
      BY <1>0, <2>1, FS_AddElement
    <2> QED
      BY <1>1, <2>2 DEF Enqueue
  <1>2. ASSUME NEW t \in Threads, Take(t)
        PROVE  LockInv'
    <2>1. Counted' = Counted
      BY <1>2 DEF Take, Counted
    <2> QED
      BY <1>2, <2>1 DEF Take, LockAssumption
  <1>3. ASSUME NEW t \in Threads, Leave(t)
        PROVE  LockInv'
    <2>1. t \in Counted /\ Counted' = Counted \ {t}
      BY <1>3 DEF Leave, Counted
    <2>2. Cardinality(Counted') = Cardinality(Counted) - 1
      BY <1>0, <2>1, FS_RemoveElement
    <2>3. Cardinality(Counted') \in Nat
      BY <1>0, <2>1, FS_RemoveElement, FS_CardinalityType
    <2> QED
      BY <1>3, <2>2, <2>3 DEF Leave
  <1>4. ASSUME NEW t \in Threads, Unlock(t)
        PROVE  LockInv'
    <2>1. Counted' = Counted
      BY <1>4 DEF Unlock, Counted
    <2> QED
      BY <1>4, <2>1 DEF Unlock
  <1>5. ASSUME UNCHANGED lockVars
        PROVE  LockInv'
    BY <1>5 DEF lockVars, Counted
  <1> QED
    BY <1>1, <1>2, <1>3, <1>4, <1>5 DEF LockNext

(* The holder of the lock sees exactly whether somebody waits. *)
THEOREM QueueIsSeen ==
    ASSUME LockAssumption
    PROVE  LockSpec => []QueueSeen
  <1>1. LockInit => LockInv
    BY LockInvInit
  <1>2. LockInv /\ [LockNext]_lockVars => LockInv'
    BY LockInvStep
  <1>3. LockInv => QueueSeen
    BY QueueSeenFromInv
  <1> QED
    BY <1>1, <1>2, <1>3, PTL DEF LockSpec
===============================================================================
