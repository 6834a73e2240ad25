---------------------------- MODULE PsdLockProof ----------------------------
(***************************************************************************)
(* Theorems about PsdLock for any finite set of tasks and any nesting      *)
(* bound: type correctness, exclusion, no refused unlock, no lost wakeup,  *)
(* and that every step is a step of RWLock.                                *)
(***************************************************************************)
EXTENDS PsdLock, FiniteSetTheorems, TLAPS

\* The owner field and the exclusive count tell the same story.
OwnerCounted == (owner = NoTask) <=> (exclCount = 0)

\* pls_SharedLockCount is the length of the list of records.
SharedCounted == sharedCount = Cardinality(Readers)

\* A task waits only for what it does not have.
WaitersLack == \A t \in Task : /\ ~Running(t) => owner # t
                               /\ waiting[t] = "shared" => readCount[t] = 0

\* The caller's books and the lock's agree.
HeldCounted == \A t \in Task : held[t] = Holding(t)

\* The inductive invariant: Exclusion alone is not inductive, the counters on
\* which pLockSemExcl decides have to mean what it takes them to mean.
LockInv == /\ TypeOK
           /\ OwnerCounted
           /\ SharedCounted
           /\ Exclusion
           /\ WaitersLack
           /\ HeldCounted

-----------------------------------------------------------------------------
\* What the shared count says of the records.
LEMMA ReadersFinite ==
  IsFiniteSet(Readers) /\ Cardinality(Readers) \in Nat
  BY TaskAssumption, FS_Subset, FS_CardinalityType DEF Readers

LEMMA NoReaders ==
  ASSUME TypeOK, Cardinality(Readers) = 0
  PROVE  \A u \in Task : readCount[u] = 0
<1>1. Readers = {}
  BY ReadersFinite, FS_EmptySet
<1> QED
  BY <1>1 DEF Readers, TypeOK

LEMMA SoleReader ==
  ASSUME TypeOK, NEW t \in Task, readCount[t] > 0, Cardinality(Readers) = 1
  PROVE  \A u \in Task \ {t} : readCount[u] = 0
<1>1. \E x : Readers = {x}
  BY ReadersFinite, FS_Singleton
<1>2. Readers = {t}
  BY <1>1 DEF Readers
<1> QED
  BY <1>2 DEF Readers, TypeOK

\* What an exclusive grant rests on: nobody else holds the lock in any way.
LEMMA ExclGrantExcludes ==
  ASSUME LockInv, NEW t \in Task, ExclGrantable(t)
  PROVE  /\ owner \in {t, NoTask}
         /\ \A u \in Task \ {t} : readCount[u] = 0
<1>1. CASE owner = t
  BY <1>1, NoTaskAssumption DEF LockInv, Exclusion, Readers, TypeOK
<1>2. CASE owner # t
  <2>1. exclCount = 0 /\ owner = NoTask
    BY <1>2 DEF ExclGrantable, LockInv, OwnerCounted
  <2>2. CASE sharedCount = 0
    BY <2>1, <2>2, NoReaders DEF LockInv, SharedCounted
  <2>3. CASE sharedCount = 1 /\ readCount[t] > 0
    BY <2>1, <2>3, SoleReader DEF LockInv, SharedCounted
  <2> QED
    BY <1>2, <2>1, <2>2, <2>3 DEF ExclGrantable
<1> QED
  BY <1>1, <1>2

-----------------------------------------------------------------------------
\* The steps that Next is made of, by their effect on the lock.
LEMMA TakeExclKeeps ==
  ASSUME LockInv, NEW t \in Task, ExclGrantable(t), TakeExcl(t),
         waiting' = [waiting EXCEPT ![t] = "no"],
         signalled' \in SUBSET Task, closed' \in BOOLEAN
  PROVE  LockInv'
<1>1. /\ owner \in {t, NoTask}
      /\ \A u \in Task \ {t} : readCount[u] = 0
  BY ExclGrantExcludes
<1> USE NoTaskAssumption DEF LockInv, TypeOK, TakeExcl
<1>2. TypeOK'
  OBVIOUS
<1>3. OwnerCounted'
  BY DEF OwnerCounted
<1>4. SharedCounted'
  BY DEF SharedCounted, Readers
<1>5. Exclusion'
  BY <1>1 DEF Exclusion, Readers
<1>6. WaitersLack'
  BY <1>1 DEF WaitersLack, Running
<1>7. HeldCounted'
  <2> SUFFICES ASSUME NEW u \in Task PROVE held'[u] = Holding(u)'
    BY DEF HeldCounted
  <2>1. CASE u = t
    BY <1>1, <2>1 DEF HeldCounted, Holding, OwnerCounted
  <2>2. CASE u # t
    BY <1>1, <2>2 DEF HeldCounted, Holding, OwnerCounted
  <2> QED
    BY <2>1, <2>2
<1> QED
  BY <1>2, <1>3, <1>4, <1>5, <1>6, <1>7

LEMMA TakeSharedKeeps ==
  ASSUME LockInv, NEW t \in Task, owner = NoTask, TakeShared(t),
         waiting' = [waiting EXCEPT ![t] = "no"],
         signalled' \in SUBSET Task, closed' \in BOOLEAN
  PROVE  LockInv'
<1> USE NoTaskAssumption DEF LockInv, TypeOK, TakeShared
<1>1. TypeOK'
  OBVIOUS
<1>2. OwnerCounted'
  BY DEF OwnerCounted
<1>3. SharedCounted'
  <2>1. Readers' = Readers \cup {t}
    BY DEF Readers
  <2>2. t \in Readers <=> readCount[t] # 0
    BY DEF Readers
  <2> QED
    BY <2>1, <2>2, ReadersFinite, FS_AddElement DEF SharedCounted
<1>4. Exclusion'
  BY DEF Exclusion
<1>5. WaitersLack'
  BY DEF WaitersLack, Running
<1>6. HeldCounted'
  BY DEF HeldCounted, Holding
<1> QED
  BY <1>1, <1>2, <1>3, <1>4, <1>5, <1>6

LEMMA EnqueueKeeps ==
  ASSUME LockInv, NEW t \in Task, NEW kind \in {"excl", "shared"},
         owner # t, kind = "shared" => readCount[t] = 0,
         Enqueue(t, kind), closed' \in BOOLEAN
  PROVE  LockInv'
<1> USE DEF LockInv, TypeOK, Enqueue, lockVars
<1>1. TypeOK' /\ OwnerCounted' /\ SharedCounted' /\ Exclusion'
  BY DEF OwnerCounted, SharedCounted, Exclusion, Readers
<1>2. WaitersLack'
  BY DEF WaitersLack, Running
<1>3. HeldCounted'
  BY DEF HeldCounted, Holding
<1> QED
  BY <1>1, <1>2, <1>3

LEMMA UnlockKeeps ==
  ASSUME LockInv, NEW t \in Task, UnlockSem(t)
  PROVE  LockInv'
<1> USE NoTaskAssumption DEF LockInv, TypeOK
<1>1. CASE UnlockExcl(t)
  <2> USE <1>1 DEF UnlockSem, UnlockExcl, NotifyWaiters
  <2>1. exclCount > 0
    BY DEF OwnerCounted
  <2>2. held[t] > 0
    BY <2>1 DEF HeldCounted, Holding
  <2>3. TypeOK'
    BY <2>1, <2>2
  <2>4. OwnerCounted' /\ SharedCounted' /\ Exclusion'
    BY <2>1 DEF OwnerCounted, SharedCounted, Exclusion, Readers
  <2>5. WaitersLack'
    BY DEF WaitersLack, Running
  <2>6. HeldCounted'
    BY <2>1 DEF HeldCounted, Holding
  <2> QED
    BY <2>3, <2>4, <2>5, <2>6
<1>2. CASE UnlockShared(t)
  <2> USE <1>2 DEF UnlockSem, UnlockShared, UnlockRefused, NotifyWaiters
  <2>1. readCount[t] > 0
    OBVIOUS
  <2>2. held[t] > 0
    BY <2>1 DEF HeldCounted, Holding
  <2>3. Readers' = IF readCount[t] = 1 THEN Readers \ {t} ELSE Readers
    BY <2>1 DEF Readers
  <2>4. t \in Readers
    BY <2>1 DEF Readers
  <2>5. SharedCounted' /\ sharedCount' \in Nat
    <3>1. Cardinality(Readers \ {t}) = Cardinality(Readers) - 1
      BY <2>4, ReadersFinite, FS_RemoveElement
    <3>2. Cardinality(Readers \ {t}) \in Nat
      BY ReadersFinite, FS_RemoveElement, FS_CardinalityType
    <3>3. CASE readCount[t] = 1
      BY <2>3, <3>1, <3>2, <3>3 DEF SharedCounted
    <3>4. CASE readCount[t] # 1
      BY <2>3, <3>4 DEF SharedCounted
    <3> QED
      BY <3>3, <3>4
  <2>6. TypeOK'
    BY <2>1, <2>2, <2>5
  <2>7. OwnerCounted' /\ Exclusion'
    BY DEF OwnerCounted, Exclusion
  <2>8. WaitersLack'
    BY DEF WaitersLack, Running
  <2>9. HeldCounted'
    BY <2>1 DEF HeldCounted, Holding
  <2> QED
    BY <2>5, <2>6, <2>7, <2>8, <2>9
<1> QED
  BY <1>1, <1>2 DEF UnlockSem

-----------------------------------------------------------------------------
LEMMA LockSemExclKeeps ==
  ASSUME LockInv, NEW t \in Task, LockSemExcl(t)
  PROVE  LockInv'
<1>1. CASE ExclGrantable(t) /\ TakeExcl(t) /\ UNCHANGED waitVars
  BY <1>1, TakeExclKeeps
     DEF LockSemExcl, waitVars, Running, LockInv, TypeOK
<1>2. CASE ~ExclGrantable(t) /\ Enqueue(t, "excl")
  <2>1. owner # t
    BY <1>2 DEF ExclGrantable
  <2> QED
    BY <1>2, <2>1, EnqueueKeeps DEF LockSemExcl, LockInv, TypeOK
<1> QED
  BY <1>1, <1>2 DEF LockSemExcl

LEMMA LockSemSharedKeeps ==
  ASSUME LockInv, NEW t \in Task, NEW allocated \in BOOLEAN,
         LockSemShared(t, allocated)
  PROVE  LockInv'
<1>1. CASE LockSemExcl(t)
  BY <1>1, LockSemExclKeeps
<1>2. CASE Running(t) /\ owner = t /\ TakeExcl(t) /\ UNCHANGED <<waitVars, closed>>
  <2>1. ExclGrantable(t)
    BY <1>2 DEF ExclGrantable
  <2> QED
    BY <1>2, <2>1, TakeExclKeeps DEF waitVars, Running, LockInv, TypeOK
<1>3. CASE /\ Running(t) /\ owner # t /\ readCount[t] > 0
           /\ TakeShared(t) /\ UNCHANGED <<waitVars, closed>>
  <2>1. owner = NoTask
    BY <1>3 DEF LockInv, Exclusion, Readers
  <2> QED
    BY <1>3, <2>1, TakeSharedKeeps DEF waitVars, Running, LockInv, TypeOK
<1>4. CASE /\ Running(t) /\ SharedGrantable /\ TakeShared(t)
           /\ UNCHANGED waitVars /\ UNCHANGED closed
  BY <1>4, TakeSharedKeeps
     DEF SharedGrantable, waitVars, Running, LockInv, TypeOK
<1>5. CASE /\ owner # t /\ readCount[t] = 0
           /\ Enqueue(t, "shared") /\ UNCHANGED closed
  BY <1>5, EnqueueKeeps DEF LockInv, TypeOK
<1> QED
  BY <1>1, <1>2, <1>3, <1>4, <1>5 DEF LockSemShared

LEMMA WakeKeeps ==
  ASSUME LockInv, NEW t \in Task, Wake(t)
  PROVE  LockInv'
<1> USE DEF Wake, WakeExcl, WakeShared
<1>1. owner # t /\ (waiting[t] = "shared" => readCount[t] = 0)
  BY DEF LockInv, WaitersLack, Running
<1>2. CASE ExclGrantable(t) /\ TakeExcl(t) /\ Dequeue(t)
  BY <1>2, TakeExclKeeps DEF Dequeue, LockInv, TypeOK
<1>3. CASE SharedGrantable /\ TakeShared(t) /\ Dequeue(t)
  BY <1>3, TakeSharedKeeps DEF SharedGrantable, Dequeue, LockInv, TypeOK
<1>4. CASE Enqueue(t, "excl")
  BY <1>1, <1>4, EnqueueKeeps DEF LockInv, TypeOK
<1>5. CASE waiting[t] = "shared" /\ Enqueue(t, "shared")
  BY <1>1, <1>5, EnqueueKeeps DEF LockInv, TypeOK
<1> QED
  BY <1>2, <1>3, <1>4, <1>5

LEMMA LockInvStep ==
  ASSUME LockInv, [Next]_vars
  PROVE  LockInv'
<1>1. ASSUME NEW t \in Task, Lock(t) PROVE LockInv'
  BY <1>1, LockSemExclKeeps, LockSemSharedKeeps DEF Lock
<1>2. ASSUME NEW t \in Task, Unlock(t) PROVE LockInv'
  BY <1>2, UnlockKeeps DEF Unlock
<1>3. ASSUME NEW t \in Task, Wake(t) PROVE LockInv'
  BY <1>3, WakeKeeps
<1>4. CASE Close
  BY <1>4 DEF Close, lockVars, waitVars, LockInv, TypeOK, OwnerCounted,
     SharedCounted, Exclusion, Readers, WaitersLack, Running, HeldCounted, Holding
<1>5. CASE UNCHANGED vars
  BY <1>5 DEF vars, LockInv, TypeOK, OwnerCounted,
     SharedCounted, Exclusion, Readers, WaitersLack, Running, HeldCounted, Holding
<1> QED
  BY <1>1, <1>2, <1>3, <1>4, <1>5 DEF Next

LEMMA LockInvInit == Init => LockInv
<1> SUFFICES ASSUME Init PROVE LockInv
  OBVIOUS
<1> USE NoTaskAssumption DEF Init
<1>1. Readers = {}
  BY DEF Readers
<1>2. SharedCounted /\ Exclusion
  BY <1>1, FS_EmptySet DEF SharedCounted, Exclusion
<1>3. TypeOK
  BY DEF TypeOK
<1>4. OwnerCounted /\ WaitersLack
  BY DEF OwnerCounted, WaitersLack, Running
<1>5. HeldCounted
  BY DEF HeldCounted, Holding
<1> QED
  BY <1>2, <1>3, <1>4, <1>5 DEF LockInv

\* The inductive invariant holds in every state of the lock.
THEOREM LockInvariant == Spec => []LockInv
  BY LockInvInit, LockInvStep, PTL DEF Spec

\* Type correctness of the lock (struct PsdLockSem and the queued tasks).
THEOREM TypeCorrect == Spec => []TypeOK
<1>1. LockInv => TypeOK
  BY DEF LockInv
<1> QED
  BY <1>1, LockInvariant, PTL

\* pLockSemExcl and pLockSemShared never let a reader in beside a writer.
THEOREM LockExcludes == Spec => []Exclusion
<1>1. LockInv => Exclusion
  BY DEF LockInv
<1> QED
  BY <1>1, LockInvariant, PTL

\* pUnlockSem honours every unlock of a lock call that was answered.
THEOREM UnlocksHonoured == Spec => []UnlockHonoured
<1>1. LockInv => UnlockHonoured
  <2> SUFFICES ASSUME LockInv, NEW t \in Task, held[t] > 0, UnlockRefused(t)
               PROVE  FALSE
    BY DEF UnlockHonoured
  <2>1. Holding(t) > 0
    BY DEF LockInv, HeldCounted
  <2>2. CASE owner = NoTask
    BY <2>1, <2>2, NoTaskAssumption
       DEF UnlockRefused, Holding, LockInv, TypeOK
  <2>3. CASE owner # NoTask
    BY <2>1, <2>3 DEF UnlockRefused, Holding, LockInv, TypeOK, Exclusion, Readers
  <2> QED
    BY <2>2, <2>3
<1> QED
  BY <1>1, LockInvariant, PTL

-----------------------------------------------------------------------------
\* What a task still waits for after a step, or could have had before it.
Obtainable(t) == \/ waiting[t] = "excl"   /\ ExclGrantable(t)
                 \/ waiting[t] = "shared" /\ SharedGrantable

\* A grant to one task makes nothing obtainable for another.
LEMMA GrantFreesNobody ==
  ASSUME LockInv, NEW t \in Task, NEW u \in Task, u # t,
         \/ TakeExcl(t)
         \/ owner = NoTask /\ TakeShared(t)
  PROVE  /\ ExclGrantable(u)' => ExclGrantable(u)
         /\ SharedGrantable' => SharedGrantable
<1> USE NoTaskAssumption DEF LockInv, TypeOK, ExclGrantable, SharedGrantable
<1>1. CASE TakeExcl(t)
  BY <1>1 DEF TakeExcl
<1>2. CASE owner = NoTask /\ TakeShared(t)
  <2>1. exclCount = 0
    BY <1>2 DEF OwnerCounted
  <2>2. CASE readCount[t] = 0
    BY <1>2, <2>1, <2>2 DEF TakeShared
  <2>3. CASE readCount[t] > 0
    BY <1>2, <2>1, <2>3 DEF TakeShared
  <2> QED
    BY <1>2, <2>2, <2>3
<1> QED
  BY <1>1, <1>2

LEMMA GrantLosesNoWakeup ==
  ASSUME LockInv, NoLostWakeup, NEW t \in Task,
         \/ TakeExcl(t)
         \/ owner = NoTask /\ TakeShared(t),
         waiting' = [waiting EXCEPT ![t] = "no"],
         signalled \ {t} \subseteq signalled'
  PROVE  NoLostWakeup'
<1> SUFFICES ASSUME NEW u \in Task, Obtainable(u)' PROVE u \in signalled'
  BY DEF NoLostWakeup, Obtainable
<1>1. u # t
  BY DEF Obtainable, LockInv, TypeOK
<1>2. Obtainable(u)
  BY <1>1, GrantFreesNobody DEF Obtainable, LockInv, TypeOK
<1> QED
  BY <1>1, <1>2 DEF NoLostWakeup, Obtainable

LEMMA QueueLosesNoWakeup ==
  ASSUME LockInv, NoLostWakeup, NEW t \in Task, NEW kind \in {"excl", "shared"},
         kind = "excl" => ~ExclGrantable(t),
         kind = "shared" => ~SharedGrantable,
         Enqueue(t, kind)
  PROVE  NoLostWakeup'
<1> SUFFICES ASSUME NEW u \in Task, Obtainable(u)' PROVE u \in signalled'
  BY DEF NoLostWakeup, Obtainable
<1>1. /\ ExclGrantable(u)' <=> ExclGrantable(u)
      /\ SharedGrantable' <=> SharedGrantable
  BY DEF Enqueue, lockVars, ExclGrantable, SharedGrantable
<1>2. u # t
  BY <1>1 DEF Obtainable, Enqueue, LockInv, TypeOK
<1>3. Obtainable(u)
  BY <1>1, <1>2 DEF Obtainable, Enqueue, LockInv, TypeOK
<1> QED
  BY <1>2, <1>3 DEF NoLostWakeup, Obtainable, Enqueue

LEMMA LockSemExclLosesNoWakeup ==
  ASSUME LockInv, NoLostWakeup, NEW t \in Task, LockSemExcl(t)
  PROVE  NoLostWakeup'
<1>1. CASE TakeExcl(t) /\ UNCHANGED waitVars
  BY <1>1, GrantLosesNoWakeup DEF LockSemExcl, waitVars, Running, LockInv, TypeOK
<1>2. CASE ~ExclGrantable(t) /\ Enqueue(t, "excl")
  BY <1>2, QueueLosesNoWakeup
<1> QED
  BY <1>1, <1>2 DEF LockSemExcl

LEMMA LockSemSharedLosesNoWakeup ==
  ASSUME LockInv, NoLostWakeup, NEW t \in Task, NEW allocated \in BOOLEAN,
         LockSemShared(t, allocated)
  PROVE  NoLostWakeup'
<1>1. CASE LockSemExcl(t)
  BY <1>1, LockSemExclLosesNoWakeup
<1>2. CASE Running(t) /\ TakeExcl(t) /\ UNCHANGED waitVars
  BY <1>2, GrantLosesNoWakeup DEF waitVars, Running, LockInv, TypeOK
<1>3. CASE /\ Running(t) /\ readCount[t] > 0 /\ owner # t
           /\ TakeShared(t) /\ UNCHANGED waitVars
  <2>1. owner = NoTask
    BY <1>3 DEF LockInv, Exclusion, Readers
  <2> QED
    BY <1>3, <2>1, GrantLosesNoWakeup DEF waitVars, Running, LockInv, TypeOK
<1>4. CASE Running(t) /\ SharedGrantable /\ TakeShared(t) /\ UNCHANGED waitVars
  BY <1>4, GrantLosesNoWakeup DEF SharedGrantable, waitVars, Running, LockInv, TypeOK
<1>5. CASE ~SharedGrantable /\ Enqueue(t, "shared")
  BY <1>5, QueueLosesNoWakeup
<1> QED
  BY <1>1, <1>2, <1>3, <1>4, <1>5 DEF LockSemShared

LEMMA WakeLosesNoWakeup ==
  ASSUME LockInv, NoLostWakeup, NEW t \in Task, Wake(t)
  PROVE  NoLostWakeup'
<1> USE DEF Wake, WakeExcl, WakeShared
<1>1. CASE TakeExcl(t) /\ Dequeue(t)
  BY <1>1, GrantLosesNoWakeup DEF Dequeue
<1>2. CASE SharedGrantable /\ TakeShared(t) /\ Dequeue(t)
  BY <1>2, GrantLosesNoWakeup DEF SharedGrantable, Dequeue
<1>3. CASE ~ExclGrantable(t) /\ Enqueue(t, "excl")
  BY <1>3, QueueLosesNoWakeup
<1>4. CASE ~SharedGrantable /\ Enqueue(t, "shared")
  BY <1>4, QueueLosesNoWakeup
<1> QED
  BY <1>1, <1>2, <1>3, <1>4

LEMMA UnlockLosesNoWakeup ==
  ASSUME LockInv, NoLostWakeup, NEW t \in Task, UnlockSem(t)
  PROVE  NoLostWakeup'
<1> SUFFICES ASSUME NEW u \in Task, Obtainable(u)' PROVE u \in signalled'
  BY DEF NoLostWakeup, Obtainable
<1>1. waiting'[u] = waiting[u] /\ ~Running(u) /\ owner # u
  BY DEF UnlockSem, Obtainable, Running, LockInv, WaitersLack
<1>2. CASE NotifyWaiters
  BY <1>1, <1>2 DEF NotifyWaiters
<1>3. CASE ~NotifyWaiters
  <2>1. Obtainable(u)
    <3> USE <1>1, <1>3, NoTaskAssumption
        DEF Obtainable, ExclGrantable, SharedGrantable, LockInv, TypeOK
    <3>1. CASE UnlockExcl(t)
      BY <3>1 DEF UnlockExcl, OwnerCounted
    <3>2. CASE UnlockShared(t)
      BY <3>2 DEF UnlockShared, UnlockSem, UnlockRefused
    <3> QED
      BY <3>1, <3>2 DEF UnlockSem
  <2>2. signalled' = signalled
    BY <1>3 DEF UnlockSem, UnlockExcl, UnlockShared
  <2> QED
    BY <2>1, <2>2 DEF NoLostWakeup, Obtainable
<1> QED
  BY <1>2, <1>3

\* A queued task that could have the lock is signalled: pUnlockSem tells every
\* waiter on every full release, and no grant opens the lock for another.
THEOREM NoWakeupLost == Spec => []NoLostWakeup
<1>1. Init => NoLostWakeup
  BY DEF Init, NoLostWakeup
<1>2. ASSUME LockInv, NoLostWakeup, [Next]_vars PROVE NoLostWakeup'
  <2>1. ASSUME NEW t \in Task, Lock(t) PROVE NoLostWakeup'
    BY <1>2, <2>1, LockSemExclLosesNoWakeup, LockSemSharedLosesNoWakeup DEF Lock
  <2>2. ASSUME NEW t \in Task, Unlock(t) PROVE NoLostWakeup'
    BY <1>2, <2>2, UnlockLosesNoWakeup DEF Unlock
  <2>3. ASSUME NEW t \in Task, Wake(t) PROVE NoLostWakeup'
    BY <1>2, <2>3, WakeLosesNoWakeup
  <2>4. CASE Close \/ UNCHANGED vars
    BY <1>2, <2>4 DEF Close, vars, lockVars, waitVars, NoLostWakeup,
       ExclGrantable, SharedGrantable
  <2> QED
    BY <1>2, <2>1, <2>2, <2>3, <2>4 DEF Next
<1> QED
  BY <1>1, <1>2, LockInvariant, PTL DEF Spec

-----------------------------------------------------------------------------
\* The lock as its callers see it: every step takes or gives back one hold as
\* RWLock allows, or changes nothing they can see.
Writes == [t \in Task |-> IF owner = t THEN exclCount ELSE 0]

LEMMA TakeExclIsAcquireWrite ==
  ASSUME LockInv, NEW t \in Task, ExclGrantable(t), TakeExcl(t)
  PROVE  Abstract!AcquireWrite(t)
<1>1. /\ owner \in {t, NoTask}
      /\ \A u \in Task \ {t} : readCount[u] = 0
  BY ExclGrantExcludes
<1>2. Abstract!NoOtherHolder(t)
  BY <1>1, NoTaskAssumption DEF Abstract!NoOtherHolder
<1>3. owner = NoTask => exclCount = 0
  BY DEF LockInv, OwnerCounted
<1>4. Writes' = [Writes EXCEPT ![t] = @ + 1]
  BY <1>1, <1>3, NoTaskAssumption DEF Writes, TakeExcl, LockInv, TypeOK
<1> QED
  BY <1>2, <1>4 DEF Abstract!AcquireWrite, Writes, TakeExcl

LEMMA TakeSharedIsAcquireRead ==
  ASSUME LockInv, NEW t \in Task, owner = NoTask, TakeShared(t)
  PROVE  Abstract!AcquireRead(t)
<1>1. Abstract!NoOtherWriter(t) /\ Writes[t] = 0
  BY NoTaskAssumption DEF Abstract!NoOtherWriter, Writes
<1> QED
  BY <1>1 DEF Abstract!AcquireRead, Writes, TakeShared

LEMMA UnlockIsRelease ==
  ASSUME LockInv, NEW t \in Task, UnlockSem(t)
  PROVE  Abstract!Release(t)
<1> USE NoTaskAssumption DEF LockInv, TypeOK, UnlockSem
<1>1. CASE UnlockExcl(t)
  <2>1. Writes[t] > 0
    BY <1>1 DEF UnlockExcl, Writes, OwnerCounted
  <2>2. Writes' = [Writes EXCEPT ![t] = @ - 1]
    <3>1. \A u \in Task : Writes'[u] = IF u = t THEN exclCount - 1 ELSE 0
      BY <1>1 DEF UnlockExcl, Writes
    <3>2. \A u \in Task : Writes[u] = IF u = t THEN exclCount ELSE 0
      BY <1>1 DEF UnlockExcl, Writes
    <3> QED
      BY <3>1, <3>2 DEF Writes
  <2> QED
    BY <1>1, <2>1, <2>2 DEF Abstract!Release, Writes, UnlockExcl
<1>2. CASE UnlockShared(t)
  BY <1>2 DEF Abstract!Release, UnlockShared, UnlockRefused
<1> QED
  BY <1>1, <1>2

LEMMA AbstractStep ==
  ASSUME LockInv, [Next]_vars
  PROVE  [Abstract!RWNext]_(Abstract!rwVars)
<1> USE DEF Abstract!RWNext
<1>1. ASSUME NEW t \in Task, LockSemExcl(t)
      PROVE  [Abstract!RWNext]_(Abstract!rwVars)
  <2>1. CASE ExclGrantable(t) /\ TakeExcl(t)
    BY <2>1, TakeExclIsAcquireWrite
  <2>2. CASE Enqueue(t, "excl")
    BY <2>2 DEF Enqueue, lockVars, Abstract!rwVars
  <2> QED
    BY <1>1, <2>1, <2>2 DEF LockSemExcl
<1>2. ASSUME NEW t \in Task, NEW allocated \in BOOLEAN, LockSemShared(t, allocated)
      PROVE  [Abstract!RWNext]_(Abstract!rwVars)
  <2>1. CASE owner = t /\ TakeExcl(t)
    BY <2>1, TakeExclIsAcquireWrite DEF ExclGrantable
  <2>2. CASE owner # t /\ readCount[t] > 0 /\ TakeShared(t)
    <3>1. owner = NoTask
      BY <2>2 DEF LockInv, Exclusion, Readers
    <3> QED
      BY <2>2, <3>1, TakeSharedIsAcquireRead
  <2>3. CASE SharedGrantable /\ TakeShared(t)
    BY <2>3, TakeSharedIsAcquireRead DEF SharedGrantable
  <2>4. CASE Enqueue(t, "shared")
    BY <2>4 DEF Enqueue, lockVars, Abstract!rwVars
  <2> QED
    BY <1>1, <1>2, <2>1, <2>2, <2>3, <2>4 DEF LockSemShared
<1>3. ASSUME NEW t \in Task, Wake(t)
      PROVE  [Abstract!RWNext]_(Abstract!rwVars)
  <2> USE DEF Wake, WakeExcl, WakeShared
  <2>1. CASE ExclGrantable(t) /\ TakeExcl(t)
    BY <2>1, TakeExclIsAcquireWrite
  <2>2. CASE SharedGrantable /\ TakeShared(t)
    BY <2>2, TakeSharedIsAcquireRead DEF SharedGrantable
  <2>3. CASE Enqueue(t, "excl") \/ Enqueue(t, "shared")
    BY <2>3 DEF Enqueue, lockVars, Abstract!rwVars
  <2> QED
    BY <1>3, <2>1, <2>2, <2>3
<1>4. ASSUME NEW t \in Task, Unlock(t)
      PROVE  [Abstract!RWNext]_(Abstract!rwVars)
  BY <1>4, UnlockIsRelease DEF Unlock
<1>5. CASE Close \/ UNCHANGED vars
  BY <1>5 DEF Close, vars, lockVars, Abstract!rwVars
<1> QED
  BY <1>1, <1>2, <1>3, <1>4, <1>5 DEF Next, Lock

\* The two counters, the records and the queue implement RWLock.
THEOREM LockImplementsRWLock == Spec => ImplementsRWLock
<1>1. Init => Abstract!RWInit
  BY NoTaskAssumption DEF Init, Abstract!RWInit
<1> QED
  BY <1>1, AbstractStep, LockInvariant, PTL
     DEF Spec, ImplementsRWLock, Abstract!RWSpec
=============================================================================
