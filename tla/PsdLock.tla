------------------------------- MODULE PsdLock -------------------------------
(***************************************************************************)
(* The custom reader/writer lock of neptune.library (struct PsdLockSem):   *)
(* pLockSemExcl, pLockSemShared and pUnlockSem, one lock, any set of       *)
(* tasks.  The code runs between Forbid and Permit, which Wait breaks, so  *)
(* an action is one stretch from Forbid (or the return of Wait) to Permit  *)
(* (or the next Wait).                                                     *)
(*                                                                         *)
(* The read locks are a list of records of distinct tasks, here the count  *)
(* of each task's record, 0 for none.  The wait queue is the set of tasks  *)
(* that wait: a release signals every one of them, so its order is only a  *)
(* hint to the scheduler.                                                  *)
(***************************************************************************)
EXTENDS Naturals, FiniteSets

CONSTANTS Task,          \* the tasks that use the lock
          NoTask,        \* NULL
          MaxHeld        \* bound: nested lock calls of one task

ASSUME TaskAssumption    == IsFiniteSet(Task)
ASSUME NoTaskAssumption  == NoTask \notin Task
ASSUME MaxHeldAssumption == MaxHeld \in Nat \ {0}

VARIABLES
  owner,        \* pls_Owner
  exclCount,    \* pls_ExclLockCount
  readCount,    \* prl_Count of each task's record in pls_ReadLocks
  sharedCount,  \* pls_SharedLockCount
  waiting,      \* how each task is queued: "no", or the kind of lock it wants
  signalled,    \* tasks with SIGF_SINGLE pending
  held,         \* lock calls each task has had answered and not yet undone
  closed        \* no task starts another lock call (to state progress)

lockVars == <<owner, exclCount, readCount, sharedCount>>
waitVars == <<waiting, signalled>>
vars     == <<owner, exclCount, readCount, sharedCount, waiting, signalled,
              held, closed>>

Readers  == {t \in Task : readCount[t] > 0}
Running(t) == waiting[t] = "no"

Init == /\ owner = NoTask
        /\ exclCount = 0
        /\ readCount = [t \in Task |-> 0]
        /\ sharedCount = 0
        /\ waiting = [t \in Task |-> "no"]
        /\ signalled = {}
        /\ held = [t \in Task |-> 0]
        /\ closed = FALSE

-----------------------------------------------------------------------------
\* Mutant: any single reader is taken for the caller's own record.
ExclGrantableAnyReader(t) == \/ owner = t
                             \/ exclCount = 0 /\ sharedCount \in {0, 1}

\* The loop of pLockSemExcl leaves when the lock is the caller's already, when
\* nobody holds it, or when the caller is its only reader.
ExclGrantable(t) == \/ owner = t
                    \/ /\ exclCount = 0
                       /\ \/ sharedCount = 0
                          \/ sharedCount = 1 /\ readCount[t] > 0

\* The loop of pLockSemShared looks at the owner alone.
SharedGrantable == owner = NoTask

\* Mutant: a promoted reader gives its read record away.
TakeExclForRecord(t) ==
  /\ owner' = t
  /\ exclCount' = exclCount + 1
  /\ held' = [held EXCEPT ![t] = @ + 1]
  /\ readCount' = [readCount EXCEPT ![t] = 0]
  /\ sharedCount' = sharedCount - (IF readCount[t] > 0 THEN 1 ELSE 0)

TakeExcl(t) == /\ owner' = t
               /\ exclCount' = exclCount + 1
               /\ held' = [held EXCEPT ![t] = @ + 1]
               /\ UNCHANGED <<readCount, sharedCount>>

TakeShared(t) == /\ readCount' = [readCount EXCEPT ![t] = @ + 1]
                 /\ sharedCount' = IF readCount[t] = 0 THEN sharedCount + 1
                                                       ELSE sharedCount
                 /\ held' = [held EXCEPT ![t] = @ + 1]
                 /\ UNCHANGED <<owner, exclCount>>

\* SIGF_SINGLE is cleared after queueing, in the same stretch as the Wait.
Enqueue(t, kind) == /\ waiting' = [waiting EXCEPT ![t] = kind]
                    /\ signalled' = signalled \ {t}
                    /\ UNCHANGED <<lockVars, held>>

Dequeue(t) == /\ waiting' = [waiting EXCEPT ![t] = "no"]
              /\ signalled' = signalled \ {t}

-----------------------------------------------------------------------------
LockSemExcl(t) ==
  /\ Running(t)
  /\ \/ ExclGrantable(t) /\ TakeExcl(t) /\ UNCHANGED waitVars
     \/ ~ExclGrantable(t) /\ Enqueue(t, "excl")
  /\ UNCHANGED closed

\* A record that cannot be allocated turns the request into an exclusive one.
LockSemShared(t, allocated) ==
  \/ /\ Running(t)
     /\ owner = t
     /\ TakeExcl(t)
     /\ UNCHANGED <<waitVars, closed>>
  \/ /\ Running(t)
     /\ owner # t /\ readCount[t] > 0
     /\ TakeShared(t)
     /\ UNCHANGED <<waitVars, closed>>
  \/ /\ Running(t)
     /\ owner # t /\ readCount[t] = 0 /\ allocated
     /\ \/ SharedGrantable /\ TakeShared(t) /\ UNCHANGED waitVars
        \/ ~SharedGrantable /\ Enqueue(t, "shared")
     /\ UNCHANGED closed
  \/ /\ owner # t /\ readCount[t] = 0 /\ ~allocated
     /\ LockSemExcl(t)

\* Wait returned: the task takes itself out of the queue and looks again.
WakeExcl(t) ==
  /\ waiting[t] = "excl" /\ t \in signalled
  /\ \/ ExclGrantable(t) /\ TakeExcl(t) /\ Dequeue(t)
     \/ ~ExclGrantable(t) /\ Enqueue(t, "excl")
  /\ UNCHANGED closed

WakeShared(t) ==
  /\ waiting[t] = "shared" /\ t \in signalled
  /\ \/ SharedGrantable /\ TakeShared(t) /\ Dequeue(t)
     \/ ~SharedGrantable /\ Enqueue(t, "shared")
  /\ UNCHANGED closed

\* Signal() to every record of the wait queue.
NotifyWaiters == signalled' = signalled \cup {t \in Task : ~Running(t)}

\* pUnlockSem turns a caller away that is not the owner, or has no record.
UnlockRefused(t) == IF owner # NoTask THEN owner # t
                                      ELSE readCount[t] = 0

\* Mutant: the first unlock of a nested exclusive lock clears the owner.
UnlockExclAtOnce(t) == /\ owner = t
                       /\ exclCount' = exclCount - 1
                       /\ owner' = NoTask /\ NotifyWaiters
                       /\ UNCHANGED <<readCount, sharedCount>>

UnlockExcl(t) ==
  /\ owner = t
  /\ exclCount' = exclCount - 1
  /\ IF exclCount = 1 THEN owner' = NoTask /\ NotifyWaiters
                      ELSE UNCHANGED <<owner, signalled>>
  /\ UNCHANGED <<readCount, sharedCount>>

\* Mutant: waiters are told only when the last record goes.
UnlockSharedLastTells(t) ==
  /\ owner = NoTask
  /\ readCount' = [readCount EXCEPT ![t] = @ - 1]
  /\ sharedCount' = sharedCount - (IF readCount[t] = 1 THEN 1 ELSE 0)
  /\ IF readCount[t] = 1 /\ sharedCount = 1 THEN NotifyWaiters
                                            ELSE UNCHANGED signalled
  /\ UNCHANGED <<owner, exclCount>>

\* Mutant: every unlock counts a reader out.
UnlockSharedCountsOut(t) ==
  /\ owner = NoTask
  /\ readCount' = [readCount EXCEPT ![t] = @ - 1]
  /\ sharedCount' = sharedCount - 1
  /\ IF readCount[t] = 1 THEN NotifyWaiters ELSE UNCHANGED signalled
  /\ UNCHANGED <<owner, exclCount>>

\* Waiters are told when the record goes, not only when the last one does.
UnlockShared(t) ==
  /\ owner = NoTask
  /\ readCount' = [readCount EXCEPT ![t] = @ - 1]
  /\ IF readCount[t] = 1 THEN sharedCount' = sharedCount - 1 /\ NotifyWaiters
                         ELSE UNCHANGED <<sharedCount, signalled>>
  /\ UNCHANGED <<owner, exclCount>>

UnlockSem(t) ==
  /\ Running(t)
  /\ ~UnlockRefused(t)
  /\ UnlockExcl(t) \/ UnlockShared(t)
  /\ held' = [held EXCEPT ![t] = @ - 1]
  /\ UNCHANGED <<waiting, closed>>

-----------------------------------------------------------------------------
\* A task takes locks as it likes and undoes only what it was given.
MayLock(t) == ~closed /\ held[t] < MaxHeld

Lock(t)   == \/ MayLock(t) /\ LockSemExcl(t)
             \/ MayLock(t) /\ \E allocated \in BOOLEAN : LockSemShared(t, allocated)
Unlock(t) == held[t] > 0 /\ UnlockSem(t)
Wake(t)   == WakeExcl(t) \/ WakeShared(t)

Close == /\ ~closed
         /\ closed' = TRUE
         /\ UNCHANGED <<lockVars, waitVars, held>>

Next == \/ \E t \in Task : Lock(t) \/ Unlock(t) \/ Wake(t)
        \/ Close

\* The scheduler runs a signalled task; once the callers stop asking, each
\* gives back what it holds.
Fairness == \A t \in Task : /\ WF_vars(Wake(t))
                            /\ WF_vars(closed /\ Unlock(t))

Spec == Init /\ [][Next]_vars /\ Fairness

-----------------------------------------------------------------------------
\* The shape of the state.
TypeOK == /\ owner \in Task \cup {NoTask}
          /\ exclCount \in Nat
          /\ readCount \in [Task -> Nat]
          /\ sharedCount \in Nat
          /\ waiting \in [Task -> {"no", "excl", "shared"}]
          /\ signalled \subseteq Task
          /\ held \in [Task -> Nat]
          /\ closed \in BOOLEAN

\* While a task owns the lock nobody else has a read record on it: pLockSemExcl
\* decides from two counters and the head of a list, pLockSemShared from the
\* owner field alone, and they have to agree.
Exclusion == owner # NoTask => Readers \subseteq {owner}

\* A task is never turned away when it undoes a lock call it was given: the
\* promoted reader, the nested calls and the fallback to an exclusive lock
\* included, pUnlockSem finds as many of them as the caller made.
Holding(t) == readCount[t] + (IF owner = t THEN exclCount ELSE 0)
UnlockHonoured == \A t \in Task : Running(t) /\ held[t] > 0 => ~UnlockRefused(t)

\* A queued task that could have the lock has its signal pending.  SIGF_SINGLE
\* is cleared on the way into every Wait and an unlock may fall just before.
NoLostWakeup ==
  \A t \in Task : \/ waiting[t] = "excl"   /\ ExclGrantable(t)
                  \/ waiting[t] = "shared" /\ SharedGrantable
                  => t \in signalled

\* Two readers that both ask for the exclusive lock wait for each other: the
\* code has no way out of that, callers have to avoid it.
UpgradeClash == \E t, u \in Task : /\ t # u
                                   /\ waiting[t] = "excl" /\ readCount[t] > 0
                                   /\ waiting[u] = "excl" /\ readCount[u] > 0

\* When the callers stop asking, every queued task gets its lock, except after
\* a clash of upgrades: the release loop of pUnlockSem forgets nobody.
WaitersServed == \A t \in Task :
  closed /\ ~Running(t) ~> Running(t) \/ UpgradeClash

\* The lock keeps the promise of RWLock.
Abstract == INSTANCE RWLock
              WITH rd <- readCount,
                   wr <- [t \in Task |-> IF owner = t THEN exclCount ELSE 0]
ImplementsRWLock == Abstract!RWSpec
=============================================================================
