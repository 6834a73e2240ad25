----------------------------- MODULE BorrowLocks -----------------------------
(***************************************************************************)
(* psdBorrowLocksWait over one PsdLock: a task lends what it holds to a    *)
(* task it is about to wait for, and takes it back when its wait ends.     *)
(* What is moved goes to the "borrows" list, what is released to a target  *)
(* already queued for the lock, or still in use when the wait ends, to the *)
(* "reclaims" list, and is locked again.                                   *)
(*                                                                         *)
(* The function holds Forbid except while it waits: a task that reclaims   *)
(* runs alone (InForbid).  A lender lends to a task that does not lend     *)
(* itself: loans are not passed on (bound).                                *)
(***************************************************************************)
EXTENDS PsdLock

VARIABLES
  target,       \* the task each lender lends to, NoTask if it lends nothing
  phase,        \* "idle", "lent" during Wait(signals), "reclaim" after it
  borrows,      \* counts moved to the target, to be taken back
  reclaims,     \* counts released, to be locked again
  promoted,     \* queued shared requests whose prl_IsExcl was set
  onLoan,       \* what each lender held when it called
  overtaken     \* a promoted request was granted beside a reader

loanVars == <<target, phase, borrows, reclaims, onLoan>>
bVars    == <<vars, loanVars, promoted, overtaken>>

Nothing   == [excl |-> 0, read |-> 0]
ExclOf(t) == IF owner = t THEN exclCount ELSE 0

BInit == /\ Init
         /\ target = [t \in Task |-> NoTask]
         /\ phase = [t \in Task |-> "idle"]
         /\ borrows = [t \in Task |-> Nothing]
         /\ reclaims = [t \in Task |-> Nothing]
         /\ promoted = {}
         /\ onLoan = [t \in Task |-> Nothing]
         /\ overtaken = FALSE

InForbid(t) == phase[t] = "reclaim" /\ Running(t)
MayRun(t)   == \A u \in Task \ {t} : ~InForbid(u)

LendsTo(u) == {t \in Task : target[t] = u /\ phase[t] = "lent"}

-----------------------------------------------------------------------------
\* The exclusive hold: a target queued for the lock gets it by its own retry,
\* any other becomes the owner.
LendExcl(t, u) ==
  \/ owner # t /\ UNCHANGED <<owner, exclCount>>
  \/ owner = t /\ ~Running(u) /\ owner' = NoTask /\ exclCount' = 0
  \/ owner = t /\ Running(u)  /\ owner' = u /\ UNCHANGED exclCount

\* Mutant: the count of a merged record replaces the target's own.
LendReadReplaces(t, u) ==
  \/ readCount[t] = 0 /\ UNCHANGED <<readCount, sharedCount>>
  \/ /\ readCount[t] > 0 /\ ~Running(u)
     /\ readCount' = [readCount EXCEPT ![t] = 0]
     /\ sharedCount' = sharedCount - 1
  \/ /\ readCount[t] > 0 /\ Running(u)
     /\ readCount' = [readCount EXCEPT ![t] = 0, ![u] = readCount[t]]
     /\ sharedCount' = IF readCount[u] > 0 THEN sharedCount - 1 ELSE sharedCount

\* The read record: it goes when the target is queued, is merged into the
\* target's own record if there is one, and changes its task otherwise.
LendRead(t, u) ==
  \/ readCount[t] = 0 /\ UNCHANGED <<readCount, sharedCount>>
  \/ /\ readCount[t] > 0 /\ ~Running(u)
     /\ readCount' = [readCount EXCEPT ![t] = 0]
     /\ sharedCount' = sharedCount - 1
  \/ /\ readCount[t] > 0 /\ Running(u)
     /\ readCount' = [readCount EXCEPT ![t] = 0, ![u] = @ + readCount[t]]
     /\ sharedCount' = IF readCount[u] > 0 THEN sharedCount - 1 ELSE sharedCount

\* Mutant: the queued target is not told.
TellTargetNever(u) == UNCHANGED signalled

TellTarget(u) == signalled' = IF Running(u) THEN signalled ELSE signalled \cup {u}

\* The target's request is made exclusive so that it gets no less than the
\* lender had.
Promotes(t, u) == owner = t /\ waiting[u] = "shared"

BorrowLocksWait(t, u) ==
  /\ Running(t) /\ phase[t] = "idle" /\ Holding(t) > 0
  /\ u # t /\ phase[u] = "idle" /\ LendsTo(t) = {}
  /\ LET all == [excl |-> ExclOf(t), read |-> readCount[t]]
     IN /\ onLoan' = [onLoan EXCEPT ![t] = all]
        /\ held' = [held EXCEPT ![t] = 0]
        /\ IF Running(u)
             THEN borrows' = [borrows EXCEPT ![t] = all] /\ UNCHANGED reclaims
             ELSE reclaims' = [reclaims EXCEPT ![t] = all] /\ UNCHANGED borrows
  /\ LendExcl(t, u) /\ LendRead(t, u) /\ TellTarget(u)
  /\ promoted' = IF Promotes(t, u) THEN promoted \cup {u} ELSE promoted
  /\ target' = [target EXCEPT ![t] = u]
  /\ phase' = [phase EXCEPT ![t] = "lent"]
  /\ UNCHANGED <<waiting, closed, overtaken>>

\* No memory for the notes: nothing is lent, but a queued request of the target
\* has been promoted by then.
BorrowLocksNoMemory(t, u) ==
  /\ Running(t) /\ phase[t] = "idle" /\ Holding(t) > 0
  /\ u # t /\ phase[u] = "idle" /\ LendsTo(t) = {}
  /\ onLoan' = [onLoan EXCEPT ![t] = [excl |-> ExclOf(t), read |-> readCount[t]]]
  /\ promoted' = IF Promotes(t, u) THEN promoted \cup {u} ELSE promoted
  /\ target' = [target EXCEPT ![t] = u]
  /\ phase' = [phase EXCEPT ![t] = "lent"]
  /\ UNCHANGED <<vars, borrows, reclaims, overtaken>>

-----------------------------------------------------------------------------
\* The wait is over.  An untouched hold changes hands again; one the target
\* has added to is reduced to the target's share and queued for reclaiming.
TakesBackExcl(t) == borrows[t].excl > 0 /\ borrows[t].excl = exclCount

TakeBackExcl(t) ==
  \/ TakesBackExcl(t) /\ owner' = t /\ UNCHANGED exclCount
  \/ /\ ~TakesBackExcl(t)
     /\ exclCount' = exclCount - borrows[t].excl
     /\ UNCHANGED owner

\* Mutant: the read record is taken back although the target became the writer.
TakesBackReadAlways(t) == /\ borrows[t].read > 0
                          /\ borrows[t].read = readCount[target[t]]

\* Not while the target owns the lock; the exclusive entry comes first in the
\* list, so this is the owner after TakeBackExcl.
TakesBackRead(t) == /\ borrows[t].read > 0
                    /\ borrows[t].read = readCount[target[t]]
                    /\ owner' # target[t]

TakeBackRead(t) ==
  /\ readCount' = [readCount EXCEPT
                     ![target[t]] = @ - borrows[t].read,
                     ![t] = IF TakesBackRead(t) THEN borrows[t].read ELSE @]
  /\ sharedCount' = IF /\ borrows[t].read > 0
                       /\ borrows[t].read = readCount[target[t]]
                       /\ ~TakesBackRead(t)
                      THEN sharedCount - 1 ELSE sharedCount

TakeBack(t) ==
  /\ phase[t] = "lent"
  /\ TakeBackExcl(t) /\ TakeBackRead(t)
  /\ LET b == borrows[t]
         back == [excl |-> IF TakesBackExcl(t) THEN b.excl ELSE 0,
                  read |-> IF TakesBackRead(t) THEN b.read ELSE 0]
     IN /\ held' = [held EXCEPT ![t] = @ + back.excl + back.read]
        /\ reclaims' = [reclaims EXCEPT
                          ![t].excl = @ + b.excl - back.excl,
                          ![t].read = @ + b.read - back.read]
  /\ borrows' = [borrows EXCEPT ![t] = Nothing]
  /\ phase' = [phase EXCEPT ![t] = "reclaim"]
  /\ UNCHANGED <<waitVars, closed, target, promoted, onLoan, overtaken>>

\* Mutant: one call reclaims an exclusive lock of any depth.
ReclaimOnce(t) ==
  /\ InForbid(t)
  /\ \/ /\ reclaims[t].read > 0
        /\ \E allocated \in BOOLEAN : LockSemShared(t, allocated)
        /\ reclaims' = [reclaims EXCEPT ![t].read = @ - 1]
     \/ /\ reclaims[t].read = 0 /\ reclaims[t].excl > 0
        /\ LockSemExcl(t)
        /\ reclaims' = [reclaims EXCEPT ![t].excl = 0]
  /\ UNCHANGED <<target, phase, borrows, onLoan, promoted, overtaken>>

\* Read entries are put at the head of the list and are locked first.
Reclaim(t) ==
  /\ InForbid(t)
  /\ \/ /\ reclaims[t].read > 0
        /\ \E allocated \in BOOLEAN : LockSemShared(t, allocated)
        /\ reclaims' = [reclaims EXCEPT ![t].read = @ - 1]
     \/ /\ reclaims[t].read = 0 /\ reclaims[t].excl > 0
        /\ LockSemExcl(t)
        /\ reclaims' = [reclaims EXCEPT ![t].excl = @ - 1]
  /\ UNCHANGED <<target, phase, borrows, onLoan, promoted, overtaken>>

BorrowReturns(t) ==
  /\ InForbid(t) /\ reclaims[t] = Nothing
  /\ phase' = [phase EXCEPT ![t] = "idle"]
  /\ target' = [target EXCEPT ![t] = NoTask]
  /\ onLoan' = [onLoan EXCEPT ![t] = Nothing]
  /\ UNCHANGED <<vars, borrows, reclaims, promoted, overtaken>>

-----------------------------------------------------------------------------
\* A promoted request looks at the owner only, as the shared request it was,
\* and takes the lock exclusively.
WakePromoted(t) ==
  /\ t \in promoted /\ t \in signalled
  /\ \/ /\ SharedGrantable
        /\ TakeExcl(t) /\ Dequeue(t)
        /\ promoted' = promoted \ {t}
        /\ overtaken' = (Readers # {})
     \/ /\ ~SharedGrantable
        /\ Enqueue(t, "shared")
        /\ UNCHANGED <<promoted, overtaken>>
  /\ UNCHANGED <<closed, loanVars>>

BLock(t)   == phase[t] = "idle" /\ Lock(t) /\ UNCHANGED <<loanVars, promoted, overtaken>>
BUnlock(t) == phase[t] = "idle" /\ Unlock(t) /\ UNCHANGED <<loanVars, promoted, overtaken>>
BWake(t)   == t \notin promoted /\ Wake(t) /\ UNCHANGED <<loanVars, promoted, overtaken>>

\* Once a writer runs beside a reader the model stops.
BNext == /\ ~overtaken
         /\ \E t \in Task :
              /\ MayRun(t)
              /\ \/ BLock(t) \/ BUnlock(t) \/ BWake(t) \/ WakePromoted(t)
                 \/ \E u \in Task : BorrowLocksWait(t, u) \/ BorrowLocksNoMemory(t, u)
                 \/ TakeBack(t) \/ Reclaim(t) \/ BorrowReturns(t)

BSpec == BInit /\ [][BNext]_bVars
-----------------------------------------------------------------------------
\* The shape of the state.
BTypeOK == /\ TypeOK
           /\ target \in [Task -> Task \cup {NoTask}]
           /\ phase \in [Task -> {"idle", "lent", "reclaim"}]
           /\ borrows \in [Task -> [excl : Nat, read : Nat]]
           /\ reclaims \in [Task -> [excl : Nat, read : Nat]]
           /\ promoted \subseteq {t \in Task : waiting[t] = "shared"}

\* The lock calls that are lent to u, each named by its lender and a number.
LentTo(u) ==
  Cardinality(UNION {{t} \X (1..borrows[t].excl + borrows[t].read) : t \in LendsTo(u)})

\* Nothing is lost or made up by a loan: what the lock says a task holds is
\* what the task took plus what others lend it, whatever was split, merged or
\* handed over; and the books have their shape.
BooksBalance == BTypeOK /\ \A u \in Task : Holding(u) = held[u] + LentTo(u)

\* Lending breaks the exclusion of the lock in one way only.
ExclusionUnlessOvertaken == overtaken \/ Exclusion

\* A borrow returns with the locks its caller had: as many, and for writing
\* if it held for writing.
TakenBack == [][\A t \in Task : phase[t] = "reclaim" /\ phase'[t] = "idle" =>
                  /\ Holding(t) = onLoan[t].excl + onLoan[t].read
                  /\ onLoan[t].excl > 0 => owner = t]_bVars

\* Some queued task could have the lock, and none that could is signalled.
Obtain(t) == \/ waiting[t] = "excl"   /\ ExclGrantable(t)
             \/ waiting[t] = "shared" /\ SharedGrantable
Stalled   == /\ \E t \in Task : Obtain(t)
             /\ \A t \in Task : Obtain(t) => t \notin signalled

\* A reader that waits to write has become the only one, by a lender that released
\* its shared hold to a queued task and told that task alone.
UpgradeUntold == \E t \in Task : /\ Readers = {t} /\ waiting[t] = "excl"
                                 /\ \E l \in Task \ {t} : phase[l] # "idle" /\ onLoan[l].read > 0

\* Lending tells the borrower alone.  A task that could have the lock may then be
\* untold, with nobody told in its place, but only beside a reader that runs, whose
\* unlock tells everybody; in a clash of upgrades; or when it is itself a reader that
\* waits to write, until the lender is back and unlocks.
NoIdleStall == Stalled => \/ \E t \in Readers : Running(t)
                          \/ UpgradeClash
                          \/ UpgradeUntold
=============================================================================
