-------------------------- MODULE BorrowLocksProof --------------------------
(***************************************************************************)
(* Theorems about BorrowLocks for any finite set of tasks and any nesting: *)
(* the books balance, the lock excludes but for the promoted request,      *)
(* who could have the lock is told, or a reader's unlock will tell, but    *)
(* for an upgrade that a loan made possible, and a borrow returns with     *)
(* what its caller had.                                                    *)
(***************************************************************************)
EXTENDS BorrowLocks, PsdLockProof

\* The lock calls of the tasks of S, n[t] of each task t, and their number.
Calls(S, n) == UNION {{t} \X (1..n[t]) : t \in S}
Total(S, n) == Cardinality(Calls(S, n))

AllLent      == [t \in Task |-> borrows[t].excl + borrows[t].read]
ReadsLent    == [t \in Task |-> borrows[t].read]
LentReads(u) == Total(LendsTo(u), ReadsLent)

Books == [Task -> [excl : Nat, read : Nat]]

\* Who waits for a lock that nobody holds finds somebody told.
FreeTold ==
  owner = NoTask /\ Readers = {} /\ (\E t \in Task : ~Running(t)) =>
    \E t \in signalled : ~Running(t)

LockPart == TypeOK /\ OwnerCounted /\ SharedCounted /\ WaitersLack /\ FreeTold

\* An exclusive hold has one lender, and its borrower has no read locks of its own.
WriterLent ==
  /\ \A t \in Task : borrows[t].excl > 0 =>
       /\ owner = target[t] /\ exclCount >= borrows[t].excl
       /\ readCount[target[t]] = borrows[t].read
  /\ \A t, u \in Task : borrows[t].excl > 0 /\ borrows[u].excl > 0 => t = u

\* What the lock has of a task is what it took and what is lent to it.
Balance == \A u \in Task : /\ Holding(u) = held[u] + LentTo(u)
                           /\ readCount[u] >= LentReads(u)

\* Who lends nothing has nothing noted.
Unlent == \A t \in Task : phase[t] = "idle" =>
            borrows[t] = Nothing /\ reclaims[t] = Nothing /\ onLoan[t] = Nothing

\* A lender holds nothing of what it lent, and what it will have to take is
\* what it lent.
Lenders == \A t \in Task : phase[t] # "idle" =>
  /\ LendsTo(t) = {} /\ t \notin promoted /\ target[t] \in Task \ {t}
  /\ phase[t] = "lent" => Running(t)
  /\ phase[t] = "reclaim" => borrows[t] = Nothing
  /\ borrows[t] # Nothing => held[t] = 0

Owed == \A t \in Task : phase[t] # "idle" =>
  /\ Holding(t) + borrows[t].excl + borrows[t].read + reclaims[t].excl + reclaims[t].read
       + (IF Running(t) THEN 0 ELSE 1) = onLoan[t].excl + onLoan[t].read
  /\ onLoan[t].excl > 0 =>
       owner = t \/ borrows[t].excl > 0 \/ reclaims[t].excl > 0 \/ waiting[t] = "excl"

LoanTypes == BTypeOK /\ onLoan \in Books

BInv == /\ LockPart /\ (overtaken \/ Exclusion) /\ LoanTypes /\ WriterLent /\ Balance
        /\ Unlent /\ Lenders /\ Owed

-----------------------------------------------------------------------------
\* Totals.
LEMMA CallsOf ==
  ASSUME NEW S, NEW n, NEW c
  PROVE  c \in Calls(S, n) <=> \E t \in S : \E i \in 1..n[t] : c = <<t, i>>
  BY DEF Calls

LEMMA OneTaskCalls ==
  ASSUME NEW t, NEW k \in Nat
  PROVE  IsFiniteSet({t} \X (1..k)) /\ Cardinality({t} \X (1..k)) = k
<1>1. IsFiniteSet({t}) /\ Cardinality({t}) = 1
  BY FS_Singleton
<1>2. IsFiniteSet(1..k) /\ Cardinality(1..k) = k
  BY FS_Interval
<1>3. /\ IsFiniteSet({t} \X (1..k))
      /\ Cardinality({t} \X (1..k)) = Cardinality({t}) * Cardinality(1..k)
  BY <1>1, <1>2, FS_Product
<1> QED BY <1>1, <1>2, <1>3

LEMMA CallsFinite ==
  ASSUME NEW S, S \subseteq Task, NEW n \in [Task -> Nat]
  PROVE  IsFiniteSet(Calls(S, n)) /\ Total(S, n) \in Nat
<1> DEFINE f == [t \in S |-> {t} \X (1..n[t])]
           T == {{t} \X (1..n[t]) : t \in S}
<1>1. IsFiniteSet(S)
  BY TaskAssumption, FS_Subset
<1>2. f \in Surjection(S, T)
  BY DEF Surjection
<1>3. IsFiniteSet(T)
  <2> HIDE DEF f, T
  <2> QED BY <1>1, <1>2, FS_Surjection
<1>4. ASSUME NEW t \in S
      PROVE  IsFiniteSet({t} \X (1..n[t]))
  <2>1. n[t] \in Nat
    OBVIOUS
  <2> QED BY <2>1, OneTaskCalls
<1>5. IsFiniteSet(UNION T)
  <2>1. \A A \in T : IsFiniteSet(A)
    BY <1>4
  <2> HIDE DEF T
  <2> QED BY <1>3, <2>1, FS_UNION
<1> QED BY <1>5, FS_CardinalityType DEF Calls, Total

LEMMA TotalWith ==
  ASSUME NEW S, S \subseteq Task, NEW t \in Task, t \notin S, NEW n \in [Task -> Nat]
  PROVE  Total(S \cup {t}, n) = Total(S, n) + n[t]
<1> DEFINE A == Calls(S, n)
           B == {t} \X (1..n[t])
<1>1. Calls(S \cup {t}, n) = A \cup B
  BY DEF Calls
<1>2. A \cap B = {}
  BY DEF Calls
<1>3. IsFiniteSet(A) /\ Cardinality(A) = Total(S, n) /\ Total(S, n) \in Nat
  BY CallsFinite DEF Total
<1>4. IsFiniteSet(B) /\ Cardinality(B) = n[t]
  BY OneTaskCalls
<1> HIDE DEF A, B
<1>5. Cardinality(A \cup B) = Cardinality(A) + Cardinality(B) - Cardinality(A \cap B)
  BY <1>3, <1>4, FS_Union
<1>6. Cardinality(A \cap B) = 0
  BY <1>2, FS_EmptySet
<1>7. n[t] \in Nat /\ Total(S \cup {t}, n) = Cardinality(A \cup B)
  BY <1>1 DEF Total
<1> QED BY <1>3, <1>4, <1>5, <1>6, <1>7

LEMMA TotalWithout ==
  ASSUME NEW S, S \subseteq Task, NEW t \in S, NEW n \in [Task -> Nat]
  PROVE  Total(S \ {t}, n) = Total(S, n) - n[t] /\ n[t] <= Total(S, n)
<1>1. (S \ {t}) \cup {t} = S /\ S \ {t} \subseteq Task /\ t \in Task /\ t \notin S \ {t}
  OBVIOUS
<1>2. Total((S \ {t}) \cup {t}, n) = Total(S \ {t}, n) + n[t]
  BY <1>1, TotalWith
<1>3. Total(S \ {t}, n) \in Nat /\ n[t] \in Nat
  BY <1>1, CallsFinite
<1>4. Total(S, n) = Total(S \ {t}, n) + n[t]
  BY <1>1, <1>2
<1> QED BY <1>3, <1>4

LEMMA TotalSame ==
  ASSUME NEW S, NEW m, NEW n, \A t \in S : m[t] = n[t]
  PROVE  Total(S, m) = Total(S, n)
<1>1. Calls(S, m) = Calls(S, n)
  BY DEF Calls
<1> QED BY <1>1 DEF Total

LEMMA TotalNone ==
  ASSUME NEW n
  PROVE  Total({}, n) = 0
<1>1. Calls({}, n) = {}
  BY DEF Calls
<1> QED BY <1>1, FS_EmptySet DEF Total

\* What is lent to a task.
LentShape ==
  /\ AllLent \in [Task -> Nat] /\ ReadsLent \in [Task -> Nat]
  /\ \A t \in Task : /\ AllLent[t] = borrows[t].excl + borrows[t].read
                     /\ ReadsLent[t] = borrows[t].read
                     /\ borrows[t].excl \in Nat /\ borrows[t].read \in Nat
  /\ \A u \in Task : LentTo(u) = Total(LendsTo(u), AllLent)

LEMMA LentShaped == borrows \in Books => LentShape
<1> SUFFICES ASSUME borrows \in Books PROVE LentShape
  OBVIOUS
<1>1. \A t \in Task : borrows[t] \in [excl : Nat, read : Nat]
  BY DEF Books
<1>2. \A t \in Task : borrows[t].excl \in Nat /\ borrows[t].read \in Nat
  BY <1>1
<1>3. /\ AllLent \in [Task -> Nat] /\ ReadsLent \in [Task -> Nat]
      /\ \A t \in Task : /\ AllLent[t] = borrows[t].excl + borrows[t].read
                         /\ ReadsLent[t] = borrows[t].read
  BY <1>2 DEF AllLent, ReadsLent
<1>4. ASSUME NEW u \in Task
      PROVE  LentTo(u) = Total(LendsTo(u), AllLent)
  <2>1. \A t \in LendsTo(u) : AllLent[t] = borrows[t].excl + borrows[t].read
    BY <1>3 DEF LendsTo
  <2>2. Calls(LendsTo(u), AllLent) =
          UNION {{t} \X (1..borrows[t].excl + borrows[t].read) : t \in LendsTo(u)}
    BY <2>1 DEF Calls
  <2> QED BY <2>2 DEF LentTo, Total
<1> QED BY <1>2, <1>3, <1>4 DEF LentShape

LEMMA LentTypes ==
  ASSUME borrows \in Books
  PROVE  /\ AllLent \in [Task -> Nat] /\ ReadsLent \in [Task -> Nat]
         /\ \A t \in Task : /\ AllLent[t] = borrows[t].excl + borrows[t].read
                            /\ ReadsLent[t] = borrows[t].read
                            /\ borrows[t].excl \in Nat /\ borrows[t].read \in Nat
         /\ \A u \in Task : LentTo(u) = Total(LendsTo(u), AllLent)
  BY LentShaped DEF LentShape

LEMMA LentShapedNext == (borrows \in Books => LentShape)'
  BY LentShaped, PTL

LEMMA LentNats ==
  ASSUME borrows \in Books, NEW u \in Task
  PROVE  LentTo(u) \in Nat /\ LentReads(u) \in Nat
<1>1. LendsTo(u) \subseteq Task
  BY DEF LendsTo
<1> QED BY <1>1, LentTypes, CallsFinite DEF LentReads

\* One loan of reads is among all of them.
LEMMA ReadsAtLeast ==
  ASSUME borrows \in Books, NEW u \in Task, NEW t \in LendsTo(u)
  PROVE  LentReads(u) >= borrows[t].read
<1>1. LendsTo(u) \subseteq Task /\ t \in Task
  BY DEF LendsTo
<1>2. ReadsLent[t] <= LentReads(u)
  BY <1>1, LentTypes, TotalWithout DEF LentReads
<1> QED BY <1>1, <1>2, LentTypes, LentNats

\* Without an exclusive loan all that is lent is reads.
LEMMA LentReadsOnly ==
  ASSUME borrows \in Books, NEW u \in Task, \A t \in LendsTo(u) : borrows[t].excl = 0
  PROVE  LentTo(u) = LentReads(u)
<1>1. \A t \in LendsTo(u) : AllLent[t] = ReadsLent[t]
  BY LentTypes DEF LendsTo
<1> QED BY <1>1, LentTypes, TotalSame DEF LentReads

\* With one, it comes on top.
LEMMA LentWithWriter ==
  ASSUME borrows \in Books, NEW u \in Task, NEW w \in LendsTo(u),
         \A t \in LendsTo(u) \ {w} : borrows[t].excl = 0
  PROVE  LentTo(u) = LentReads(u) + borrows[w].excl
<1>1. LendsTo(u) \subseteq Task /\ w \in Task
  BY DEF LendsTo
<1>2. \A t \in LendsTo(u) \ {w} : AllLent[t] = ReadsLent[t]
  BY <1>1, LentTypes
<1>3. Total(LendsTo(u) \ {w}, AllLent) = Total(LendsTo(u) \ {w}, ReadsLent)
  BY <1>2, TotalSame
<1>4. /\ Total(LendsTo(u) \ {w}, AllLent) = Total(LendsTo(u), AllLent) - AllLent[w]
      /\ Total(LendsTo(u) \ {w}, ReadsLent) = Total(LendsTo(u), ReadsLent) - ReadsLent[w]
  BY <1>1, LentTypes, TotalWithout
<1>5. Total(LendsTo(u), AllLent) \in Nat /\ Total(LendsTo(u), ReadsLent) \in Nat
  BY <1>1, LentTypes, CallsFinite
<1>6. /\ AllLent[w] = borrows[w].excl + borrows[w].read /\ ReadsLent[w] = borrows[w].read
      /\ borrows[w].excl \in Nat /\ borrows[w].read \in Nat
      /\ LentTo(u) = Total(LendsTo(u), AllLent)
  BY <1>1, LentTypes
<1> QED BY <1>3, <1>4, <1>5, <1>6 DEF LentReads

\* Nothing of this changes while no loan does.
LEMMA LentSame ==
  ASSUME UNCHANGED <<phase, target, borrows>>
  PROVE  \A u \in Task : /\ LendsTo(u)' = LendsTo(u) /\ LentTo(u)' = LentTo(u)
                         /\ LentReads(u)' = LentReads(u)
  BY DEF LendsTo, LentTo, LentReads, ReadsLent

-----------------------------------------------------------------------------
\* The steps on the lock, while no loan changes.
NoLoan == \A t \in Task : borrows[t].excl = 0

\* Of the other tasks everything stays as it is.
Elsewhere(t) == \A u \in Task \ {t} :
  /\ Holding(u)' = Holding(u) /\ waiting'[u] = waiting[u] /\ held'[u] = held[u]
  /\ owner = u => owner' = u

Lending == borrows \in Books /\ WriterLent /\ Balance

LEMMA NoWriter ==
  ASSUME LockPart, Lending, owner = NoTask \/ exclCount = 0
  PROVE  NoLoan /\ exclCount = 0 /\ owner = NoTask
<1>1. exclCount = 0 /\ owner = NoTask
  BY DEF LockPart, OwnerCounted
<1>2. ASSUME NEW t \in Task, borrows[t].excl # 0
      PROVE  FALSE
  BY <1>1, <1>2, LentTypes DEF Lending, WriterLent
<1> QED BY <1>1, <1>2 DEF NoLoan

LEMMA TakesExcl ==
  ASSUME LockPart, Lending, NEW t \in Task, owner = t \/ exclCount = 0, TakeExcl(t),
         waiting' = [waiting EXCEPT ![t] = "no"],
         signalled' \in SUBSET Task, closed' \in BOOLEAN, UNCHANGED <<phase, target, borrows>>
  PROVE  /\ LockPart' /\ Lending' /\ Elsewhere(t)
         /\ Holding(t)' = Holding(t) + 1 /\ held'[t] = held[t] + 1 /\ Running(t)' /\ owner' = t
         /\ readCount' = readCount
<1> USE NoTaskAssumption
<1>1. /\ owner' = t /\ exclCount' = exclCount + 1 /\ held' = [held EXCEPT ![t] = @ + 1]
      /\ readCount' = readCount /\ sharedCount' = sharedCount /\ Readers' = Readers
  BY DEF TakeExcl, Readers
<1>2. owner = t \/ (owner = NoTask /\ exclCount = 0 /\ NoLoan)
  BY NoWriter
<1>3. TypeOK'
  BY <1>1 DEF LockPart, TypeOK
<1>4. OwnerCounted' /\ SharedCounted'
  BY <1>1, <1>2 DEF LockPart, TypeOK, OwnerCounted, SharedCounted
<1>5. WaitersLack'
  BY <1>1, <1>2 DEF LockPart, TypeOK, WaitersLack, Running
<1>6. FreeTold'
  BY <1>1 DEF FreeTold
<1>7. Elsewhere(t)
  BY <1>1, <1>2 DEF LockPart, TypeOK, Elsewhere, Holding
<1>8. Holding(t)' = Holding(t) + 1 /\ held'[t] = held[t] + 1 /\ Running(t)'
  BY <1>1, <1>2 DEF LockPart, TypeOK, Holding, Running
<1>9. WriterLent'
  <2>1. CASE owner = t
    BY <1>1, <2>1, LentTypes DEF LockPart, TypeOK, Lending, WriterLent
  <2>2. CASE NoLoan
    BY <2>2 DEF NoLoan, WriterLent
  <2> QED BY <1>2, <2>1, <2>2
<1>10. Balance'
  BY <1>1, <1>7, <1>8, LentSame, LentNats DEF LockPart, TypeOK, Lending, Balance, Elsewhere, Holding
<1> QED BY <1>1, <1>3, <1>4, <1>5, <1>6, <1>7, <1>8, <1>9, <1>10 DEF LockPart, Lending

LEMMA TakesShared ==
  ASSUME LockPart, Lending, NEW t \in Task, owner = NoTask, TakeShared(t),
         waiting' = [waiting EXCEPT ![t] = "no"],
         signalled' \in SUBSET Task, closed' \in BOOLEAN, UNCHANGED <<phase, target, borrows>>
  PROVE  /\ LockPart' /\ Lending' /\ Elsewhere(t)
         /\ Holding(t)' = Holding(t) + 1 /\ held'[t] = held[t] + 1 /\ Running(t)'
         /\ owner' = NoTask
<1> USE NoTaskAssumption
<1>1. /\ owner' = owner /\ exclCount' = exclCount /\ held' = [held EXCEPT ![t] = @ + 1]
      /\ readCount' = [readCount EXCEPT ![t] = @ + 1]
      /\ sharedCount' = IF readCount[t] = 0 THEN sharedCount + 1 ELSE sharedCount
  BY DEF TakeShared
<1>2. NoLoan /\ exclCount = 0
  BY NoWriter
<1>3. TypeOK'
  BY <1>1 DEF LockPart, TypeOK
<1>4. Readers' = Readers \cup {t} /\ (t \in Readers <=> readCount[t] # 0)
  BY <1>1 DEF LockPart, TypeOK, Readers
<1>5. OwnerCounted' /\ SharedCounted'
  BY <1>1, <1>4, ReadersFinite, FS_AddElement DEF LockPart, OwnerCounted, SharedCounted
<1>6. WaitersLack'
  BY <1>1 DEF LockPart, TypeOK, WaitersLack, Running
<1>7. FreeTold'
  BY <1>4 DEF FreeTold
<1>8. Elsewhere(t)
  BY <1>1 DEF LockPart, TypeOK, Elsewhere, Holding
<1>9. Holding(t)' = Holding(t) + 1 /\ held'[t] = held[t] + 1 /\ Running(t)'
  BY <1>1 DEF LockPart, TypeOK, Holding, Running
<1>10. WriterLent'
  BY <1>2 DEF NoLoan, WriterLent
<1>11. Balance'
  BY <1>1, <1>8, <1>9, LentSame, LentNats DEF LockPart, TypeOK, Lending, Balance, Elsewhere, Holding
<1> QED BY <1>1, <1>3, <1>5, <1>6, <1>7, <1>8, <1>9, <1>10, <1>11 DEF LockPart, Lending

LEMMA Queues ==
  ASSUME LockPart, Lending, NEW t \in Task, NEW kind \in {"excl", "shared"}, owner # t,
         kind = "shared" => readCount[t] = 0, owner # NoTask \/ Readers # {},
         Enqueue(t, kind), closed' \in BOOLEAN, UNCHANGED <<phase, target, borrows>>
  PROVE  /\ LockPart' /\ Lending' /\ Elsewhere(t)
         /\ Holding(t)' = Holding(t) /\ held'[t] = held[t] /\ waiting'[t] = kind
         /\ owner' = owner /\ readCount' = readCount
<1>1. /\ owner' = owner /\ exclCount' = exclCount /\ readCount' = readCount
      /\ sharedCount' = sharedCount /\ held' = held /\ Readers' = Readers
      /\ waiting' = [waiting EXCEPT ![t] = kind] /\ signalled' = signalled \ {t}
  BY DEF Enqueue, lockVars, Readers
<1>2. TypeOK' /\ OwnerCounted' /\ SharedCounted'
  BY <1>1 DEF LockPart, TypeOK, OwnerCounted, SharedCounted
<1>3. WaitersLack'
  BY <1>1 DEF LockPart, TypeOK, WaitersLack, Running
<1>4. FreeTold'
  BY <1>1 DEF FreeTold
<1>5. /\ Elsewhere(t) /\ Holding(t)' = Holding(t) /\ held'[t] = held[t] /\ waiting'[t] = kind
  BY <1>1 DEF LockPart, TypeOK, Elsewhere, Holding
<1>6. WriterLent'
  BY <1>1 DEF Lending, WriterLent
<1>7. Balance'
  BY <1>1, LentSame DEF Lending, Balance, Holding
<1> QED BY <1>1, <1>2, <1>3, <1>4, <1>5, <1>6, <1>7 DEF LockPart, Lending

\* The writer that gives a lock call back keeps what was lent to it.
LEMMA WriterKeeps ==
  ASSUME LockPart, Lending, LoanTypes, Unlent, Lenders, NEW t \in Task, owner = t, held[t] > 0,
         NEW w \in Task, borrows[w].excl > 0
  PROVE  target[w] = t /\ exclCount > borrows[w].excl
<1>1. target[w] = t /\ readCount[t] = borrows[w].read
  BY DEF Lending, WriterLent
<1>2. phase[w] = "lent"
  BY DEF LoanTypes, BTypeOK, Unlent, Lenders, Nothing
<1>3. w \in LendsTo(t)
  BY <1>1, <1>2 DEF LendsTo
<1>4. LentTo(t) = LentReads(t) + borrows[w].excl
  <2>1. \A x \in LendsTo(t) \ {w} : borrows[x].excl = 0
    BY LentTypes DEF Lending, WriterLent, LendsTo
  <2> QED BY <1>3, <2>1, LentWithWriter DEF Lending
<1>5. LentReads(t) >= borrows[w].read
  BY <1>3, ReadsAtLeast DEF Lending
<1>6. readCount[t] + exclCount = held[t] + LentTo(t)
  BY DEF Lending, Balance, Holding
<1>7. /\ LentReads(t) \in Nat /\ held[t] \in Nat /\ exclCount \in Nat
      /\ borrows[w].excl \in Nat /\ borrows[w].read \in Nat
  BY LentNats, LentTypes DEF Lending, LockPart, TypeOK
<1> QED BY <1>1, <1>4, <1>5, <1>6, <1>7

LEMMA Unlocks ==
  ASSUME LockPart, Lending, LoanTypes, Unlent, Lenders, Exclusion,
         NEW t \in Task, held[t] > 0, UnlockSem(t), UNCHANGED <<phase, target, borrows>>
  PROVE  LockPart' /\ Lending' /\ Elsewhere(t) /\ Exclusion' /\ waiting' = waiting
<1> USE NoTaskAssumption
<1>1. /\ waiting' = waiting /\ closed' = closed /\ held' = [held EXCEPT ![t] = @ - 1]
      /\ held[t] \in Nat \ {0}
  BY DEF UnlockSem, LockPart, TypeOK
<1>2. CASE UnlockExcl(t)
  <2>1. /\ owner = t /\ exclCount' = exclCount - 1 /\ exclCount \in Nat \ {0}
        /\ readCount' = readCount /\ sharedCount' = sharedCount /\ Readers' = Readers
    BY <1>2 DEF UnlockExcl, LockPart, TypeOK, OwnerCounted, Readers
  <2>2. \/ exclCount = 1 /\ owner' = NoTask /\ signalled' = signalled \cup {u \in Task : ~Running(u)}
        \/ exclCount # 1 /\ owner' = t /\ signalled' = signalled
    BY <1>2, <2>1 DEF UnlockExcl, NotifyWaiters
  <2>3. TypeOK' /\ OwnerCounted' /\ SharedCounted'
    BY <1>1, <2>1, <2>2 DEF LockPart, TypeOK, OwnerCounted, SharedCounted
  <2>4. WaitersLack' /\ Exclusion'
    BY <1>1, <2>1, <2>2 DEF LockPart, WaitersLack, Running, Exclusion
  <2>5. FreeTold'
    BY <1>1, <2>1, <2>2 DEF LockPart, FreeTold, Running
  <2>6. Elsewhere(t) /\ Holding(t)' = Holding(t) - 1
    BY <1>1, <2>1, <2>2 DEF LockPart, TypeOK, Elsewhere, Holding
  <2>7. WriterLent'
    <3>1. ASSUME NEW w \in Task, borrows[w].excl > 0
          PROVE  /\ target[w] = t /\ exclCount > borrows[w].excl /\ borrows[w].excl \in Nat
                 /\ readCount[t] = borrows[w].read
      BY <2>1, <3>1, WriterKeeps, LentTypes DEF Lending, WriterLent
    <3>2. ASSUME NEW w \in Task, borrows[w].excl > 0
          PROVE  target[w] = t /\ owner' = t /\ exclCount' >= borrows[w].excl
      BY <2>1, <2>2, <3>1, <3>2
    <3> QED BY <2>1, <3>1, <3>2 DEF Lending, WriterLent
  <2>8. Balance'
    BY <1>1, <2>1, <2>6, LentSame, LentNats
       DEF LockPart, TypeOK, Lending, Balance, Elsewhere, Holding
  <2> QED BY <1>1, <2>3, <2>4, <2>5, <2>6, <2>7, <2>8 DEF LockPart, Lending
<1>3. CASE UnlockShared(t)
  <2>1. /\ owner = NoTask /\ owner' = owner /\ exclCount' = exclCount
        /\ readCount' = [readCount EXCEPT ![t] = @ - 1] /\ readCount[t] \in Nat \ {0}
    BY <1>3 DEF UnlockShared, UnlockSem, UnlockRefused, LockPart, TypeOK
  <2>2. \/ /\ readCount[t] = 1 /\ sharedCount' = sharedCount - 1
           /\ signalled' = signalled \cup {u \in Task : ~Running(u)}
        \/ readCount[t] # 1 /\ sharedCount' = sharedCount /\ signalled' = signalled
    BY <1>3, <2>1 DEF UnlockShared, NotifyWaiters
  <2>3. /\ t \in Readers
        /\ Readers' = IF readCount[t] = 1 THEN Readers \ {t} ELSE Readers
    BY <2>1 DEF LockPart, TypeOK, Readers
  <2>4. SharedCounted' /\ sharedCount' \in Nat
    <3>1. Cardinality(Readers \ {t}) = Cardinality(Readers) - 1
      BY <2>3, ReadersFinite, FS_RemoveElement
    <3>2. Cardinality(Readers \ {t}) \in Nat
      BY ReadersFinite, FS_RemoveElement, FS_CardinalityType
    <3> QED BY <2>2, <2>3, <3>1, <3>2 DEF LockPart, TypeOK, SharedCounted
  <2>5. TypeOK' /\ OwnerCounted'
    BY <1>1, <2>1, <2>2, <2>4 DEF LockPart, TypeOK, OwnerCounted
  <2>6. WaitersLack' /\ Exclusion'
    BY <1>1, <2>1 DEF LockPart, TypeOK, WaitersLack, Running, Exclusion
  <2>7. FreeTold'
    BY <1>1, <2>2, <2>3 DEF LockPart, FreeTold, Running
  <2>8. Elsewhere(t) /\ Holding(t)' = Holding(t) - 1
    BY <1>1, <2>1 DEF LockPart, TypeOK, Elsewhere, Holding
  <2>9. NoLoan
    BY <2>1, NoWriter
  <2>10. WriterLent'
    BY <2>9 DEF NoLoan, WriterLent
  <2>11. readCount[t] > LentReads(t)
    <3>1. LentTo(t) = LentReads(t)
      BY <2>9, LentReadsOnly DEF NoLoan, Lending, LendsTo
    <3>2. readCount[t] = held[t] + LentTo(t)
      BY <2>1 DEF Lending, Balance, Holding, LockPart, TypeOK
    <3> QED BY <1>1, <2>1, <3>1, <3>2, LentNats DEF Lending
  <2>12. ASSUME NEW u \in Task
         PROVE  Holding(u)' = held'[u] + LentTo(u)' /\ readCount'[u] >= LentReads(u)'
    <3>1. LentTo(u)' = LentTo(u) /\ LentReads(u)' = LentReads(u) /\ LentTo(u) \in Nat /\ LentReads(u) \in Nat
      BY LentSame, LentNats DEF Lending
    <3>2. CASE u = t
      BY <1>1, <2>1, <2>8, <2>11, <3>1, <3>2 DEF Lending, Balance, LockPart, TypeOK
    <3>3. CASE u # t
      BY <1>1, <2>1, <2>8, <3>1, <3>3 DEF Lending, Balance, LockPart, TypeOK, Elsewhere
    <3> QED BY <3>2, <3>3
  <2> QED BY <1>1, <2>4, <2>5, <2>6, <2>7, <2>8, <2>10, <2>12 DEF LockPart, Lending, Balance
<1> QED BY <1>2, <1>3 DEF UnlockSem

-----------------------------------------------------------------------------
\* The calls of the lock.
Answered(t)  == Holding(t)' = Holding(t) + 1 /\ held'[t] = held[t] + 1 /\ Running(t)'
Put(t, kind) == /\ Holding(t)' = Holding(t) /\ held'[t] = held[t] /\ waiting'[t] = kind
                /\ owner' = owner
Goes(t)      == /\ LockPart' /\ Lending' /\ Exclusion' /\ Elsewhere(t)
                /\ owner = t => owner' = t

LEMMA ExclGranted ==
  ASSUME LockPart, Lending, Exclusion, NEW t \in Task, ExclGrantable(t), TakeExcl(t),
         waiting' = [waiting EXCEPT ![t] = "no"],
         signalled' \in SUBSET Task, closed' \in BOOLEAN, UNCHANGED <<phase, target, borrows>>
  PROVE  Goes(t) /\ Answered(t) /\ owner' = t
<1>1. owner = t \/ exclCount = 0
  BY DEF ExclGrantable
<1>2. \A u \in Task \ {t} : readCount[u] = 0
  <2>1. CASE owner = t
    BY <2>1, NoTaskAssumption DEF Exclusion, Readers, LockPart, TypeOK
  <2>2. CASE owner # t
    BY <2>2, NoReaders, SoleReader DEF ExclGrantable, LockPart, SharedCounted
  <2> QED BY <2>1, <2>2
<1>3. /\ LockPart' /\ Lending' /\ Elsewhere(t) /\ Answered(t) /\ owner' = t
      /\ readCount' = readCount
  BY <1>1, TakesExcl DEF Answered
<1>4. Exclusion'
  BY <1>2, <1>3 DEF Exclusion, Readers
<1> QED BY <1>3, <1>4 DEF Goes

LEMMA SharedGranted ==
  ASSUME LockPart, Lending, Exclusion, NEW t \in Task, owner = NoTask, TakeShared(t),
         waiting' = [waiting EXCEPT ![t] = "no"],
         signalled' \in SUBSET Task, closed' \in BOOLEAN, UNCHANGED <<phase, target, borrows>>
  PROVE  Goes(t) /\ Answered(t)
<1>1. LockPart' /\ Lending' /\ Elsewhere(t) /\ Answered(t) /\ owner' = NoTask
  BY TakesShared DEF Answered
<1> QED BY <1>1, NoTaskAssumption DEF Goes, Exclusion

LEMMA Queued ==
  ASSUME LockPart, Lending, Exclusion, NEW t \in Task, NEW kind \in {"excl", "shared"},
         kind = "excl" => ~ExclGrantable(t),
         kind = "shared" => ~SharedGrantable /\ owner # t /\ readCount[t] = 0,
         Enqueue(t, kind), closed' \in BOOLEAN, UNCHANGED <<phase, target, borrows>>
  PROVE  Goes(t) /\ Put(t, kind)
<1>1. owner # t
  BY DEF ExclGrantable
<1>2. owner # NoTask \/ Readers # {}
  BY FS_EmptySet DEF ExclGrantable, SharedGrantable, LockPart, OwnerCounted, SharedCounted
<1>3. /\ LockPart' /\ Lending' /\ Elsewhere(t) /\ Put(t, kind)
      /\ owner' = owner /\ readCount' = readCount
  BY <1>1, <1>2, Queues DEF Put
<1> QED BY <1>3 DEF Goes, Exclusion, Readers

LEMMA LockSemExclGoes ==
  ASSUME LockPart, Lending, Exclusion, NEW t \in Task, LockSemExcl(t),
         UNCHANGED <<phase, target, borrows>>
  PROVE  Goes(t) /\ Running(t) /\ ((Answered(t) /\ owner' = t) \/ Put(t, "excl"))
<1>1. Running(t) /\ closed' \in BOOLEAN
  BY DEF LockSemExcl, LockPart, TypeOK
<1>2. CASE ExclGrantable(t) /\ TakeExcl(t) /\ UNCHANGED waitVars
  <2>1. waiting' = [waiting EXCEPT ![t] = "no"] /\ signalled' \in SUBSET Task
    BY <1>1, <1>2 DEF waitVars, Running, LockPart, TypeOK
  <2> QED BY <1>1, <1>2, <2>1, ExclGranted
<1>3. CASE ~ExclGrantable(t) /\ Enqueue(t, "excl")
  BY <1>1, <1>3, Queued
<1> QED BY <1>2, <1>3 DEF LockSemExcl

LEMMA LockSemSharedGoes ==
  ASSUME LockPart, Lending, Exclusion, NEW t \in Task, NEW allocated \in BOOLEAN,
         LockSemShared(t, allocated), UNCHANGED <<phase, target, borrows>>
  PROVE  Goes(t) /\ Running(t) /\ (Answered(t) \/ Put(t, "excl") \/ Put(t, "shared"))
<1>1. CASE LockSemExcl(t)
  BY <1>1, LockSemExclGoes
<1>2. ASSUME Running(t), UNCHANGED waitVars
      PROVE  waiting' = [waiting EXCEPT ![t] = "no"] /\ signalled' \in SUBSET Task
  BY <1>2 DEF waitVars, Running, LockPart, TypeOK
<1>3. UNCHANGED closed => closed' \in BOOLEAN
  BY DEF LockPart, TypeOK
<1>4. CASE Running(t) /\ owner = t /\ TakeExcl(t) /\ UNCHANGED <<waitVars, closed>>
  <2>1. ExclGrantable(t)
    BY <1>4 DEF ExclGrantable
  <2> QED BY <1>2, <1>3, <1>4, <2>1, ExclGranted
<1>5. CASE /\ Running(t) /\ owner # t /\ readCount[t] > 0
           /\ TakeShared(t) /\ UNCHANGED <<waitVars, closed>>
  <2>1. owner = NoTask
    BY <1>5 DEF Exclusion, Readers
  <2> QED BY <1>2, <1>3, <1>5, <2>1, SharedGranted
<1>6. CASE /\ Running(t) /\ SharedGrantable /\ TakeShared(t)
           /\ UNCHANGED waitVars /\ UNCHANGED closed
  BY <1>2, <1>3, <1>6, SharedGranted DEF SharedGrantable
<1>7. CASE /\ Running(t) /\ owner # t /\ readCount[t] = 0 /\ ~SharedGrantable
           /\ Enqueue(t, "shared") /\ UNCHANGED closed
  BY <1>3, <1>7, Queued
<1> QED BY <1>1, <1>4, <1>5, <1>6, <1>7 DEF LockSemShared

LEMMA WakeGoes ==
  ASSUME LockPart, Lending, Exclusion, NEW t \in Task, Wake(t), UNCHANGED <<phase, target, borrows>>
  PROVE  /\ Goes(t) /\ ~Running(t) /\ owner # t
         /\ \/ Answered(t) /\ (waiting[t] = "excl" => owner' = t)
            \/ Put(t, waiting[t])
<1>1. /\ owner # t /\ (waiting[t] = "shared" => readCount[t] = 0) /\ closed' \in BOOLEAN
      /\ ~Running(t)
  BY DEF LockPart, TypeOK, WaitersLack, Running, Wake, WakeExcl, WakeShared
<1>2. Dequeue(t) => waiting' = [waiting EXCEPT ![t] = "no"] /\ signalled' \in SUBSET Task
  BY DEF Dequeue, LockPart, TypeOK
<1>3. CASE WakeExcl(t)
  <2>1. CASE ExclGrantable(t) /\ TakeExcl(t) /\ Dequeue(t)
    BY <1>1, <1>2, <2>1, ExclGranted
  <2>2. CASE ~ExclGrantable(t) /\ Enqueue(t, "excl")
    BY <1>1, <1>3, <2>2, Queued DEF WakeExcl
  <2> QED BY <1>3, <2>1, <2>2 DEF WakeExcl
<1>4. CASE WakeShared(t)
  <2>1. CASE SharedGrantable /\ TakeShared(t) /\ Dequeue(t)
    BY <1>1, <1>2, <1>4, <2>1, SharedGranted DEF SharedGrantable, WakeShared
  <2>2. CASE ~SharedGrantable /\ Enqueue(t, "shared")
    BY <1>1, <1>4, <2>2, Queued DEF WakeShared
  <2> QED BY <1>4, <2>1, <2>2 DEF WakeShared
<1> QED BY <1>3, <1>4 DEF Wake

-----------------------------------------------------------------------------
\* What a step on the lock leaves of the loans' notes.
LEMMA NotesKept ==
  ASSUME BInv, NEW t \in Task, Elsewhere(t), TypeOK', UNCHANGED loanVars,
         promoted' \subseteq promoted, t \in promoted' => waiting'[t] = "shared",
         phase[t] # "idle" =>
           /\ Holding(t)' + (IF Running(t)' THEN 0 ELSE 1)
                = Holding(t) + (IF Running(t) THEN 0 ELSE 1)
           /\ phase[t] # "lent"
           /\ owner = t \/ waiting[t] = "excl" => owner' = t \/ waiting'[t] = "excl"
  PROVE  LoanTypes' /\ Unlent' /\ Lenders' /\ Owed'
<1> USE DEF loanVars
<1>1. \A u \in Task : LendsTo(u)' = LendsTo(u)
  BY LentSame
<1>2. LoanTypes'
  BY DEF BInv, LoanTypes, BTypeOK, Elsewhere
<1>3. Unlent'
  BY DEF BInv, Unlent
<1>4. Lenders'
  BY <1>1 DEF BInv, LoanTypes, BTypeOK, Lenders, Elsewhere, Running
<1>5. Owed'
  <2> SUFFICES ASSUME NEW u \in Task, phase[u] # "idle"
      PROVE  /\ Holding(u)' + borrows[u].excl + borrows[u].read + reclaims[u].excl + reclaims[u].read
                  + (IF Running(u)' THEN 0 ELSE 1) = onLoan[u].excl + onLoan[u].read
             /\ onLoan[u].excl > 0 =>
                  owner' = u \/ borrows[u].excl > 0 \/ reclaims[u].excl > 0 \/ waiting'[u] = "excl"
    BY DEF Owed
  <2>1. /\ Holding(u) + borrows[u].excl + borrows[u].read + reclaims[u].excl + reclaims[u].read
             + (IF Running(u) THEN 0 ELSE 1) = onLoan[u].excl + onLoan[u].read
        /\ onLoan[u].excl > 0 =>
             owner = u \/ borrows[u].excl > 0 \/ reclaims[u].excl > 0 \/ waiting[u] = "excl"
    BY DEF BInv, Owed
  <2>2. /\ Holding(u) \in Nat /\ borrows[u].excl \in Nat /\ borrows[u].read \in Nat
        /\ reclaims[u].excl \in Nat /\ reclaims[u].read \in Nat /\ Holding(u)' \in Nat
    BY DEF BInv, LoanTypes, BTypeOK, TypeOK, Holding
  <2>3. CASE u = t
    BY <2>1, <2>2, <2>3
  <2>4. CASE u # t
    BY <2>1, <2>4 DEF Elsewhere, Running
  <2> QED BY <2>3, <2>4
<1> QED BY <1>2, <1>3, <1>4, <1>5

LEMMA Parts ==
  ASSUME BInv, ~overtaken
  PROVE  LockPart /\ Lending /\ Exclusion
  BY DEF BInv, Lending, LoanTypes, BTypeOK, Books

\* The invariant after a step on the lock.
LEMMA Whole ==
  ASSUME BInv, LockPart', Lending', (overtaken \/ Exclusion)', LoanTypes', Unlent', Lenders', Owed'
  PROVE  BInv'
  BY DEF BInv, Lending

LEMMA BLockStep ==
  ASSUME BInv, ~overtaken, NEW t \in Task, BLock(t)
  PROVE  BInv'
<1>1. /\ phase[t] = "idle" /\ UNCHANGED <<loanVars, promoted, overtaken>>
      /\ LockSemExcl(t) \/ \E allocated \in BOOLEAN : LockSemShared(t, allocated)
  BY DEF BLock, Lock
<1>2. UNCHANGED <<phase, target, borrows>>
  BY <1>1 DEF loanVars
<1>3. Goes(t) /\ Running(t)
  BY <1>1, <1>2, Parts, LockSemExclGoes, LockSemSharedGoes
<1>4. t \notin promoted
  BY <1>3 DEF BInv, LoanTypes, BTypeOK, Running
<1>5. LoanTypes' /\ Unlent' /\ Lenders' /\ Owed'
  BY <1>1, <1>3, <1>4, NotesKept DEF Goes, LockPart
<1> QED BY <1>3, <1>5, Whole DEF Goes

LEMMA BUnlockStep ==
  ASSUME BInv, ~overtaken, NEW t \in Task, BUnlock(t)
  PROVE  BInv'
<1>1. /\ phase[t] = "idle" /\ UNCHANGED <<loanVars, promoted, overtaken>>
      /\ held[t] > 0 /\ UnlockSem(t) /\ Running(t)
  BY DEF BUnlock, Unlock, UnlockSem
<1>2. UNCHANGED <<phase, target, borrows>>
  BY <1>1 DEF loanVars
<1>3. LockPart' /\ Lending' /\ Elsewhere(t) /\ Exclusion' /\ waiting' = waiting
  BY <1>1, <1>2, Parts, Unlocks DEF BInv
<1>4. t \notin promoted
  BY <1>1 DEF BInv, LoanTypes, BTypeOK, Running
<1>5. LoanTypes' /\ Unlent' /\ Lenders' /\ Owed'
  BY <1>1, <1>3, <1>4, NotesKept DEF LockPart
<1> QED BY <1>3, <1>5, Whole

LEMMA BWakeStep ==
  ASSUME BInv, ~overtaken, NEW t \in Task, BWake(t)
  PROVE  BInv'
<1>1. t \notin promoted /\ Wake(t) /\ UNCHANGED <<loanVars, promoted, overtaken>>
  BY DEF BWake
<1>2. UNCHANGED <<phase, target, borrows>>
  BY <1>1 DEF loanVars
<1>3. /\ Goes(t) /\ ~Running(t) /\ owner # t
      /\ \/ Answered(t) /\ (waiting[t] = "excl" => owner' = t)
         \/ Put(t, waiting[t])
  BY <1>1, <1>2, Parts, WakeGoes
<1>4. phase[t] # "lent" /\ Holding(t) \in Nat
  BY <1>3 DEF BInv, Lenders, LockPart, TypeOK, Holding
<1>5. LoanTypes' /\ Unlent' /\ Lenders' /\ Owed'
  BY <1>1, <1>3, <1>4, NotesKept DEF Goes, LockPart, Answered, Put, Running
<1> QED BY <1>1, <1>3, <1>5, Whole DEF Goes

LEMMA WakePromotedStep ==
  ASSUME BInv, ~overtaken, NEW t \in Task, WakePromoted(t)
  PROVE  BInv'
<1>1. /\ waiting[t] = "shared" /\ phase[t] = "idle" /\ owner # t /\ readCount[t] = 0
      /\ closed' \in BOOLEAN /\ UNCHANGED <<phase, target, borrows>> /\ UNCHANGED loanVars
  BY DEF WakePromoted, BInv, LoanTypes, BTypeOK, Lenders, LockPart, TypeOK, WaitersLack, Running,
     loanVars
<1>2. CASE /\ SharedGrantable /\ TakeExcl(t) /\ Dequeue(t) /\ promoted' = promoted \ {t}
           /\ overtaken' = (Readers # {})
  <2>1. waiting' = [waiting EXCEPT ![t] = "no"] /\ signalled' \in SUBSET Task
    BY <1>2 DEF Dequeue, BInv, LockPart, TypeOK
  <2>2. exclCount = 0
    BY <1>2, Parts, NoWriter DEF SharedGrantable
  <2>3. LockPart' /\ Lending' /\ Elsewhere(t) /\ owner' = t /\ readCount' = readCount
    BY <1>1, <1>2, <2>1, <2>2, Parts, TakesExcl
  <2>4. (overtaken \/ Exclusion)'
    BY <1>2, <2>3 DEF Exclusion, Readers
  <2>5. LoanTypes' /\ Unlent' /\ Lenders' /\ Owed'
    BY <1>1, <1>2, <2>3, NotesKept DEF LockPart
  <2> QED BY <2>3, <2>4, <2>5, Whole
<1>3. CASE ~SharedGrantable /\ Enqueue(t, "shared") /\ UNCHANGED <<promoted, overtaken>>
  <2>1. Goes(t) /\ Put(t, "shared")
    BY <1>1, <1>3, Parts, Queued
  <2>2. LoanTypes' /\ Unlent' /\ Lenders' /\ Owed'
    BY <1>1, <1>3, <2>1, NotesKept DEF Goes, LockPart, Put
  <2> QED BY <2>1, <2>2, Whole DEF Goes
<1> QED BY <1>2, <1>3 DEF WakePromoted

-----------------------------------------------------------------------------
\* A loan is made.
LEMMA LentMore ==
  ASSUME borrows \in Books, borrows' \in Books, NEW t \in Task, NEW u \in Task,
         phase \in [Task -> {"idle", "lent", "reclaim"}], phase[t] = "idle",
         target \in [Task -> Task \cup {NoTask}],
         phase' = [phase EXCEPT ![t] = "lent"], target' = [target EXCEPT ![t] = u],
         \A x \in Task \ {t} : borrows'[x] = borrows[x]
  PROVE  /\ LendsTo(u)' = LendsTo(u) \cup {t} /\ t \notin LendsTo(u)
         /\ LentTo(u)' = LentTo(u) + (borrows'[t].excl + borrows'[t].read)
         /\ LentReads(u)' = LentReads(u) + borrows'[t].read
         /\ \A v \in Task \ {u} : /\ LendsTo(v)' = LendsTo(v) /\ LentTo(v)' = LentTo(v)
                                  /\ LentReads(v)' = LentReads(v)
<1> DEFINE b == borrows'[t]
<1>1. b.excl \in Nat /\ b.read \in Nat
  BY DEF Books
<1>2. /\ LendsTo(u)' = LendsTo(u) \cup {t} /\ t \notin LendsTo(u)
      /\ \A v \in Task \ {u} : LendsTo(v)' = LendsTo(v)
  BY DEF LendsTo
<1>3. \A v \in Task : LendsTo(v) \subseteq Task /\ t \notin LendsTo(v)
  BY DEF LendsTo
<1>4. \A x \in Task : x # t => AllLent[x]' = AllLent[x] /\ ReadsLent[x]' = ReadsLent[x]
  BY DEF AllLent, ReadsLent, Books
<1>5. /\ AllLent' \in [Task -> Nat] /\ ReadsLent' \in [Task -> Nat]
      /\ AllLent'[t] = b.excl + b.read /\ ReadsLent'[t] = b.read
      /\ \A v \in Task : LentTo(v)' = Total(LendsTo(v)', AllLent')
      /\ \A v \in Task : LentReads(v)' = Total(LendsTo(v)', ReadsLent')
  BY LentShapedNext DEF LentShape, LentReads, Total, Calls
<1>6. \A v \in Task : /\ Total(LendsTo(v), AllLent') = Total(LendsTo(v), AllLent)
                      /\ Total(LendsTo(v), ReadsLent') = Total(LendsTo(v), ReadsLent)
  BY <1>3, <1>4, TotalSame
<1>7. /\ Total(LendsTo(u) \cup {t}, AllLent') = Total(LendsTo(u), AllLent') + AllLent'[t]
      /\ Total(LendsTo(u) \cup {t}, ReadsLent') = Total(LendsTo(u), ReadsLent') + ReadsLent'[t]
  <2>1. LendsTo(u) \subseteq Task /\ t \notin LendsTo(u)
    BY <1>2, <1>3
  <2>2. \A n \in [Task -> Nat] : Total(LendsTo(u) \cup {t}, n) = Total(LendsTo(u), n) + n[t]
    BY <2>1, TotalWith
  <2> QED BY <1>5, <2>2
<1>8. \A v \in Task : LentTo(v) = Total(LendsTo(v), AllLent) /\ LentTo(v) \in Nat /\ LentReads(v) \in Nat
  BY LentTypes, LentNats
<1>9. /\ LentTo(u)' = LentTo(u) + (b.excl + b.read) /\ LentReads(u)' = LentReads(u) + b.read
  BY <1>2, <1>5, <1>6, <1>7, <1>8 DEF LentReads
<1>10. \A v \in Task \ {u} : LentTo(v)' = LentTo(v) /\ LentReads(v)' = LentReads(v)
  BY <1>2, <1>5, <1>6, <1>8 DEF LentReads
<1> QED BY <1>2, <1>9, <1>10

\* A loan ends.
LEMMA LentLess ==
  ASSUME borrows \in Books, borrows' \in Books, NEW t \in Task, NEW u \in Task, phase[t] = "lent", target[t] = u,
         phase' = [phase EXCEPT ![t] = "reclaim"], target' = target,
         phase \in [Task -> {"idle", "lent", "reclaim"}],
         \A x \in Task \ {t} : borrows'[x] = borrows[x]
  PROVE  /\ LendsTo(u)' = LendsTo(u) \ {t} /\ t \in LendsTo(u)
         /\ LentTo(u)' = LentTo(u) - (borrows[t].excl + borrows[t].read)
         /\ LentReads(u)' = LentReads(u) - borrows[t].read
         /\ \A v \in Task \ {u} : /\ LendsTo(v)' = LendsTo(v) /\ LentTo(v)' = LentTo(v)
                                  /\ LentReads(v)' = LentReads(v)
<1>1. /\ LendsTo(u)' = LendsTo(u) \ {t} /\ t \in LendsTo(u)
      /\ \A v \in Task \ {u} : LendsTo(v)' = LendsTo(v) /\ t \notin LendsTo(v)
  BY DEF LendsTo
<1>2. \A v \in Task : LendsTo(v) \subseteq Task
  BY DEF LendsTo
<1>3. \A x \in Task : x # t => AllLent[x]' = AllLent[x] /\ ReadsLent[x]' = ReadsLent[x]
  BY DEF AllLent, ReadsLent, Books
<1>4. /\ \A v \in Task : LentTo(v)' = Total(LendsTo(v)', AllLent')
      /\ \A v \in Task : LentReads(v)' = Total(LendsTo(v)', ReadsLent')
  BY LentShapedNext DEF LentShape, LentReads, Total, Calls
<1>5. \A v \in Task : /\ Total(LendsTo(v) \ {t}, AllLent') = Total(LendsTo(v) \ {t}, AllLent)
                      /\ Total(LendsTo(v) \ {t}, ReadsLent') = Total(LendsTo(v) \ {t}, ReadsLent)
  BY <1>2, <1>3, TotalSame
<1>6. /\ Total(LendsTo(u) \ {t}, AllLent) = Total(LendsTo(u), AllLent) - AllLent[t]
      /\ Total(LendsTo(u) \ {t}, ReadsLent) = Total(LendsTo(u), ReadsLent) - ReadsLent[t]
  BY <1>1, <1>2, LentTypes, TotalWithout
<1>7. /\ \A v \in Task : LentTo(v) = Total(LendsTo(v), AllLent)
      /\ AllLent[t] = borrows[t].excl + borrows[t].read /\ ReadsLent[t] = borrows[t].read
  BY LentTypes
<1>8. /\ LentTo(u)' = LentTo(u) - (borrows[t].excl + borrows[t].read)
      /\ LentReads(u)' = LentReads(u) - borrows[t].read
  BY <1>1, <1>4, <1>5, <1>6, <1>7 DEF LentReads
<1>9. ASSUME NEW v \in Task \ {u}
       PROVE  LentTo(v)' = LentTo(v) /\ LentReads(v)' = LentReads(v)
  <2>1. LendsTo(v) \ {t} = LendsTo(v) /\ LendsTo(v)' = LendsTo(v)
    BY <1>1
  <2> QED BY <1>4, <1>5, <1>7, <2>1 DEF LentReads
<1> QED BY <1>1, <1>8, <1>9

\* Who has lent nothing and borrowed nothing holds what it took.
LEMMA OwnHolds ==
  ASSUME Lending, LockPart, NEW t \in Task, LendsTo(t) = {}
  PROVE  Holding(t) = held[t] /\ LentTo(t) = 0 /\ LentReads(t) = 0
<1>1. LentTo(t) = 0 /\ LentReads(t) = 0
  BY LentTypes, TotalNone DEF Lending, LentReads
<1> QED BY <1>1 DEF Lending, Balance, LockPart, TypeOK

\* The readers, when one task's record goes to another, or just goes.
LEMMA RecordMoved ==
  ASSUME TypeOK, SharedCounted, NEW t \in Task, NEW u \in Task, t # u, readCount[t] > 0,
         Readers' = (Readers \ {t}) \cup {u},
         sharedCount' = IF readCount[u] > 0 THEN sharedCount - 1 ELSE sharedCount
  PROVE  SharedCounted' /\ sharedCount' \in Nat
<1>1. t \in Readers /\ (u \in Readers <=> readCount[u] > 0)
  BY DEF Readers
<1>2. /\ IsFiniteSet(Readers \ {t}) /\ Cardinality(Readers \ {t}) = Cardinality(Readers) - 1
      /\ Cardinality(Readers \ {t}) \in Nat
  BY <1>1, ReadersFinite, FS_RemoveElement, FS_CardinalityType
<1>3. Cardinality((Readers \ {t}) \cup {u}) =
        IF u \in Readers THEN Cardinality(Readers) - 1 ELSE Cardinality(Readers)
  <2>1. u \in Readers <=> u \in Readers \ {t}
    OBVIOUS
  <2>2. /\ IsFiniteSet((Readers \ {t}) \cup {u})
        /\ Cardinality((Readers \ {t}) \cup {u}) =
             IF u \in Readers \ {t} THEN Cardinality(Readers \ {t}) ELSE Cardinality(Readers \ {t}) + 1
    BY <1>2, FS_AddElement
  <2> QED BY <1>2, <2>1, <2>2, ReadersFinite
<1> QED BY <1>1, <1>2, <1>3, ReadersFinite DEF SharedCounted, TypeOK

LEMMA RecordGone ==
  ASSUME TypeOK, SharedCounted, NEW t \in Task, readCount[t] > 0,
         Readers' = Readers \ {t}, sharedCount' = sharedCount - 1
  PROVE  SharedCounted' /\ sharedCount' \in Nat
<1>1. t \in Readers
  BY DEF Readers
<1>2. Cardinality(Readers \ {t}) = Cardinality(Readers) - 1 /\ Cardinality(Readers \ {t}) \in Nat
  BY <1>1, ReadersFinite, FS_RemoveElement, FS_CardinalityType
<1> QED BY <1>2 DEF SharedCounted

-----------------------------------------------------------------------------
\* psdBorrowLocksWait up to its wait: what it does to the lock.
LEMMA LendsLock ==
  ASSUME BInv, ~overtaken, NEW t \in Task, NEW u \in Task, BorrowLocksWait(t, u)
  PROVE  /\ LockPart' /\ Exclusion' /\ Holding(t)' = 0 /\ held' = [held EXCEPT ![t] = 0]
         /\ waiting' = waiting /\ owner \in {t, NoTask}
         /\ Running(u) => /\ Holding(u)' = Holding(u) + ExclOf(t) + readCount[t]
                          /\ readCount'[u] = readCount[u] + readCount[t]
                          /\ ExclOf(t) > 0 => owner' = u /\ exclCount' = exclCount /\ readCount[u] = 0
         /\ ~Running(u) => Holding(u)' = Holding(u) /\ readCount'[u] = readCount[u]
         /\ \A v \in Task \ {t, u} : Holding(v)' = Holding(v) /\ readCount'[v] = readCount[v]
         /\ readCount'[t] = 0
<1> USE NoTaskAssumption
<1>1. /\ Running(t) /\ Holding(t) > 0 /\ u # t /\ LendExcl(t, u) /\ LendRead(t, u) /\ TellTarget(u)
      /\ held' = [held EXCEPT ![t] = 0] /\ waiting' = waiting /\ closed' = closed
  BY DEF BorrowLocksWait
<1>2. LockPart /\ Exclusion /\ Lending
  BY Parts
<1>3. owner = t \/ (owner = NoTask /\ readCount[t] > 0)
  BY <1>1, <1>2 DEF Holding, LockPart, TypeOK, Exclusion, Readers
<1>4. /\ owner = t => \A v \in Task \ {t} : readCount[v] = 0
      /\ exclCount \in Nat /\ (owner = NoTask <=> exclCount = 0)
      /\ \A v \in Task : readCount[v] \in Nat
  BY <1>2 DEF Exclusion, Readers, LockPart, TypeOK, OwnerCounted
<1>5. \/ owner = NoTask /\ owner' = NoTask /\ exclCount' = exclCount
      \/ owner = t /\ ~Running(u) /\ owner' = NoTask /\ exclCount' = 0
      \/ owner = t /\ Running(u) /\ owner' = u /\ exclCount' = exclCount
  BY <1>1, <1>3 DEF LendExcl
<1>6. \/ /\ readCount[t] = 0 /\ readCount' = readCount /\ sharedCount' = sharedCount
         /\ Readers' = Readers
      \/ /\ readCount[t] > 0 /\ ~Running(u) /\ readCount' = [readCount EXCEPT ![t] = 0]
         /\ sharedCount' = sharedCount - 1 /\ Readers' = Readers \ {t}
      \/ /\ readCount[t] > 0 /\ Running(u)
         /\ readCount' = [readCount EXCEPT ![t] = 0, ![u] = @ + readCount[t]]
         /\ sharedCount' = IF readCount[u] > 0 THEN sharedCount - 1 ELSE sharedCount
         /\ Readers' = (Readers \ {t}) \cup {u}
  BY <1>1, <1>2 DEF LendRead, Readers, LockPart, TypeOK
<1>7. SharedCounted' /\ sharedCount' \in Nat
  BY <1>1, <1>2, <1>6, RecordMoved, RecordGone DEF LockPart, SharedCounted, TypeOK
<1>8. /\ readCount' \in [Task -> Nat] /\ readCount'[t] = 0
      /\ Running(u) => readCount'[u] = readCount[u] + readCount[t]
      /\ ~Running(u) => readCount'[u] = readCount[u]
      /\ \A v \in Task \ {t, u} : readCount'[v] = readCount[v]
  BY <1>1, <1>2, <1>4, <1>6 DEF LockPart, TypeOK
<1>9. TypeOK' /\ OwnerCounted'
  BY <1>1, <1>2, <1>4, <1>5, <1>7, <1>8 DEF TellTarget, LockPart, TypeOK, OwnerCounted
<1>10. WaitersLack'
  BY <1>1, <1>2, <1>5, <1>8 DEF LockPart, WaitersLack, Running
<1>11. FreeTold'
  <2>1. CASE Running(u)
    BY <1>3, <1>5, <1>6, <2>1 DEF FreeTold
  <2>2. CASE ~Running(u)
    BY <1>1, <2>2 DEF FreeTold, TellTarget, Running
  <2> QED BY <2>1, <2>2
<1>12. Exclusion'
  BY <1>1, <1>3, <1>4, <1>5, <1>6, <1>8 DEF Exclusion, Readers
<1>13. Holding(t)' = 0
  BY <1>1, <1>5, <1>8 DEF Holding
<1>14. /\ Running(u) => Holding(u)' = Holding(u) + ExclOf(t) + readCount[t]
       /\ ~Running(u) => Holding(u)' = Holding(u)
       /\ \A v \in Task \ {t, u} : Holding(v)' = Holding(v)
  BY <1>1, <1>4, <1>5, <1>8 DEF Holding, ExclOf
<1>15. Running(u) /\ ExclOf(t) > 0 => owner' = u /\ exclCount' = exclCount /\ readCount[u] = 0
  BY <1>1, <1>4, <1>5 DEF ExclOf
<1> QED BY <1>1, <1>2, <1>3, <1>7, <1>8, <1>9, <1>10, <1>11, <1>12, <1>13, <1>14, <1>15 DEF LockPart

\* And what it notes.
LEMMA LendsNotes ==
  ASSUME BInv, ~overtaken, NEW t \in Task, NEW u \in Task, BorrowLocksWait(t, u)
  PROVE  \E b \in [excl : Nat, read : Nat], r \in [excl : Nat, read : Nat] :
           /\ borrows' = [borrows EXCEPT ![t] = b] /\ reclaims' = [reclaims EXCEPT ![t] = r]
           /\ onLoan' = [onLoan EXCEPT ![t] = [excl |-> ExclOf(t), read |-> readCount[t]]]
           /\ Running(u)  => b = [excl |-> ExclOf(t), read |-> readCount[t]] /\ r = Nothing
           /\ ~Running(u) => r = [excl |-> ExclOf(t), read |-> readCount[t]] /\ b = Nothing
           /\ ExclOf(t) \in Nat /\ readCount[t] \in Nat
<1>1. ExclOf(t) \in Nat /\ readCount[t] \in Nat /\ phase[t] = "idle"
  BY DEF ExclOf, BInv, LockPart, TypeOK, BorrowLocksWait
<1>2. [excl |-> ExclOf(t), read |-> readCount[t]] \in [excl : Nat, read : Nat] /\ Nothing \in [excl : Nat, read : Nat]
  BY <1>1 DEF Nothing
<1>3. /\ borrows[t] = Nothing /\ reclaims[t] = Nothing
      /\ borrows \in Books /\ reclaims \in Books
  BY <1>1 DEF BInv, Unlent, LoanTypes, BTypeOK, Books
<1>4. /\ borrows = [borrows EXCEPT ![t] = Nothing]
      /\ reclaims = [reclaims EXCEPT ![t] = Nothing]
  BY <1>3 DEF Books
<1> QED BY <1>1, <1>2, <1>4 DEF BorrowLocksWait

LEMMA BorrowLocksWaitStep ==
  ASSUME BInv, ~overtaken, NEW t \in Task, NEW u \in Task, BorrowLocksWait(t, u)
  PROVE  BInv'
<1> USE NoTaskAssumption
<1>1. /\ Running(t) /\ phase[t] = "idle" /\ u # t /\ phase[u] = "idle" /\ LendsTo(t) = {}
      /\ target' = [target EXCEPT ![t] = u] /\ phase' = [phase EXCEPT ![t] = "lent"]
      /\ overtaken' = overtaken /\ promoted' \subseteq promoted \cup {u}
      /\ u \in promoted' => u \in promoted \/ waiting[u] = "shared"
  BY DEF BorrowLocksWait, Promotes
<1>2. PICK b \in [excl : Nat, read : Nat], r \in [excl : Nat, read : Nat] :
        /\ borrows' = [borrows EXCEPT ![t] = b] /\ reclaims' = [reclaims EXCEPT ![t] = r]
        /\ onLoan' = [onLoan EXCEPT ![t] = [excl |-> ExclOf(t), read |-> readCount[t]]]
        /\ Running(u)  => b = [excl |-> ExclOf(t), read |-> readCount[t]] /\ r = Nothing
        /\ ~Running(u) => r = [excl |-> ExclOf(t), read |-> readCount[t]] /\ b = Nothing
        /\ ExclOf(t) \in Nat /\ readCount[t] \in Nat
  BY LendsNotes
<1>3. LockPart /\ Exclusion /\ Lending
  BY Parts
<1>4. /\ borrows \in Books /\ reclaims \in Books /\ onLoan \in Books
      /\ phase \in [Task -> {"idle", "lent", "reclaim"}]
      /\ target \in [Task -> Task \cup {NoTask}]
      /\ promoted \subseteq {x \in Task : waiting[x] = "shared"}
  BY DEF BInv, LoanTypes, BTypeOK, Books
<1>5. /\ borrows' \in Books /\ LendsTo(u)' = LendsTo(u) \cup {t}
      /\ LentTo(u)' = LentTo(u) + b.excl + b.read /\ LentReads(u)' = LentReads(u) + b.read
      /\ \A v \in Task \ {u} : /\ LendsTo(v)' = LendsTo(v) /\ LentTo(v)' = LentTo(v)
                               /\ LentReads(v)' = LentReads(v)
  <2>1. borrows' \in Books /\ borrows'[t] = b /\ \A x \in Task \ {t} : borrows'[x] = borrows[x]
    BY <1>2, <1>4 DEF Books
  <2>2. /\ LendsTo(u)' = LendsTo(u) \cup {t}
        /\ LentTo(u)' = LentTo(u) + (borrows'[t].excl + borrows'[t].read)
        /\ LentReads(u)' = LentReads(u) + borrows'[t].read
        /\ \A v \in Task \ {u} : /\ LendsTo(v)' = LendsTo(v) /\ LentTo(v)' = LentTo(v)
                                 /\ LentReads(v)' = LentReads(v)
    BY <1>1, <1>4, <2>1, LentMore
  <2>3. LentTo(u) \in Nat /\ b.excl \in Nat /\ b.read \in Nat
    BY <1>4, LentNats
  <2> QED BY <2>1, <2>2, <2>3
<1>6. /\ LockPart' /\ Exclusion' /\ Holding(t)' = 0 /\ held' = [held EXCEPT ![t] = 0]
      /\ waiting' = waiting /\ owner \in {t, NoTask}
      /\ Running(u) => /\ Holding(u)' = Holding(u) + ExclOf(t) + readCount[t]
                       /\ readCount'[u] = readCount[u] + readCount[t]
                       /\ ExclOf(t) > 0 => owner' = u /\ exclCount' = exclCount /\ readCount[u] = 0
      /\ ~Running(u) => Holding(u)' = Holding(u) /\ readCount'[u] = readCount[u]
      /\ \A v \in Task \ {t, u} : Holding(v)' = Holding(v) /\ readCount'[v] = readCount[v]
      /\ readCount'[t] = 0
  BY LendsLock
<1>7. b.excl \in Nat /\ b.read \in Nat /\ (b.excl > 0 => Running(u) /\ b.excl = ExclOf(t) /\ b.read = readCount[t])
  BY <1>2 DEF Nothing
<1>8. NoLoan
  <2> SUFFICES ASSUME NEW w \in Task, borrows[w].excl # 0 PROVE FALSE
    BY DEF NoLoan
  <2>1. owner = t
    BY <1>3, <1>6, NoWriter DEF NoLoan
  <2>2. target[w] = t
    BY <1>3, <2>1, LentTypes DEF Lending, WriterLent
  <2>3. phase[w] = "lent"
    BY <1>4 DEF BInv, Unlent, Lenders, Nothing
  <2> QED BY <1>1, <2>2, <2>3 DEF LendsTo
<1>9. WriterLent'
  <2>1. ASSUME NEW w \in Task, borrows'[w].excl > 0
        PROVE  w = t /\ b.excl > 0 /\ borrows'[w] = b
    BY <1>2, <1>4, <1>8, <2>1 DEF NoLoan, Books
  <2>2. b.excl > 0 => /\ owner' = u /\ exclCount' >= b.excl /\ readCount'[u] = b.read
    BY <1>2, <1>3, <1>6, <1>7 DEF ExclOf, LockPart, TypeOK
  <2>3. target'[t] = u
    BY <1>1, <1>4
  <2> QED BY <2>1, <2>2, <2>3 DEF WriterLent
<1>10. Balance'
  <2> SUFFICES ASSUME NEW v \in Task
      PROVE  Holding(v)' = held'[v] + LentTo(v)' /\ readCount'[v] >= LentReads(v)'
    BY DEF Balance
  <2>1. /\ Holding(v) = held[v] + LentTo(v) /\ readCount[v] >= LentReads(v)
        /\ held[v] \in Nat /\ LentTo(v) \in Nat /\ LentReads(v) \in Nat /\ readCount[v] \in Nat
    BY <1>3, LentNats DEF Lending, Balance, LockPart, TypeOK
  <2>2. held'[t] = 0 /\ \A x \in Task \ {t} : held'[x] = held[x]
    BY <1>3, <1>6 DEF LockPart, TypeOK
  <2>3. CASE v = t
    <3>1. LentTo(t) = 0 /\ LentReads(t) = 0
      BY <1>1, <1>3, OwnHolds
    <3> QED BY <1>1, <1>5, <1>6, <2>2, <2>3, <3>1
  <2>4. CASE v = u /\ Running(u)
    BY <1>1, <1>2, <1>5, <1>6, <2>1, <2>2, <2>4
  <2>5. CASE v = u /\ ~Running(u)
    BY <1>1, <1>2, <1>5, <1>6, <2>1, <2>2, <2>5 DEF Nothing
  <2>6. CASE v \notin {t, u}
    BY <1>5, <1>6, <2>1, <2>2, <2>6
  <2> QED BY <2>3, <2>4, <2>5, <2>6
<1>11. LoanTypes'
  BY <1>1, <1>2, <1>4, <1>5, <1>6 DEF LoanTypes, BTypeOK, Books, LockPart
<1>12. Unlent'
  BY <1>1, <1>2, <1>4 DEF BInv, Unlent, Books
<1>13. Lenders'
  <2> SUFFICES ASSUME NEW v \in Task, phase'[v] # "idle"
      PROVE  /\ LendsTo(v)' = {} /\ v \notin promoted' /\ target'[v] \in Task \ {v}
             /\ phase'[v] = "lent" => Running(v)'
             /\ phase'[v] = "reclaim" => borrows'[v] = Nothing
             /\ borrows'[v] # Nothing => held'[v] = 0
    BY DEF Lenders
  <2>1. CASE v = t
    <3>1. t \notin promoted'
      BY <1>1, <1>4 DEF Running
    <3>2. held'[t] = 0
      BY <1>3, <1>6 DEF LockPart, TypeOK
    <3> QED BY <1>1, <1>4, <1>5, <1>6, <2>1, <3>1, <3>2 DEF Running
  <2>2. CASE v # t
    <3>1. phase[v] # "idle" /\ v # u /\ phase'[v] = phase[v] /\ target'[v] = target[v]
      BY <1>1, <1>4, <2>2
    <3>2. borrows'[v] = borrows[v] /\ held'[v] = held[v]
      BY <1>2, <1>3, <1>4, <1>6, <2>2 DEF Books, LockPart, TypeOK
    <3> QED BY <1>1, <1>5, <1>6, <3>1, <3>2 DEF BInv, Lenders, Running
  <2> QED BY <2>1, <2>2
<1>14. Owed'
  <2> SUFFICES ASSUME NEW v \in Task, phase'[v] # "idle"
      PROVE  /\ Holding(v)' + borrows'[v].excl + borrows'[v].read + reclaims'[v].excl + reclaims'[v].read
                  + (IF Running(v)' THEN 0 ELSE 1) = onLoan'[v].excl + onLoan'[v].read
             /\ onLoan'[v].excl > 0 =>
                  owner' = v \/ borrows'[v].excl > 0 \/ reclaims'[v].excl > 0 \/ waiting'[v] = "excl"
    BY DEF Owed
  <2>1. CASE v = t
    <3>1. /\ borrows'[t] = b /\ reclaims'[t] = r
          /\ onLoan'[t] = [excl |-> ExclOf(t), read |-> readCount[t]]
      BY <1>2, <1>4 DEF Books
    <3>2. Running(t)' /\ Holding(t)' = 0
      BY <1>1, <1>6 DEF Running
    <3>3. CASE Running(u)
      BY <1>2, <2>1, <3>1, <3>2, <3>3 DEF Nothing
    <3>4. CASE ~Running(u)
      BY <1>2, <2>1, <3>1, <3>2, <3>4 DEF Nothing
    <3> QED BY <3>3, <3>4
  <2>2. CASE v # t
    <3>1. phase[v] # "idle" /\ v # u
      BY <1>1, <1>4, <2>2
    <3>2. /\ borrows'[v] = borrows[v] /\ reclaims'[v] = reclaims[v] /\ onLoan'[v] = onLoan[v]
      BY <1>2, <1>4, <2>2 DEF Books
    <3>3. Holding(v)' = Holding(v) /\ Running(v)' = Running(v) /\ waiting'[v] = waiting[v] /\ owner # v
      BY <1>6, <2>2, <3>1 DEF Running
    <3> QED BY <3>1, <3>2, <3>3 DEF BInv, Owed
  <2> QED BY <2>1, <2>2
<1> QED BY <1>1, <1>5, <1>6, <1>9, <1>10, <1>11, <1>12, <1>13, <1>14 DEF BInv


LEMMA BorrowLocksNoMemoryStep ==
  ASSUME BInv, ~overtaken, NEW t \in Task, NEW u \in Task, BorrowLocksNoMemory(t, u)
  PROVE  BInv'
<1> USE NoTaskAssumption
<1>1. /\ Running(t) /\ phase[t] = "idle" /\ u # t /\ phase[u] = "idle" /\ LendsTo(t) = {}
      /\ target' = [target EXCEPT ![t] = u] /\ phase' = [phase EXCEPT ![t] = "lent"]
      /\ overtaken' = overtaken /\ promoted' \subseteq promoted \cup {u}
      /\ u \in promoted' => u \in promoted \/ waiting[u] = "shared"
      /\ borrows' = borrows /\ reclaims' = reclaims
      /\ onLoan' = [onLoan EXCEPT ![t] = [excl |-> ExclOf(t), read |-> readCount[t]]]
  BY DEF BorrowLocksNoMemory, Promotes
<1>2. UNCHANGED <<owner, exclCount, readCount, sharedCount, waiting, signalled, held, closed>>
  BY DEF BorrowLocksNoMemory, vars
<1>3. LockPart /\ Exclusion /\ Lending
  BY Parts
<1>4. /\ borrows \in Books /\ reclaims \in Books /\ onLoan \in Books
      /\ phase \in [Task -> {"idle", "lent", "reclaim"}]
      /\ target \in [Task -> Task \cup {NoTask}]
      /\ promoted \subseteq {x \in Task : waiting[x] = "shared"}
  BY DEF BInv, LoanTypes, BTypeOK, Books
<1>5. borrows[t] = Nothing /\ reclaims[t] = Nothing
  BY <1>1 DEF BInv, Unlent
<1>6. /\ LendsTo(u)' = LendsTo(u) \cup {t}
      /\ \A v \in Task : LentTo(v)' = LentTo(v) /\ LentReads(v)' = LentReads(v)
      /\ \A v \in Task \ {u} : LendsTo(v)' = LendsTo(v)
  <2>1. /\ LendsTo(u)' = LendsTo(u) \cup {t}
        /\ LentTo(u)' = LentTo(u) + (borrows'[t].excl + borrows'[t].read)
        /\ LentReads(u)' = LentReads(u) + borrows'[t].read
        /\ \A v \in Task \ {u} : /\ LendsTo(v)' = LendsTo(v) /\ LentTo(v)' = LentTo(v)
                                 /\ LentReads(v)' = LentReads(v)
    BY <1>1, <1>4, LentMore
  <2>2. LentTo(u) \in Nat /\ LentReads(u) \in Nat /\ borrows'[t].excl = 0 /\ borrows'[t].read = 0
    BY <1>1, <1>4, <1>5, LentNats DEF Nothing
  <2> QED BY <2>1, <2>2
<1>7. LockPart' /\ Exclusion' /\ (\A v \in Task : Holding(v)' = Holding(v))
  BY <1>2, <1>3 DEF LockPart, TypeOK, OwnerCounted, SharedCounted, WaitersLack, FreeTold, Readers,
     Running, Exclusion, Holding
<1>8. WriterLent'
  BY <1>1, <1>2, <1>3, <1>4, <1>5 DEF Lending, WriterLent, Nothing
<1>9. Balance'
  BY <1>2, <1>3, <1>6, <1>7 DEF Lending, Balance
<1>10. ExclOf(t) \in Nat /\ readCount[t] \in Nat
  BY <1>3 DEF ExclOf, LockPart, TypeOK
<1>11. LoanTypes'
  BY <1>1, <1>2, <1>4, <1>7, <1>10 DEF LoanTypes, BTypeOK, Books, LockPart
<1>12. Unlent'
  BY <1>1, <1>4 DEF BInv, Unlent, Books
<1>13. Lenders'
  <2> SUFFICES ASSUME NEW v \in Task, phase'[v] # "idle"
      PROVE  /\ LendsTo(v)' = {} /\ v \notin promoted' /\ target'[v] \in Task \ {v}
             /\ phase'[v] = "lent" => Running(v)'
             /\ phase'[v] = "reclaim" => borrows'[v] = Nothing
             /\ borrows'[v] # Nothing => held'[v] = 0
    BY DEF Lenders
  <2>1. CASE v = t
    <3>1. t \notin promoted'
      BY <1>1, <1>4 DEF Running
    <3> QED BY <1>1, <1>2, <1>4, <1>5, <1>6, <2>1, <3>1 DEF Running
  <2>2. CASE v # t
    <3>1. phase[v] # "idle" /\ v # u /\ phase'[v] = phase[v] /\ target'[v] = target[v]
      BY <1>1, <1>4, <2>2
    <3> QED BY <1>1, <1>2, <1>6, <3>1 DEF BInv, Lenders, Running
  <2> QED BY <2>1, <2>2
<1>14. Owed'
  <2> SUFFICES ASSUME NEW v \in Task, phase'[v] # "idle"
      PROVE  /\ Holding(v)' + borrows'[v].excl + borrows'[v].read + reclaims'[v].excl + reclaims'[v].read
                  + (IF Running(v)' THEN 0 ELSE 1) = onLoan'[v].excl + onLoan'[v].read
             /\ onLoan'[v].excl > 0 =>
                  owner' = v \/ borrows'[v].excl > 0 \/ reclaims'[v].excl > 0 \/ waiting'[v] = "excl"
    BY DEF Owed
  <2>1. CASE v = t
    <3>1. /\ borrows'[t] = Nothing /\ reclaims'[t] = Nothing
          /\ onLoan'[t] = [excl |-> ExclOf(t), read |-> readCount[t]]
      BY <1>1, <1>4, <1>5 DEF Books
    <3>2. Running(t)' /\ Holding(t)' = ExclOf(t) + readCount[t]
      BY <1>1, <1>2, <1>3, <1>7, <1>10 DEF Running, Holding, ExclOf
    <3>3. ExclOf(t) > 0 => owner' = t
      BY <1>2 DEF ExclOf
    <3> QED BY <1>10, <2>1, <3>1, <3>2, <3>3 DEF Nothing
  <2>2. CASE v # t
    <3>1. phase[v] # "idle" /\ onLoan'[v] = onLoan[v]
      BY <1>1, <1>4, <2>2 DEF Books
    <3> QED BY <1>1, <1>2, <1>7, <3>1 DEF BInv, Owed, Running
  <2> QED BY <2>1, <2>2
<1> QED BY <1>1, <1>7, <1>8, <1>9, <1>11, <1>12, <1>13, <1>14 DEF BInv

-----------------------------------------------------------------------------
\* The wait is over: x and y calls come back, the rest of the loan is noted.
ComesBack(t, x, y) ==
  /\ held' = [held EXCEPT ![t] = held[t] + x + y] /\ reclaims' \in Books
  /\ reclaims'[t].excl + x = reclaims[t].excl + borrows[t].excl
  /\ reclaims'[t].read + y = reclaims[t].read + borrows[t].read
  /\ \A v \in Task \ {t} : reclaims'[v] = reclaims[v]

LEMMA TakeBackNotes ==
  ASSUME reclaims \in Books, borrows \in Books, held \in [Task -> Nat], NEW t \in Task, TakeBack(t)
  PROVE  ComesBack(t, IF TakesBackExcl(t) THEN borrows[t].excl ELSE 0,
                      IF TakesBackRead(t) THEN borrows[t].read ELSE 0)
<1> DEFINE x == IF TakesBackExcl(t) THEN borrows[t].excl ELSE 0
           y == IF TakesBackRead(t) THEN borrows[t].read ELSE 0
           a == reclaims[t].excl + borrows[t].excl - x
           r == reclaims[t].read + borrows[t].read - y
<1>1. /\ reclaims[t] \in [excl : Nat, read : Nat] /\ borrows[t] \in [excl : Nat, read : Nat]
      /\ reclaims[t].excl \in Nat /\ reclaims[t].read \in Nat
      /\ borrows[t].excl \in Nat /\ borrows[t].read \in Nat
  BY DEF Books
<1>2. /\ x \in Nat /\ y \in Nat /\ a \in Nat /\ r \in Nat
      /\ a + x = reclaims[t].excl + borrows[t].excl /\ r + y = reclaims[t].read + borrows[t].read
  BY <1>1
<1>3. /\ held' = [held EXCEPT ![t] = held[t] + x + y]
      /\ reclaims' = [reclaims EXCEPT ![t].excl = a, ![t].read = r]
  BY DEF TakeBack
<1> HIDE DEF x, y, a, r
<1>4. reclaims'[t].excl = a /\ reclaims'[t].read = r /\ reclaims'[t] \in [excl : Nat, read : Nat]
  BY <1>1, <1>2, <1>3 DEF Books
<1>5. reclaims' \in Books /\ \A v \in Task \ {t} : reclaims'[v] = reclaims[v]
  BY <1>3, <1>4 DEF Books
<1>6. ComesBack(t, x, y)
  BY <1>2, <1>3, <1>4, <1>5 DEF ComesBack
<1> QED BY <1>6 DEF x, y

\* Two loans of reads are among all of them.
LEMMA TwoReads ==
  ASSUME borrows \in Books, NEW u \in Task, NEW t \in LendsTo(u), NEW w \in LendsTo(u) \ {t}
  PROVE  LentReads(u) >= borrows[t].read + borrows[w].read
<1>1. LendsTo(u) \subseteq Task /\ LendsTo(u) \ {t} \subseteq Task /\ t \in Task /\ w \in Task
  BY DEF LendsTo
<1>2. Total(LendsTo(u) \ {t}, ReadsLent) = Total(LendsTo(u), ReadsLent) - ReadsLent[t]
  BY <1>1, LentTypes, TotalWithout
<1>3. ReadsLent[w] <= Total(LendsTo(u) \ {t}, ReadsLent)
  BY <1>1, LentTypes, TotalWithout
<1>4. /\ ReadsLent[t] = borrows[t].read /\ ReadsLent[w] = borrows[w].read
      /\ borrows[t].read \in Nat /\ borrows[w].read \in Nat
      /\ Total(LendsTo(u), ReadsLent) \in Nat /\ Total(LendsTo(u) \ {t}, ReadsLent) \in Nat
  BY <1>1, LentTypes, CallsFinite
<1> QED BY <1>2, <1>3, <1>4 DEF LentReads

\* A lender that is done waiting, and its borrower u.
Waited(t, u) ==
  /\ phase[t] = "lent" /\ target[t] = u /\ t # u /\ Running(t) /\ t \in LendsTo(u) /\ LendsTo(t) = {}
  /\ borrows[t].excl \in Nat /\ borrows[t].read \in Nat
  /\ readCount[u] \in Nat /\ readCount[t] \in Nat /\ exclCount \in Nat
  /\ readCount[u] >= borrows[t].read
  /\ borrows[t] # Nothing => held[t] = 0 /\ Holding(t) = 0 /\ readCount[t] = 0 /\ owner # t

LEMMA LenderWaited ==
  ASSUME BInv, ~overtaken, NEW t \in Task, TakeBack(t)
  PROVE  target[t] \in Task /\ Waited(t, target[t])
<1> DEFINE u == target[t]
<1>1. phase[t] = "lent"
  BY DEF TakeBack
<1>2. LockPart /\ Exclusion /\ Lending /\ Books = [Task -> [excl : Nat, read : Nat]]
  BY Parts DEF Books
<1>3. /\ Running(t) /\ LendsTo(t) = {} /\ u \in Task \ {t}
      /\ borrows[t] # Nothing => held[t] = 0
  BY <1>1 DEF BInv, Lenders
<1>4. t \in LendsTo(u)
  BY <1>1 DEF LendsTo
<1>5. /\ borrows[t].excl \in Nat /\ borrows[t].read \in Nat
      /\ readCount[u] \in Nat /\ readCount[t] \in Nat /\ exclCount \in Nat
  BY <1>2, <1>3 DEF Lending, LockPart, TypeOK
<1>6. readCount[u] >= borrows[t].read
  <2>1. readCount[u] >= LentReads(u) /\ LentReads(u) \in Nat
    BY <1>2, <1>3, LentNats DEF Lending, Balance
  <2>2. LentReads(u) >= borrows[t].read
    BY <1>2, <1>3, <1>4, ReadsAtLeast DEF Lending
  <2> QED BY <1>5, <2>1, <2>2
<1>7. Holding(t) = held[t]
  BY <1>2, <1>3, OwnHolds
<1>8. Holding(t) = 0 => readCount[t] = 0 /\ owner # t
  BY <1>2, <1>5, NoTaskAssumption DEF Holding, LockPart, OwnerCounted
<1> QED BY <1>1, <1>3, <1>4, <1>5, <1>6, <1>7, <1>8 DEF Waited

\* The ways a loan ends: there was none; the writer's hold comes back, or the
\* target keeps its own share of it; a read record comes back, or what the
\* target adds or owns keeps it from that.
NoneBack(t) == borrows[t] = Nothing /\ ComesBack(t, 0, 0) /\ UNCHANGED lockVars

WriterBack(t, u) ==
  /\ borrows[t].excl > 0 /\ owner = u /\ exclCount = borrows[t].excl /\ readCount[u] = borrows[t].read
  /\ owner' = t /\ exclCount' = exclCount /\ sharedCount' = sharedCount
  /\ readCount' = [readCount EXCEPT ![u] = 0, ![t] = borrows[t].read]
  /\ ComesBack(t, borrows[t].excl, borrows[t].read)

WriterShares(t, u) ==
  /\ borrows[t].excl > 0 /\ owner = u /\ exclCount > borrows[t].excl /\ readCount[u] = borrows[t].read
  /\ owner' = u /\ exclCount' = exclCount - borrows[t].excl
  /\ sharedCount' = IF readCount[u] > 0 THEN sharedCount - 1 ELSE sharedCount
  /\ readCount' = [readCount EXCEPT ![u] = 0]
  /\ ComesBack(t, 0, 0)

ReadsBack(t, u) ==
  /\ borrows[t].excl = 0 /\ borrows[t].read > 0 /\ readCount[u] = borrows[t].read /\ owner = NoTask
  /\ owner' = owner /\ exclCount' = exclCount /\ sharedCount' = sharedCount
  /\ readCount' = [readCount EXCEPT ![u] = 0, ![t] = borrows[t].read]
  /\ ComesBack(t, 0, borrows[t].read)

ReadsStay(t, u) ==
  /\ borrows[t].excl = 0 /\ borrows[t].read > 0 /\ owner \in {u, NoTask}
  /\ readCount[u] = borrows[t].read => owner = u
  /\ owner' = owner /\ exclCount' = exclCount
  /\ sharedCount' = IF readCount[u] = borrows[t].read THEN sharedCount - 1 ELSE sharedCount
  /\ readCount' = [readCount EXCEPT ![u] = readCount[u] - borrows[t].read]
  /\ ComesBack(t, 0, 0)

LEMMA TakeBackCases ==
  ASSUME BInv, ~overtaken, NEW t \in Task, NEW u \in Task, TakeBack(t), target[t] = u, Waited(t, u)
  PROVE  \/ NoneBack(t) \/ WriterBack(t, u) \/ WriterShares(t, u)
         \/ ReadsBack(t, u) \/ ReadsStay(t, u)
<1> DEFINE b == borrows[t]
<1> USE NoTaskAssumption
<1>1. LockPart /\ Exclusion /\ Lending
  BY Parts
<1>2. /\ readCount \in [Task -> Nat] /\ exclCount \in Nat /\ sharedCount \in Nat
      /\ held \in [Task -> Nat] /\ borrows \in Books /\ reclaims \in Books
      /\ u # t /\ b.excl \in Nat /\ b.read \in Nat /\ readCount[u] >= b.read
      /\ b # Nothing => readCount[t] = 0 /\ owner # t
  BY <1>1 DEF LockPart, TypeOK, BInv, LoanTypes, BTypeOK, Books, Waited
<1>3. ComesBack(t, IF TakesBackExcl(t) THEN b.excl ELSE 0, IF TakesBackRead(t) THEN b.read ELSE 0)
  BY <1>2, TakeBackNotes
<1>4. /\ \/ TakesBackExcl(t) /\ owner' = t /\ exclCount' = exclCount
         \/ ~TakesBackExcl(t) /\ exclCount' = exclCount - b.excl /\ owner' = owner
      /\ readCount' = [readCount EXCEPT ![u] = @ - b.read, ![t] = IF TakesBackRead(t) THEN b.read ELSE @]
      /\ sharedCount' = IF b.read > 0 /\ b.read = readCount[u] /\ ~TakesBackRead(t)
                          THEN sharedCount - 1 ELSE sharedCount
      /\ TakesBackExcl(t) <=> b.excl > 0 /\ b.excl = exclCount
      /\ TakesBackRead(t) <=> b.read > 0 /\ b.read = readCount[u] /\ owner' # u
  BY DEF TakeBack, TakeBackExcl, TakeBackRead, TakesBackExcl, TakesBackRead
<1> DEFINE y == IF TakesBackRead(t) THEN b.read ELSE readCount[t]
<1>5. readCount' = [readCount EXCEPT ![u] = readCount[u] - b.read, ![t] = y]
  BY <1>2, <1>4
<1>6. y = readCount[t] => readCount' = [readCount EXCEPT ![u] = readCount[u] - b.read]
  <2> HIDE DEF y
  <2> QED BY <1>2, <1>5
<1>7. CASE b = Nothing
  <2>1. b.excl = 0 /\ b.read = 0
    BY <1>7 DEF Nothing
  <2>2. readCount' = readCount /\ owner' = owner /\ exclCount' = exclCount /\ sharedCount' = sharedCount
    BY <1>2, <1>4, <2>1
  <2>3. ComesBack(t, 0, 0)
    BY <1>3, <1>4, <2>1
  <2> QED BY <1>7, <2>2, <2>3 DEF NoneBack, lockVars
<1>8. CASE b.excl > 0
  <2>1. owner = u /\ exclCount >= b.excl /\ readCount[u] = b.read
    BY <1>1, <1>8 DEF Lending, WriterLent
  <2>2. b # Nothing
    BY <1>8 DEF Nothing
  <2>3. CASE exclCount = b.excl
    <3>1. TakesBackExcl(t) /\ owner' = t /\ exclCount' = exclCount
      BY <1>4, <1>8, <2>3
    <3>2. TakesBackRead(t) <=> b.read > 0
      BY <1>2, <1>4, <2>1, <3>1
    <3>3. /\ readCount' = [readCount EXCEPT ![u] = 0, ![t] = b.read]
          /\ sharedCount' = sharedCount
      <4>1. readCount[u] - b.read = 0 /\ y = b.read
        BY <1>2, <2>1, <2>2, <3>2
      <4>2. sharedCount' = sharedCount
        BY <1>4, <3>2
      <4> HIDE DEF y
      <4> QED BY <1>5, <4>1, <4>2
    <3>4. ComesBack(t, b.excl, b.read)
      BY <1>2, <1>3, <3>1, <3>2
    <3> QED BY <1>8, <2>1, <2>3, <3>1, <3>3, <3>4 DEF WriterBack
  <2>4. CASE exclCount # b.excl
    <3>1. ~TakesBackExcl(t) /\ owner' = u /\ exclCount' = exclCount - b.excl /\ exclCount > b.excl
      BY <1>2, <1>4, <2>1, <2>4
    <3>2. ~TakesBackRead(t)
      BY <1>4, <3>1
    <3>3. /\ readCount' = [readCount EXCEPT ![u] = 0]
          /\ sharedCount' = IF readCount[u] > 0 THEN sharedCount - 1 ELSE sharedCount
      <4>1. readCount[u] - b.read = 0 /\ y = readCount[t]
        BY <1>2, <2>1, <3>2
      <4>2. sharedCount' = IF readCount[u] > 0 THEN sharedCount - 1 ELSE sharedCount
        BY <1>4, <2>1, <3>2
      <4> HIDE DEF y
      <4> QED BY <1>6, <4>1, <4>2
    <3>4. ComesBack(t, 0, 0)
      BY <1>3, <3>1, <3>2
    <3> QED BY <1>8, <2>1, <3>1, <3>3, <3>4 DEF WriterShares
  <2> QED BY <2>3, <2>4
<1>9. CASE b.excl = 0 /\ b.read > 0
  <2>1. ~TakesBackExcl(t) /\ owner' = owner /\ exclCount' = exclCount /\ b # Nothing
    BY <1>2, <1>4, <1>9 DEF Nothing
  <2>2. owner \in {u, NoTask}
    BY <1>1, <1>2, <1>9 DEF Exclusion, Readers, LockPart, TypeOK
  <2>3. CASE readCount[u] = b.read /\ owner = NoTask
    <3>1. TakesBackRead(t)
      BY <1>4, <1>9, <2>1, <2>3
    <3>2. /\ readCount' = [readCount EXCEPT ![u] = 0, ![t] = b.read]
          /\ sharedCount' = sharedCount
      <4>1. readCount[u] - b.read = 0 /\ y = b.read
        BY <1>2, <2>3, <3>1
      <4>2. sharedCount' = sharedCount
        BY <1>4, <3>1
      <4> HIDE DEF y
      <4> QED BY <1>5, <4>1, <4>2
    <3>3. ComesBack(t, 0, b.read)
      BY <1>3, <2>1, <3>1
    <3> QED BY <1>9, <2>1, <2>3, <3>2, <3>3 DEF ReadsBack
  <2>4. CASE readCount[u] = b.read => owner = u
    <3>1. ~TakesBackRead(t)
      BY <1>4, <2>1, <2>4
    <3>2. /\ readCount' = [readCount EXCEPT ![u] = readCount[u] - b.read]
          /\ sharedCount' = IF readCount[u] = b.read THEN sharedCount - 1 ELSE sharedCount
      BY <1>4, <1>9, <1>6, <3>1
    <3>3. ComesBack(t, 0, 0)
      BY <1>3, <2>1, <3>1
    <3> QED BY <1>9, <2>1, <2>2, <2>4, <3>2, <3>3 DEF ReadsStay
  <2> QED BY <2>2, <2>3, <2>4
<1>10. b = Nothing \/ b.excl > 0 \/ (b.excl = 0 /\ b.read > 0)
  <2>1. b \in [excl : Nat, read : Nat]
    BY <1>2 DEF Books
  <2> QED BY <2>1 DEF Nothing
<1> QED BY <1>7, <1>8, <1>9, <1>10

\* What the end of a loan does to the lock and to the books.
Settled(t, u) ==
  /\ LockPart' /\ Exclusion' /\ waiting' = waiting
  /\ Holding(t)' + held[t] = Holding(t) + held'[t]
  /\ Holding(u)' + borrows[t].excl + borrows[t].read = Holding(u)
  /\ readCount'[u] + borrows[t].read = readCount[u]
  /\ readCount'[t] >= readCount[t]
  /\ \A v \in Task \ {t, u} : Holding(v)' = Holding(v) /\ readCount'[v] = readCount[v]
  /\ \A v \in Task \ {u} : owner = v => owner' = v
  /\ \A v \in Task \ {t} : held'[v] = held[v] /\ reclaims'[v] = reclaims[v]
  /\ reclaims' \in Books
  /\ reclaims'[t].excl + reclaims'[t].read + held'[t]
       = reclaims[t].excl + reclaims[t].read + borrows[t].excl + borrows[t].read + held[t]
  /\ borrows[t].excl > 0 => owner' = t \/ reclaims'[t].excl > 0
  /\ reclaims[t].excl > 0 => reclaims'[t].excl > 0
  /\ borrows[t].excl = 0 => owner' = owner /\ exclCount' = exclCount

\* The books, whatever comes back.
LEMMA BooksSettled ==
  ASSUME held \in [Task -> Nat], reclaims \in Books, borrows \in Books,
         NEW t \in Task, NEW x \in Nat, NEW y \in Nat, ComesBack(t, x, y)
  PROVE  /\ held' \in [Task -> Nat] /\ held'[t] = held[t] + (x + y) /\ held[t] \in Nat
         /\ \A v \in Task \ {t} : held'[v] = held[v] /\ reclaims'[v] = reclaims[v]
         /\ reclaims' \in Books
         /\ reclaims'[t].excl + reclaims'[t].read + held'[t]
              = reclaims[t].excl + reclaims[t].read + borrows[t].excl + borrows[t].read + held[t]
         /\ borrows[t].excl > x => reclaims'[t].excl > 0
         /\ reclaims[t].excl > 0 /\ x <= borrows[t].excl => reclaims'[t].excl > 0
<1>1. /\ reclaims'[t].excl \in Nat /\ reclaims'[t].read \in Nat
      /\ reclaims[t].excl \in Nat /\ reclaims[t].read \in Nat
      /\ borrows[t].excl \in Nat /\ borrows[t].read \in Nat
  BY DEF Books, ComesBack
<1>2. held'[t] = held[t] + (x + y) /\ held[t] \in Nat /\ held' \in [Task -> Nat]
  BY DEF ComesBack
<1>3. /\ reclaims'[t].excl + x = reclaims[t].excl + borrows[t].excl
      /\ reclaims'[t].read + y = reclaims[t].read + borrows[t].read
      /\ \A v \in Task \ {t} : held'[v] = held[v] /\ reclaims'[v] = reclaims[v]
      /\ reclaims' \in Books
  BY DEF ComesBack
<1> QED BY <1>1, <1>2, <1>3

LEMMA NoneBackSettles ==
  ASSUME BInv, ~overtaken, NEW t \in Task, NEW u \in Task, Waited(t, u), NoneBack(t),
         UNCHANGED <<waitVars, closed>>
  PROVE  Settled(t, u)
<1>1. LockPart /\ Exclusion /\ Lending /\ reclaims \in Books
  BY Parts DEF BInv, LoanTypes, BTypeOK, Books
<1>2. /\ owner' = owner /\ exclCount' = exclCount /\ readCount' = readCount
      /\ sharedCount' = sharedCount /\ waiting' = waiting /\ signalled' = signalled
      /\ closed' = closed /\ Readers' = Readers
      /\ borrows[t].excl = 0 /\ borrows[t].read = 0
  BY DEF NoneBack, lockVars, waitVars, Readers, Nothing
<1>3. /\ held' \in [Task -> Nat] /\ held'[t] = held[t] /\ held[t] \in Nat
      /\ \A v \in Task \ {t} : held'[v] = held[v] /\ reclaims'[v] = reclaims[v]
      /\ reclaims' \in Books
      /\ reclaims'[t].excl + reclaims'[t].read + held'[t]
           = reclaims[t].excl + reclaims[t].read + borrows[t].excl + borrows[t].read + held[t]
      /\ reclaims[t].excl > 0 => reclaims'[t].excl > 0
  BY <1>1, <1>2, BooksSettled DEF NoneBack, Lending, LockPart, TypeOK
<1>4. LockPart' /\ Exclusion'
  BY <1>1, <1>2, <1>3 DEF LockPart, TypeOK, OwnerCounted, SharedCounted, WaitersLack, FreeTold,
     Running, Exclusion
<1>5. \A v \in Task : Holding(v)' = Holding(v) /\ Holding(v) \in Nat
  BY <1>1, <1>2 DEF Holding, LockPart, TypeOK
<1>6. readCount[t] \in Nat /\ readCount[u] \in Nat
  BY <1>1 DEF LockPart, TypeOK
<1> QED BY <1>2, <1>3, <1>4, <1>5, <1>6 DEF Settled

LEMMA WriterBackSettles ==
  ASSUME BInv, ~overtaken, NEW t \in Task, NEW u \in Task, Waited(t, u), WriterBack(t, u),
         UNCHANGED <<waitVars, closed>>
  PROVE  Settled(t, u)
<1> USE NoTaskAssumption
<1>1. /\ LockPart /\ Exclusion /\ Lending /\ reclaims \in Books /\ borrows[t] # Nothing
      /\ u # t /\ readCount[t] = 0 /\ borrows[t].excl \in Nat /\ borrows[t].read \in Nat
      /\ held[t] = 0 /\ Holding(t) = 0 /\ Running(t)
  BY Parts DEF BInv, LoanTypes, BTypeOK, Books, Nothing, Waited, WriterBack
<1>2. /\ owner = u /\ owner' = t /\ exclCount' = exclCount /\ exclCount = borrows[t].excl
      /\ sharedCount' = sharedCount /\ waiting' = waiting /\ signalled' = signalled /\ closed' = closed
      /\ readCount' = [readCount EXCEPT ![u] = 0, ![t] = borrows[t].read]
      /\ readCount[u] = borrows[t].read /\ borrows[t].excl > 0
  BY DEF WriterBack, waitVars
<1>3. /\ held' \in [Task -> Nat] /\ held'[t] = held[t] + (borrows[t].excl + borrows[t].read)
      /\ \A v \in Task \ {t} : held'[v] = held[v] /\ reclaims'[v] = reclaims[v]
      /\ reclaims' \in Books
      /\ reclaims'[t].excl + reclaims'[t].read + held'[t]
           = reclaims[t].excl + reclaims[t].read + borrows[t].excl + borrows[t].read + held[t]
      /\ reclaims[t].excl > 0 => reclaims'[t].excl > 0
  BY <1>1, BooksSettled DEF WriterBack, Lending, LockPart, TypeOK
<1>4. /\ readCount' \in [Task -> Nat] /\ readCount'[u] = 0 /\ readCount'[t] = borrows[t].read
      /\ \A v \in Task \ {t, u} : readCount'[v] = readCount[v] /\ readCount[v] = 0
  BY <1>1, <1>2 DEF LockPart, TypeOK, Exclusion, Readers
<1>5. SharedCounted' /\ sharedCount' \in Nat
  <2>1. CASE borrows[t].read > 0
    <3>1. Readers' = (Readers \ {u}) \cup {t}
      BY <1>1, <1>4, <2>1 DEF Readers
    <3> QED BY <1>1, <1>2, <2>1, <3>1, RecordMoved DEF LockPart
  <2>2. CASE borrows[t].read = 0
    <3>1. Readers' = Readers
      BY <1>1, <1>2, <1>4, <2>2 DEF Readers
    <3> QED BY <1>1, <1>2, <3>1 DEF LockPart, TypeOK, SharedCounted
  <2> QED BY <1>1, <2>1, <2>2
<1>6. TypeOK' /\ OwnerCounted' /\ WaitersLack' /\ FreeTold' /\ Exclusion'
  <2>1. TypeOK' /\ OwnerCounted' /\ FreeTold'
    BY <1>1, <1>2, <1>3, <1>4, <1>5 DEF LockPart, TypeOK, OwnerCounted, FreeTold
  <2>2. WaitersLack'
    BY <1>1, <1>2, <1>4 DEF LockPart, TypeOK, WaitersLack, Running
  <2>3. Exclusion'
    BY <1>2, <1>4 DEF Exclusion, Readers
  <2> QED BY <2>1, <2>2, <2>3
<1>7. /\ Holding(t)' = borrows[t].excl + borrows[t].read
      /\ Holding(u)' = 0 /\ Holding(u) = borrows[t].excl + borrows[t].read
      /\ \A v \in Task \ {t, u} : Holding(v)' = Holding(v)
  BY <1>1, <1>2, <1>4 DEF Holding, LockPart, TypeOK
<1> QED BY <1>1, <1>2, <1>3, <1>4, <1>5, <1>6, <1>7 DEF Settled, LockPart

LEMMA WriterSharesSettles ==
  ASSUME BInv, ~overtaken, NEW t \in Task, NEW u \in Task, Waited(t, u), WriterShares(t, u),
         UNCHANGED <<waitVars, closed>>
  PROVE  Settled(t, u)
<1> USE NoTaskAssumption
<1>1. /\ LockPart /\ Exclusion /\ Lending /\ reclaims \in Books /\ borrows[t] # Nothing
      /\ u # t /\ readCount[t] = 0 /\ borrows[t].excl \in Nat /\ borrows[t].read \in Nat
      /\ held[t] = 0 /\ Holding(t) = 0 /\ Running(t) /\ exclCount \in Nat
  BY Parts DEF BInv, LoanTypes, BTypeOK, Books, Nothing, Waited, WriterShares, LockPart, TypeOK
<1>2. /\ owner = u /\ owner' = u /\ exclCount' = exclCount - borrows[t].excl
      /\ exclCount > borrows[t].excl /\ borrows[t].excl > 0
      /\ sharedCount' = IF readCount[u] > 0 THEN sharedCount - 1 ELSE sharedCount
      /\ waiting' = waiting /\ signalled' = signalled /\ closed' = closed
      /\ readCount' = [readCount EXCEPT ![u] = 0] /\ readCount[u] = borrows[t].read
  BY DEF WriterShares, waitVars
<1>3. /\ held' \in [Task -> Nat] /\ held'[t] = held[t]
      /\ \A v \in Task \ {t} : held'[v] = held[v] /\ reclaims'[v] = reclaims[v]
      /\ reclaims' \in Books
      /\ reclaims'[t].excl + reclaims'[t].read + held'[t]
           = reclaims[t].excl + reclaims[t].read + borrows[t].excl + borrows[t].read + held[t]
      /\ reclaims'[t].excl > 0
  BY <1>1, <1>2, BooksSettled DEF WriterShares, Lending, LockPart, TypeOK
<1>4. /\ readCount' \in [Task -> Nat] /\ readCount'[u] = 0 /\ readCount'[t] = 0
      /\ \A v \in Task \ {t, u} : readCount'[v] = readCount[v]
  BY <1>1, <1>2 DEF LockPart, TypeOK
<1>5. SharedCounted' /\ sharedCount' \in Nat
  <2>1. Readers' = Readers \ {u} /\ (readCount[u] = 0 => Readers' = Readers)
    BY <1>1, <1>2, <1>4 DEF Readers
  <2>2. CASE readCount[u] > 0
    BY <1>1, <1>2, <2>1, <2>2, RecordGone DEF LockPart
  <2>3. CASE readCount[u] = 0
    <3>1. sharedCount' = sharedCount /\ Readers' = Readers
      BY <1>2, <2>1, <2>3
    <3> QED BY <1>1, <3>1 DEF LockPart, TypeOK, SharedCounted
  <2> QED BY <1>1, <1>2, <2>2, <2>3
<1>6. TypeOK' /\ OwnerCounted' /\ WaitersLack' /\ FreeTold' /\ Exclusion'
  <2>1. TypeOK' /\ OwnerCounted' /\ FreeTold'
    BY <1>1, <1>2, <1>3, <1>4, <1>5 DEF LockPart, TypeOK, OwnerCounted, FreeTold
  <2>2. WaitersLack'
    BY <1>1, <1>2, <1>4 DEF LockPart, TypeOK, WaitersLack, Running
  <2>3. Exclusion'
    BY <1>1, <1>2, <1>4 DEF Exclusion, Readers
  <2> QED BY <2>1, <2>2, <2>3
<1>7. /\ Holding(t)' = 0 /\ Holding(u)' = exclCount - borrows[t].excl
      /\ Holding(u) = exclCount + borrows[t].read
      /\ \A v \in Task \ {t, u} : Holding(v)' = Holding(v)
  BY <1>1, <1>2, <1>4 DEF Holding, LockPart, TypeOK
<1> QED BY <1>1, <1>2, <1>3, <1>4, <1>5, <1>6, <1>7 DEF Settled, LockPart

LEMMA ReadsBackSettles ==
  ASSUME BInv, ~overtaken, NEW t \in Task, NEW u \in Task, Waited(t, u), ReadsBack(t, u),
         UNCHANGED <<waitVars, closed>>
  PROVE  Settled(t, u)
<1> USE NoTaskAssumption
<1>1. /\ LockPart /\ Exclusion /\ Lending /\ reclaims \in Books /\ borrows[t] # Nothing
      /\ u # t /\ readCount[t] = 0 /\ borrows[t].read \in Nat
      /\ held[t] = 0 /\ Holding(t) = 0 /\ Running(t)
  BY Parts DEF BInv, LoanTypes, BTypeOK, Books, Nothing, Waited, ReadsBack
<1>2. /\ owner = NoTask /\ owner' = owner /\ exclCount' = exclCount
      /\ sharedCount' = sharedCount /\ waiting' = waiting /\ signalled' = signalled /\ closed' = closed
      /\ readCount' = [readCount EXCEPT ![u] = 0, ![t] = borrows[t].read]
      /\ readCount[u] = borrows[t].read /\ borrows[t].excl = 0 /\ borrows[t].read > 0
  BY DEF ReadsBack, waitVars
<1>3. /\ held' \in [Task -> Nat] /\ held'[t] = held[t] + (0 + borrows[t].read)
      /\ \A v \in Task \ {t} : held'[v] = held[v] /\ reclaims'[v] = reclaims[v]
      /\ reclaims' \in Books
      /\ reclaims'[t].excl + reclaims'[t].read + held'[t]
           = reclaims[t].excl + reclaims[t].read + borrows[t].excl + borrows[t].read + held[t]
      /\ reclaims[t].excl > 0 => reclaims'[t].excl > 0
  BY <1>1, <1>2, BooksSettled DEF ReadsBack, Lending, LockPart, TypeOK
<1>4. /\ readCount' \in [Task -> Nat] /\ readCount'[u] = 0 /\ readCount'[t] = borrows[t].read
      /\ \A v \in Task \ {t, u} : readCount'[v] = readCount[v]
  BY <1>1, <1>2 DEF LockPart, TypeOK
<1>5. Readers' = (Readers \ {u}) \cup {t}
  BY <1>1, <1>2, <1>4 DEF Readers
<1>6. SharedCounted' /\ sharedCount' \in Nat
  BY <1>1, <1>2, <1>5, RecordMoved DEF LockPart
<1>7. TypeOK' /\ OwnerCounted' /\ WaitersLack' /\ FreeTold' /\ Exclusion'
  <2>1. TypeOK' /\ OwnerCounted' /\ FreeTold' /\ Exclusion'
    BY <1>1, <1>2, <1>3, <1>4, <1>5, <1>6 DEF LockPart, TypeOK, OwnerCounted, FreeTold, Exclusion
  <2>2. WaitersLack'
    BY <1>1, <1>2, <1>4 DEF LockPart, TypeOK, WaitersLack, Running
  <2> QED BY <2>1, <2>2
<1>8. /\ Holding(t)' = borrows[t].read /\ Holding(u)' = 0 /\ Holding(u) = borrows[t].read
      /\ \A v \in Task \ {t, u} : Holding(v)' = Holding(v)
  BY <1>1, <1>2, <1>4 DEF Holding, LockPart, TypeOK
<1> QED BY <1>1, <1>2, <1>3, <1>4, <1>6, <1>7, <1>8 DEF Settled, LockPart

LEMMA ReadsStaySettles ==
  ASSUME BInv, ~overtaken, NEW t \in Task, NEW u \in Task, Waited(t, u), ReadsStay(t, u),
         UNCHANGED <<waitVars, closed>>
  PROVE  Settled(t, u)
<1> USE NoTaskAssumption
<1>1. /\ LockPart /\ Exclusion /\ Lending /\ reclaims \in Books /\ borrows[t] # Nothing
      /\ u # t /\ readCount[t] = 0 /\ borrows[t].read \in Nat /\ readCount[u] \in Nat
      /\ held[t] = 0 /\ Holding(t) = 0 /\ Running(t) /\ readCount[u] >= borrows[t].read
  <2>1. borrows[t] # Nothing
    BY DEF ReadsStay, Nothing
  <2>2. LockPart /\ Exclusion /\ Lending /\ reclaims \in Books
    BY Parts DEF BInv, LoanTypes, BTypeOK, Books
  <2> QED BY <2>1, <2>2 DEF Waited
<1>2. /\ owner \in {u, NoTask} /\ owner' = owner /\ exclCount' = exclCount
      /\ waiting' = waiting /\ signalled' = signalled /\ closed' = closed
      /\ readCount' = [readCount EXCEPT ![u] = readCount[u] - borrows[t].read]
      /\ borrows[t].excl = 0 /\ borrows[t].read > 0
      /\ readCount[u] = borrows[t].read => owner = u
      /\ sharedCount' = IF readCount[u] = borrows[t].read THEN sharedCount - 1 ELSE sharedCount
  BY DEF ReadsStay, waitVars
<1>3. /\ held' \in [Task -> Nat] /\ held'[t] = held[t] + (0 + 0)
      /\ \A v \in Task \ {t} : held'[v] = held[v] /\ reclaims'[v] = reclaims[v]
      /\ reclaims' \in Books
      /\ reclaims'[t].excl + reclaims'[t].read + held'[t]
           = reclaims[t].excl + reclaims[t].read + borrows[t].excl + borrows[t].read + held[t]
      /\ reclaims[t].excl > 0 => reclaims'[t].excl > 0
  BY <1>1, <1>2, BooksSettled DEF ReadsStay, Lending, LockPart, TypeOK
<1>4. /\ readCount' \in [Task -> Nat] /\ readCount'[u] = readCount[u] - borrows[t].read
      /\ readCount'[t] = 0
      /\ \A v \in Task \ {t, u} : readCount'[v] = readCount[v]
  BY <1>1, <1>2 DEF LockPart, TypeOK
<1>5. Readers' = IF readCount[u] = borrows[t].read THEN Readers \ {u} ELSE Readers
  <2>1. CASE readCount[u] = borrows[t].read
    BY <1>1, <1>4, <2>1 DEF Readers
  <2>2. CASE readCount[u] # borrows[t].read
    BY <1>1, <1>4, <2>2 DEF Readers
  <2> QED BY <2>1, <2>2
<1>6. SharedCounted' /\ sharedCount' \in Nat
  <2>1. CASE readCount[u] = borrows[t].read
    <3>1. Readers' = Readers \ {u} /\ sharedCount' = sharedCount - 1 /\ readCount[u] > 0
      BY <1>2, <1>5, <2>1
    <3> QED BY <1>1, <3>1, RecordGone DEF LockPart
  <2>2. CASE readCount[u] # borrows[t].read
    <3>1. Readers' = Readers /\ sharedCount' = sharedCount
      BY <1>2, <1>5, <2>2
    <3> QED BY <1>1, <3>1 DEF LockPart, TypeOK, SharedCounted
  <2> QED BY <2>1, <2>2
<1>7. TypeOK' /\ OwnerCounted' /\ WaitersLack' /\ FreeTold' /\ Exclusion'
  <2>1. TypeOK' /\ OwnerCounted'
    BY <1>1, <1>2, <1>3, <1>4, <1>6 DEF LockPart, TypeOK, OwnerCounted
  <2>2. WaitersLack'
    BY <1>1, <1>2, <1>4 DEF LockPart, TypeOK, WaitersLack, Running
  <2>3. FreeTold' /\ Exclusion'
    BY <1>1, <1>2, <1>5 DEF LockPart, FreeTold, Exclusion, Running
  <2> QED BY <2>1, <2>2, <2>3
<1>8. /\ Holding(t)' = 0 /\ Holding(u)' + borrows[t].read = Holding(u)
      /\ \A v \in Task \ {t, u} : Holding(v)' = Holding(v)
  BY <1>1, <1>2, <1>4 DEF Holding, LockPart, TypeOK, OwnerCounted
<1>9. Holding(u) \in Nat /\ Holding(u)' \in Nat
  BY <1>1, <1>2, <1>4 DEF Holding, LockPart, TypeOK
<1> QED BY <1>1, <1>2, <1>3, <1>4, <1>6, <1>7, <1>8, <1>9 DEF Settled, LockPart

LEMMA TakeBackSettles ==
  ASSUME BInv, ~overtaken, NEW t \in Task, NEW u \in Task, TakeBack(t), target[t] = u, Waited(t, u)
  PROVE  Settled(t, u)
<1>1. UNCHANGED <<waitVars, closed>>
  BY DEF TakeBack
<1>2. \/ NoneBack(t) \/ WriterBack(t, u) \/ WriterShares(t, u) \/ ReadsBack(t, u) \/ ReadsStay(t, u)
  BY TakeBackCases
<1> QED BY <1>1, <1>2, NoneBackSettles, WriterBackSettles, WriterSharesSettles, ReadsBackSettles,
     ReadsStaySettles

LEMMA TakeBackStep ==
  ASSUME BInv, ~overtaken, NEW t \in Task, TakeBack(t)
  PROVE  BInv'
<1>1. PICK u \in Task : target[t] = u /\ Waited(t, u)
  BY LenderWaited
<1>2. Settled(t, u)
  BY <1>1, TakeBackSettles
<1>3. /\ u = target[t] /\ phase[t] = "lent" /\ t # u /\ LendsTo(t) = {} /\ t \in LendsTo(u)
      /\ Running(t) /\ borrows[t].excl \in Nat /\ borrows[t].read \in Nat
  BY <1>1 DEF Waited
<1>4. /\ borrows' = [borrows EXCEPT ![t] = Nothing] /\ phase' = [phase EXCEPT ![t] = "reclaim"]
      /\ target' = target /\ promoted' = promoted /\ onLoan' = onLoan /\ overtaken' = overtaken
  BY DEF TakeBack
<1>5. /\ borrows \in Books /\ reclaims \in Books /\ onLoan \in Books
      /\ phase \in [Task -> {"idle", "lent", "reclaim"}]
      /\ target \in [Task -> Task \cup {NoTask}]
      /\ promoted \subseteq {x \in Task : waiting[x] = "shared"}
      /\ readCount \in [Task -> Nat] /\ held \in [Task -> Nat] /\ readCount' \in [Task -> Nat]
      /\ LockPart /\ Lending
  BY <1>2, Parts DEF BInv, LoanTypes, BTypeOK, Books, LockPart, TypeOK, Settled
<1>6. /\ borrows' \in Books
      /\ LendsTo(u)' = LendsTo(u) \ {t}
      /\ LentTo(u)' = LentTo(u) - (borrows[t].excl + borrows[t].read)
      /\ LentReads(u)' = LentReads(u) - borrows[t].read
      /\ \A v \in Task \ {u} : /\ LendsTo(v)' = LendsTo(v) /\ LentTo(v)' = LentTo(v)
                               /\ LentReads(v)' = LentReads(v)
  <2>1. /\ borrows \in Books /\ phase \in [Task -> {"idle", "lent", "reclaim"}]
        /\ phase[t] = "lent" /\ target[t] = u /\ target' = target
        /\ phase' = [phase EXCEPT ![t] = "reclaim"]
        /\ borrows' \in Books /\ \A v \in Task \ {t} : borrows'[v] = borrows[v]
    BY <1>3, <1>4, <1>5 DEF Books, Nothing
  <2> QED BY <1>1, <2>1, LentLess
<1>7. borrows'[t] = Nothing /\ \A v \in Task \ {t} : borrows'[v] = borrows[v]
  BY <1>4, <1>5 DEF Books
<1>8. WriterLent'
  <2> SUFFICES ASSUME NEW w \in Task, borrows'[w].excl > 0
      PROVE  /\ owner' = target[w] /\ exclCount' >= borrows'[w].excl
             /\ readCount'[target[w]] = borrows'[w].read
             /\ \A x \in Task : borrows'[x].excl > 0 => x = w
    BY <1>4 DEF WriterLent
  <2>1. w # t /\ borrows'[w] = borrows[w] /\ borrows[w].excl > 0
    BY <1>7 DEF Nothing
  <2>2. /\ owner = target[w] /\ exclCount >= borrows[w].excl /\ readCount[owner] = borrows[w].read
        /\ \A x \in Task : borrows[x].excl > 0 => x = w
    BY <1>5, <2>1 DEF Lending, WriterLent
  <2>3. borrows[t].excl = 0 /\ owner' = owner /\ exclCount' = exclCount
    BY <1>2, <1>3, <2>1, <2>2 DEF Settled
  <2>4. phase[w] = "lent" /\ owner \in Task
    BY <1>5, <2>1, <2>2 DEF BInv, Unlent, Lenders, Nothing
  <2>5. readCount'[owner] = readCount[owner]
    <3>1. CASE owner = u
      <4>1. w \in LendsTo(u) \ {t}
        BY <2>1, <2>2, <2>4, <3>1 DEF LendsTo
      <4>2. LentReads(u) >= borrows[t].read + borrows[w].read
        BY <1>1, <1>3, <1>5, <4>1, TwoReads
      <4>3. readCount[u] >= LentReads(u) /\ LentReads(u) \in Nat /\ borrows[w].read \in Nat
        BY <1>1, <1>5, LentNats, LentTypes DEF Lending, Balance
      <4>4. borrows[t].read = 0
        BY <1>1, <1>3, <1>5, <2>2, <3>1, <4>2, <4>3
      <4> QED BY <1>1, <1>2, <1>5, <3>1, <4>4 DEF Settled
    <3>2. CASE owner # u
      <4>1. owner # t
        BY <1>3, <2>2, <2>4 DEF LendsTo
      <4> QED BY <1>2, <2>4, <3>2, <4>1 DEF Settled
    <3> QED BY <3>1, <3>2
  <2>6. ASSUME NEW x \in Task, borrows'[x].excl > 0
        PROVE  x = w
    <3>1. x # t
      BY <1>7, <2>6 DEF Nothing
    <3> QED BY <1>7, <2>2, <2>6, <3>1
  <2> QED BY <2>1, <2>2, <2>3, <2>5, <2>6
<1>9. Balance'
  <2> SUFFICES ASSUME NEW v \in Task
      PROVE  Holding(v)' = held'[v] + LentTo(v)' /\ readCount'[v] >= LentReads(v)'
    BY DEF Balance
  <2>1. /\ Holding(v) = held[v] + LentTo(v) /\ readCount[v] >= LentReads(v)
        /\ held[v] \in Nat /\ LentTo(v) \in Nat /\ LentReads(v) \in Nat /\ readCount[v] \in Nat
    BY <1>5, LentNats DEF Lending, Balance
  <2>2. /\ held'[v] \in Nat /\ Holding(v)' \in Nat /\ readCount'[v] \in Nat
    BY <1>2 DEF Settled, LockPart, TypeOK, Holding
  <2>3. CASE v = t
    <3>1. /\ Holding(t)' + held[t] = Holding(t) + held'[t] /\ readCount'[t] >= readCount[t]
          /\ LentTo(t)' = LentTo(t) /\ LentReads(t)' = LentReads(t)
      BY <1>2, <1>3, <1>6 DEF Settled
    <3> QED BY <2>1, <2>2, <2>3, <3>1
  <2>4. CASE v = u
    <3>1. /\ Holding(u)' + borrows[t].excl + borrows[t].read = Holding(u)
          /\ readCount'[u] + borrows[t].read = readCount[u] /\ held'[u] = held[u]
      BY <1>1, <1>2, <1>3 DEF Settled
    <3>2. /\ LentTo(u)' = LentTo(u) - (borrows[t].excl + borrows[t].read)
          /\ LentReads(u)' = LentReads(u) - borrows[t].read
          /\ borrows[t].excl \in Nat /\ borrows[t].read \in Nat
      BY <1>3, <1>6
    <3>3. /\ Holding(u) = held[u] + LentTo(u) /\ readCount[u] >= LentReads(u)
          /\ held[u] \in Nat /\ LentTo(u) \in Nat /\ LentReads(u) \in Nat /\ readCount[u] \in Nat
          /\ Holding(u)' \in Nat /\ readCount'[u] \in Nat
      BY <2>1, <2>2, <2>4
    <3>4. Holding(u)' = held'[u] + LentTo(u)' /\ readCount'[u] >= LentReads(u)'
      BY <3>1, <3>2, <3>3
    <3> QED BY <2>4, <3>4
  <2>5. CASE v \notin {t, u}
    BY <1>2, <1>6, <2>1, <2>5 DEF Settled
  <2> QED BY <2>3, <2>4, <2>5
<1>10. LoanTypes'
  BY <1>2, <1>4, <1>5, <1>6 DEF LoanTypes, BTypeOK, Books, Settled, LockPart
<1>11. Unlent'
  <2> SUFFICES ASSUME NEW v \in Task, phase'[v] = "idle"
      PROVE  borrows'[v] = Nothing /\ reclaims'[v] = Nothing /\ onLoan'[v] = Nothing
    BY DEF Unlent
  <2>1. v # t /\ phase[v] = "idle"
    BY <1>4, <1>5
  <2> QED BY <1>2, <1>4, <1>7, <2>1 DEF BInv, Unlent, Settled
<1>12. Lenders'
  <2> SUFFICES ASSUME NEW v \in Task, phase'[v] # "idle"
      PROVE  /\ LendsTo(v)' = {} /\ v \notin promoted' /\ target'[v] \in Task \ {v}
             /\ phase'[v] = "lent" => Running(v)'
             /\ phase'[v] = "reclaim" => borrows'[v] = Nothing
             /\ borrows'[v] # Nothing => held'[v] = 0
    BY DEF Lenders
  <2>1. phase[v] # "idle" /\ (v # t => phase'[v] = phase[v])
    BY <1>3, <1>4, <1>5
  <2>2. /\ LendsTo(v) = {} /\ v \notin promoted /\ target[v] \in Task \ {v}
        /\ phase[v] = "lent" => Running(v)
        /\ phase[v] = "reclaim" => borrows[v] = Nothing
        /\ borrows[v] # Nothing => held[v] = 0
    BY <2>1 DEF BInv, Lenders
  <2>3. v # u /\ LendsTo(v)' = {}
    BY <1>3, <1>6, <2>2
  <2>4. CASE v = t
    BY <1>3, <1>4, <1>5, <1>7, <2>2, <2>3, <2>4
  <2>5. CASE v # t
    BY <1>2, <1>4, <1>7, <2>1, <2>2, <2>3, <2>5 DEF Settled, Running
  <2> QED BY <2>4, <2>5
<1>13. Owed'
  <2> SUFFICES ASSUME NEW v \in Task, phase'[v] # "idle"
      PROVE  /\ Holding(v)' + borrows'[v].excl + borrows'[v].read + reclaims'[v].excl + reclaims'[v].read
                  + (IF Running(v)' THEN 0 ELSE 1) = onLoan'[v].excl + onLoan'[v].read
             /\ onLoan'[v].excl > 0 =>
                  owner' = v \/ borrows'[v].excl > 0 \/ reclaims'[v].excl > 0 \/ waiting'[v] = "excl"
    BY DEF Owed
  <2>1. phase[v] # "idle" /\ v # u
    BY <1>3, <1>4, <1>5 DEF BInv, Lenders
  <2>2. /\ Holding(v) + borrows[v].excl + borrows[v].read + reclaims[v].excl + reclaims[v].read
             + (IF Running(v) THEN 0 ELSE 1) = onLoan[v].excl + onLoan[v].read
        /\ onLoan[v].excl > 0 =>
             owner = v \/ borrows[v].excl > 0 \/ reclaims[v].excl > 0 \/ waiting[v] = "excl"
    BY <2>1 DEF BInv, Owed
  <2>3. CASE v = t
    <3>1. /\ Holding(t)' + held[t] = Holding(t) + held'[t]
          /\ reclaims'[t].excl + reclaims'[t].read + held'[t]
               = reclaims[t].excl + reclaims[t].read + borrows[t].excl + borrows[t].read + held[t]
          /\ borrows[t].excl > 0 => owner' = t \/ reclaims'[t].excl > 0
          /\ reclaims[t].excl > 0 => reclaims'[t].excl > 0
          /\ owner = t => owner' = t
          /\ waiting'[t] = waiting[t] /\ (Running(t)' <=> Running(t))
      BY <1>2, <1>3 DEF Settled, Running
    <3>2. /\ Holding(t) \in Nat /\ Holding(t)' \in Nat /\ held[t] \in Nat /\ held'[t] \in Nat
          /\ reclaims[t].excl \in Nat /\ reclaims[t].read \in Nat
          /\ reclaims'[t].excl \in Nat /\ reclaims'[t].read \in Nat
      BY <1>2, <1>5 DEF Settled, LockPart, TypeOK, Holding, Books
    <3>3. borrows'[t].excl = 0 /\ borrows'[t].read = 0 /\ onLoan' = onLoan
      BY <1>4, <1>7 DEF Nothing
    <3>4. Holding(t)' + borrows'[t].excl + borrows'[t].read + reclaims'[t].excl + reclaims'[t].read
            + (IF Running(t)' THEN 0 ELSE 1) = onLoan'[t].excl + onLoan'[t].read
      BY <1>3, <2>2, <2>3, <3>1, <3>2, <3>3
    <3>5. onLoan'[t].excl > 0 => owner' = t \/ reclaims'[t].excl > 0 \/ waiting'[t] = "excl"
      BY <2>2, <2>3, <3>1, <3>3
    <3> QED BY <2>3, <3>4, <3>5
  <2>4. CASE v # t
    <3>1. /\ Holding(v)' = Holding(v) /\ borrows'[v] = borrows[v] /\ reclaims'[v] = reclaims[v]
          /\ onLoan' = onLoan /\ waiting' = waiting /\ (Running(v)' <=> Running(v))
          /\ owner = v => owner' = v
      BY <1>2, <1>4, <1>7, <2>1, <2>4 DEF Settled, Running
    <3> QED BY <2>2, <3>1
  <2> QED BY <2>3, <2>4
<1> QED BY <1>2, <1>4, <1>8, <1>9, <1>10, <1>11, <1>12, <1>13 DEF BInv, Settled

-----------------------------------------------------------------------------
\* Reclaiming one lock call.
LEMMA NotesReclaimed ==
  ASSUME BInv, NEW t \in Task, phase[t] = "reclaim", Running(t), Elsewhere(t), TypeOK',
         UNCHANGED <<target, phase, borrows, onLoan, promoted>>,
         reclaims' \in Books, \A v \in Task \ {t} : reclaims'[v] = reclaims[v],
         Holding(t)' + (IF Running(t)' THEN 0 ELSE 1) = Holding(t) + 1,
         reclaims'[t].excl + reclaims'[t].read + 1 = reclaims[t].excl + reclaims[t].read,
         owner = t => owner' = t,
         reclaims[t].excl > 0 => reclaims'[t].excl > 0 \/ owner' = t \/ waiting'[t] = "excl"
  PROVE  LoanTypes' /\ Unlent' /\ Lenders' /\ Owed'
<1>1. \A u \in Task : LendsTo(u)' = LendsTo(u)
  BY LentSame
<1>2. t \notin promoted /\ borrows[t] = Nothing
  BY DEF BInv, Lenders
<1>3. LoanTypes'
  BY <1>2 DEF BInv, LoanTypes, BTypeOK, Books, Elsewhere
<1>4. Unlent'
  <2> SUFFICES ASSUME NEW u \in Task, phase[u] = "idle"
      PROVE  borrows[u] = Nothing /\ reclaims'[u] = Nothing /\ onLoan[u] = Nothing
    BY DEF Unlent
  <2> QED BY DEF BInv, Unlent
<1>5. Lenders'
  BY <1>1, <1>2 DEF BInv, Lenders, Elsewhere, Running
<1>6. Owed'
  <2> SUFFICES ASSUME NEW u \in Task, phase[u] # "idle"
      PROVE  /\ Holding(u)' + borrows[u].excl + borrows[u].read + reclaims'[u].excl + reclaims'[u].read
                  + (IF Running(u)' THEN 0 ELSE 1) = onLoan[u].excl + onLoan[u].read
             /\ onLoan[u].excl > 0 =>
                  owner' = u \/ borrows[u].excl > 0 \/ reclaims'[u].excl > 0 \/ waiting'[u] = "excl"
    BY DEF Owed
  <2>1. /\ Holding(u) + borrows[u].excl + borrows[u].read + reclaims[u].excl + reclaims[u].read
             + (IF Running(u) THEN 0 ELSE 1) = onLoan[u].excl + onLoan[u].read
        /\ onLoan[u].excl > 0 =>
             owner = u \/ borrows[u].excl > 0 \/ reclaims[u].excl > 0 \/ waiting[u] = "excl"
    BY DEF BInv, Owed
  <2>2. /\ Holding(u) \in Nat /\ borrows[u].excl \in Nat /\ borrows[u].read \in Nat
        /\ reclaims[u].excl \in Nat /\ reclaims[u].read \in Nat /\ Holding(u)' \in Nat
        /\ reclaims'[u].excl \in Nat /\ reclaims'[u].read \in Nat
    BY DEF BInv, LoanTypes, BTypeOK, TypeOK, Holding, Books
  <2>3. CASE u = t
    BY <2>1, <2>2, <2>3 DEF Running
  <2>4. CASE u # t
    BY <2>1, <2>4 DEF Elsewhere, Running
  <2> QED BY <2>3, <2>4
<1> QED BY <1>3, <1>4, <1>5, <1>6

LEMMA ReclaimStep ==
  ASSUME BInv, ~overtaken, NEW t \in Task, Reclaim(t)
  PROVE  BInv'
<1>1. /\ phase[t] = "reclaim" /\ Running(t) /\ overtaken' = overtaken
      /\ UNCHANGED <<target, phase, borrows, onLoan, promoted>>
  BY DEF Reclaim, InForbid
<1>2. /\ LockPart /\ Lending /\ Exclusion /\ reclaims \in Books
      /\ reclaims[t] \in [excl : Nat, read : Nat]
      /\ reclaims[t].excl \in Nat /\ reclaims[t].read \in Nat
  BY Parts DEF BInv, LoanTypes, BTypeOK, Books
<1>3. CASE /\ reclaims[t].read > 0
           /\ \E allocated \in BOOLEAN : LockSemShared(t, allocated)
           /\ reclaims' = [reclaims EXCEPT ![t].read = @ - 1]
  <2>1. Goes(t) /\ (Answered(t) \/ Put(t, "excl") \/ Put(t, "shared"))
    BY <1>1, <1>2, <1>3, LockSemSharedGoes
  <2>2. /\ reclaims' \in Books /\ reclaims'[t].excl = reclaims[t].excl
        /\ reclaims'[t].read = reclaims[t].read - 1
        /\ \A v \in Task \ {t} : reclaims'[v] = reclaims[v]
    BY <1>2, <1>3 DEF Books
  <2>3. Holding(t)' + (IF Running(t)' THEN 0 ELSE 1) = Holding(t) + 1
    BY <1>2, <2>1 DEF Answered, Put, Running, Holding, LockPart, TypeOK
  <2>4. LoanTypes' /\ Unlent' /\ Lenders' /\ Owed'
    <3>1. /\ Elsewhere(t) /\ TypeOK' /\ (owner = t => owner' = t)
          /\ reclaims'[t].excl + reclaims'[t].read + 1 = reclaims[t].excl + reclaims[t].read
          /\ reclaims[t].excl > 0 => reclaims'[t].excl > 0
      BY <1>2, <1>3, <2>1, <2>2 DEF Goes, LockPart
    <3> QED BY <1>1, <2>2, <2>3, <3>1, NotesReclaimed
  <2> QED BY <1>1, <2>1, <2>4, Whole DEF Goes
<1>4. CASE /\ reclaims[t].read = 0 /\ reclaims[t].excl > 0
           /\ LockSemExcl(t)
           /\ reclaims' = [reclaims EXCEPT ![t].excl = @ - 1]
  <2>1. Goes(t) /\ ((Answered(t) /\ owner' = t) \/ Put(t, "excl"))
    BY <1>1, <1>2, <1>4, LockSemExclGoes
  <2>2. /\ reclaims' \in Books /\ reclaims'[t].read = reclaims[t].read
        /\ reclaims'[t].excl = reclaims[t].excl - 1
        /\ \A v \in Task \ {t} : reclaims'[v] = reclaims[v]
    BY <1>2, <1>4 DEF Books
  <2>3. Holding(t)' + (IF Running(t)' THEN 0 ELSE 1) = Holding(t) + 1
    BY <1>2, <2>1 DEF Answered, Put, Running, Holding, LockPart, TypeOK
  <2>4. owner' = t \/ waiting'[t] = "excl"
    BY <2>1 DEF Put
  <2>5. LoanTypes' /\ Unlent' /\ Lenders' /\ Owed'
    <3>1. /\ Elsewhere(t) /\ TypeOK' /\ (owner = t => owner' = t)
          /\ reclaims'[t].excl + reclaims'[t].read + 1 = reclaims[t].excl + reclaims[t].read
      BY <1>2, <1>4, <2>1, <2>2 DEF Goes, LockPart
    <3> QED BY <1>1, <2>2, <2>3, <2>4, <3>1, NotesReclaimed
  <2> QED BY <1>1, <2>1, <2>5, Whole DEF Goes
<1> QED BY <1>3, <1>4 DEF Reclaim

LEMMA BorrowReturnsStep ==
  ASSUME BInv, ~overtaken, NEW t \in Task, BorrowReturns(t)
  PROVE  BInv'
<1>1. /\ phase[t] = "reclaim" /\ reclaims[t] = Nothing /\ borrows' = borrows /\ reclaims' = reclaims
      /\ phase' = [phase EXCEPT ![t] = "idle"] /\ target' = [target EXCEPT ![t] = NoTask]
      /\ onLoan' = [onLoan EXCEPT ![t] = Nothing] /\ promoted' = promoted /\ overtaken' = overtaken
      /\ UNCHANGED <<owner, exclCount, readCount, sharedCount, waiting, signalled, held, closed>>
  BY DEF BorrowReturns, InForbid, vars
<1>2. borrows[t] = Nothing
  BY <1>1 DEF BInv, Lenders
<1>3. /\ borrows \in Books /\ reclaims \in Books /\ onLoan \in Books
      /\ phase \in [Task -> {"idle", "lent", "reclaim"}]
      /\ target \in [Task -> Task \cup {NoTask}]
      /\ LockPart /\ Exclusion /\ Lending
  BY Parts DEF BInv, LoanTypes, BTypeOK, Books
<1>4. \A v \in Task : LendsTo(v)' = LendsTo(v)
  BY <1>1, <1>3 DEF LendsTo
<1>5. \A v \in Task : LentTo(v)' = LentTo(v) /\ LentReads(v)' = LentReads(v)
  BY <1>1, <1>4 DEF LentTo, LentReads, ReadsLent
<1>6. LockPart' /\ Exclusion' /\ (\A v \in Task : Holding(v)' = Holding(v))
  BY <1>1, <1>3 DEF LockPart, TypeOK, OwnerCounted, SharedCounted, WaitersLack, FreeTold, Readers,
     Running, Exclusion, Holding
<1>7. WriterLent'
  BY <1>1, <1>2, <1>3 DEF Lending, WriterLent, Nothing
<1>8. Balance'
  BY <1>1, <1>3, <1>5, <1>6 DEF Lending, Balance
<1>9. LoanTypes'
  BY <1>1, <1>3, <1>6 DEF BInv, LoanTypes, BTypeOK, Books, LockPart, Nothing
<1>10. Unlent'
  BY <1>1, <1>2, <1>3 DEF BInv, Unlent, Books
<1>11. Lenders'
  BY <1>1, <1>3, <1>4 DEF BInv, Lenders, Running
<1>12. Owed'
  <2> SUFFICES ASSUME NEW v \in Task, phase'[v] # "idle"
      PROVE  /\ Holding(v)' + borrows'[v].excl + borrows'[v].read + reclaims'[v].excl + reclaims'[v].read
                  + (IF Running(v)' THEN 0 ELSE 1) = onLoan'[v].excl + onLoan'[v].read
             /\ onLoan'[v].excl > 0 =>
                  owner' = v \/ borrows'[v].excl > 0 \/ reclaims'[v].excl > 0 \/ waiting'[v] = "excl"
    BY DEF Owed
  <2>1. v # t /\ phase[v] # "idle" /\ onLoan'[v] = onLoan[v]
    BY <1>1, <1>3 DEF Books
  <2> QED BY <1>1, <1>6, <2>1 DEF BInv, Owed, Running
<1> QED BY <1>1, <1>6, <1>7, <1>8, <1>9, <1>10, <1>11, <1>12 DEF BInv

-----------------------------------------------------------------------------
LEMMA BInvInit == BInit => BInv
<1> SUFFICES ASSUME BInit PROVE BInv
  OBVIOUS
<1>1. Init /\ LockInv /\ \A v \in Task : phase[v] = "idle"
  BY LockInvInit DEF BInit
<1>2. borrows = [v \in Task |-> Nothing] /\ reclaims = borrows /\ onLoan = borrows /\ borrows \in Books
  BY DEF BInit, Nothing, Books
<1>3. LockPart /\ Exclusion
  BY <1>1 DEF LockInv, LockPart, FreeTold, Running, Init
<1>4. \A v \in Task : LendsTo(v) = {}
  BY <1>1 DEF LendsTo
<1>5. \A v \in Task : LentTo(v) = 0 /\ LentReads(v) = 0
  BY <1>2, <1>4, LentTypes, TotalNone DEF LentReads
<1>6. Balance
  BY <1>1, <1>3, <1>5 DEF Balance, Init, Holding, LockPart, TypeOK
<1>7. WriterLent /\ Unlent /\ Lenders /\ Owed
  BY <1>1, <1>2 DEF WriterLent, Unlent, Lenders, Owed, Nothing
<1>8. LoanTypes
  BY <1>1, <1>2 DEF LoanTypes, BTypeOK, BInit, LockInv, Nothing, Books
<1> QED BY <1>3, <1>6, <1>7, <1>8 DEF BInv

LEMMA BInvStep ==
  ASSUME BInv, [BNext]_bVars
  PROVE  BInv'
<1>1. CASE BNext
  <2>1. ~overtaken
    BY <1>1 DEF BNext
  <2>2. PICK t \in Task :
          \/ BLock(t) \/ BUnlock(t) \/ BWake(t) \/ WakePromoted(t)
          \/ \E u \in Task : BorrowLocksWait(t, u) \/ BorrowLocksNoMemory(t, u)
          \/ TakeBack(t) \/ Reclaim(t) \/ BorrowReturns(t)
    BY <1>1 DEF BNext
  <2> QED BY <2>1, <2>2, BLockStep, BUnlockStep, BWakeStep, WakePromotedStep, BorrowLocksWaitStep,
       BorrowLocksNoMemoryStep, TakeBackStep, ReclaimStep, BorrowReturnsStep
<1>2. CASE UNCHANGED bVars
  <2>1. UNCHANGED <<owner, exclCount, readCount, sharedCount, waiting, signalled, held, closed,
                    target, phase, borrows, reclaims, onLoan, promoted, overtaken>>
    BY <1>2 DEF bVars, vars, loanVars
  <2>2. \A v \in Task : /\ LendsTo(v)' = LendsTo(v) /\ LentTo(v)' = LentTo(v)
                        /\ LentReads(v)' = LentReads(v)
    BY <2>1, LentSame
  <2>3. (LockPart /\ (overtaken \/ Exclusion))'
    BY <2>1 DEF BInv, LockPart, TypeOK, OwnerCounted, SharedCounted, WaitersLack, FreeTold, Readers,
       Running, Exclusion
  <2>4. (LoanTypes /\ WriterLent /\ Unlent)'
    BY <2>1, <2>3 DEF BInv, LoanTypes, BTypeOK, WriterLent, Unlent, LockPart
  <2>5. (Balance /\ Lenders /\ Owed)'
    BY <2>1, <2>2 DEF BInv, Balance, Lenders, Owed, Holding, Running
  <2> QED BY <2>3, <2>4, <2>5 DEF BInv
<1> QED BY <1>1, <1>2

LEMMA BInvariant == BSpec => []BInv
  BY BInvInit, BInvStep, PTL DEF BSpec

-----------------------------------------------------------------------------
\* psdBorrowLocksWait moves, splits, merges and hands back the lock calls of its
\* caller, and what the lock counts for a task is always what the task took and
\* what others lend it.
THEOREM LoansBalance == BSpec => []BooksBalance
<1>1. BInv => BooksBalance
  BY DEF BInv, LoanTypes, Balance, BooksBalance
<1> QED BY <1>1, BInvariant, PTL

\* However locks are lent and taken back, a writer runs beside a reader only
\* when a queued shared request was made exclusive by setting prl_IsExcl.
THEOREM LendingExcludes == BSpec => []ExclusionUnlessOvertaken
<1>1. BInv => ExclusionUnlessOvertaken
  BY DEF BInv, ExclusionUnlessOvertaken
<1> QED BY <1>1, BInvariant, PTL

-----------------------------------------------------------------------------
\* A reader that waits to write and could, and has not been told.
Untold(w) == /\ owner = NoTask /\ waiting[w] = "excl" /\ w \notin signalled
             /\ readCount[w] > 0 /\ \A u \in Task \ {w} : readCount[u] = 0

\* A lender of a shared hold is not back.
LenderOut(w) == \E l \in Task \ {w} : phase[l] # "idle" /\ onLoan[l].read > 0

LastReaderTold == \A w \in Task : Untold(w) => LenderOut(w)

\* An answered request leaves an owner, or a reader that runs; a task queues only
\* for what it cannot have.
LEMMA LockUntold ==
  ASSUME LockPart, NEW t \in Task, NEW w \in Task, Untold(w)', waiting'[t] \in {"no", "excl", "shared"},
         \/ TakeExcl(t)
         \/ TakeShared(t) /\ waiting'[t] = "no"
         \/ Enqueue(t, "excl") /\ ~ExclGrantable(t)
         \/ Enqueue(t, "shared")
  PROVE  Untold(w)
<1> USE NoTaskAssumption
<1>1. readCount \in [Task -> Nat] /\ waiting \in [Task -> {"no", "excl", "shared"}]
  BY DEF LockPart, TypeOK
<1>2. CASE TakeExcl(t)
  BY <1>2 DEF TakeExcl, Untold
<1>3. CASE TakeShared(t) /\ waiting'[t] = "no"
  <2>1. readCount'[t] > 0
    BY <1>1, <1>3 DEF TakeShared
  <2>2. w = t
    BY <2>1 DEF Untold
  <2> QED BY <1>3, <2>2 DEF Untold
<1>4. CASE Enqueue(t, "excl") /\ ~ExclGrantable(t)
  <2>1. /\ owner' = owner /\ readCount' = readCount /\ signalled' = signalled \ {t}
        /\ exclCount' = exclCount /\ sharedCount' = sharedCount
        /\ \A u \in Task \ {t} : waiting'[u] = waiting[u]
    BY <1>1, <1>4 DEF Enqueue, lockVars
  <2>2. CASE w = t
    <3>1. Readers = {t} /\ exclCount = 0
      BY <1>1, <2>1, <2>2 DEF Untold, Readers, LockPart, OwnerCounted
    <3>2. sharedCount = 1 /\ readCount[t] > 0
      BY <2>1, <2>2, <3>1, FS_Singleton DEF Untold, LockPart, SharedCounted
    <3> QED BY <1>4, <3>1, <3>2 DEF ExclGrantable
  <2> QED BY <2>1, <2>2 DEF Untold
<1>5. CASE Enqueue(t, "shared")
  <2>1. /\ owner' = owner /\ readCount' = readCount /\ signalled' = signalled \ {t}
        /\ waiting'[t] = "shared" /\ \A u \in Task \ {t} : waiting'[u] = waiting[u]
    BY <1>1, <1>5 DEF Enqueue, lockVars
  <2> QED BY <2>1 DEF Untold
<1> QED BY <1>2, <1>3, <1>4, <1>5

LEMMA LockCallUntold ==
  ASSUME LockPart, NEW t \in Task, NEW w \in Task, Untold(w)',
         LockSemExcl(t) \/ \E allocated \in BOOLEAN : LockSemShared(t, allocated)
  PROVE  Untold(w)
<1>1. waiting \in [Task -> {"no", "excl", "shared"}]
  BY DEF LockPart, TypeOK
<1>2. CASE LockSemExcl(t)
  <2>1. CASE TakeExcl(t) /\ UNCHANGED waitVars
    BY <1>1, <2>1, LockUntold DEF waitVars
  <2>2. CASE ~ExclGrantable(t) /\ Enqueue(t, "excl")
    <3>1. waiting'[t] = "excl"
      BY <1>1, <2>2 DEF Enqueue
    <3> QED BY <2>2, <3>1, LockUntold
  <2> QED BY <1>2, <2>1, <2>2 DEF LockSemExcl
<1>3. CASE TakeExcl(t) /\ UNCHANGED waitVars
  BY <1>1, <1>3, LockUntold DEF waitVars
<1>4. CASE TakeShared(t) /\ UNCHANGED waitVars /\ Running(t)
  BY <1>4, LockUntold DEF waitVars, Running
<1>5. CASE Enqueue(t, "shared")
  <2>1. waiting'[t] = "shared"
    BY <1>1, <1>5 DEF Enqueue
  <2> QED BY <1>5, <2>1, LockUntold
<1> QED BY <1>2, <1>3, <1>4, <1>5 DEF LockSemShared

LEMMA WakeUntold ==
  ASSUME LockPart, NEW t \in Task, NEW w \in Task, Untold(w)', Wake(t) \/ WakePromoted(t)
  PROVE  Untold(w)
<1>1. waiting \in [Task -> {"no", "excl", "shared"}]
  BY DEF LockPart, TypeOK
<1>2. CASE (TakeExcl(t) \/ TakeShared(t)) /\ Dequeue(t)
  <2>1. waiting'[t] = "no"
    BY <1>1, <1>2 DEF Dequeue
  <2> QED BY <1>2, <2>1, LockUntold
<1>3. CASE Enqueue(t, "shared") \/ (~ExclGrantable(t) /\ Enqueue(t, "excl"))
  <2>1. waiting'[t] \in {"excl", "shared"}
    BY <1>1, <1>3 DEF Enqueue
  <2> QED BY <1>3, <2>1, LockUntold
<1> QED BY <1>2, <1>3 DEF Wake, WakeExcl, WakeShared, WakePromoted

\* A full release tells every task that waits.
LEMMA UnlockUntold ==
  ASSUME LockPart, NEW t \in Task, NEW w \in Task, Untold(w)', UnlockSem(t)
  PROVE  Untold(w)
<1> USE NoTaskAssumption
<1>1. readCount \in [Task -> Nat] /\ Running(t) /\ waiting' = waiting /\ ~Running(w)
  BY DEF LockPart, TypeOK, UnlockSem, Untold, Running
<1>2. CASE UnlockExcl(t)
  <2>1. ~NotifyWaiters
    BY <1>1 DEF NotifyWaiters, Untold
  <2> QED BY <1>2, <2>1 DEF UnlockExcl, Untold
<1>3. CASE UnlockShared(t)
  <2>1. ~NotifyWaiters
    BY <1>1 DEF NotifyWaiters, Untold
  <2>2. readCount[t] # 1 /\ readCount' = [readCount EXCEPT ![t] = @ - 1]
    BY <1>3, <2>1 DEF UnlockShared
  <2>3. ~UnlockRefused(t) /\ owner = NoTask
    BY <1>3 DEF UnlockSem, UnlockShared
  <2>4. readCount'[t] > 0
    BY <1>1, <2>2, <2>3 DEF UnlockRefused
  <2>5. w = t
    BY <2>4 DEF Untold
  <2> QED BY <1>1, <2>5
<1> QED BY <1>2, <1>3 DEF UnlockSem

\* A lender that gives away a shared hold is out itself; the exclusive one leaves
\* no reader.
LEMMA LendingUntold ==
  ASSUME BInv, ~overtaken, NEW t \in Task, NEW u \in Task, NEW w \in Task, Untold(w)',
         BorrowLocksWait(t, u)
  PROVE  LenderOut(w)'
<1> USE NoTaskAssumption
<1>1. /\ LockPart /\ Exclusion /\ readCount \in [Task -> Nat] /\ Running(t) /\ Holding(t) > 0
      /\ waiting' = waiting /\ w # t
  BY Parts DEF LockPart, TypeOK, BorrowLocksWait, Untold, Running
<1>2. /\ onLoan' = [onLoan EXCEPT ![t] = [excl |-> ExclOf(t), read |-> readCount[t]]]
      /\ phase' = [phase EXCEPT ![t] = "lent"]
      /\ onLoan \in Books /\ phase \in [Task -> {"idle", "lent", "reclaim"}]
  BY DEF BorrowLocksWait, BInv, LoanTypes, BTypeOK
<1>3. onLoan'[t].read = readCount[t] /\ phase'[t] = "lent"
  BY <1>2 DEF Books
<1>4. CASE readCount[t] > 0
  BY <1>1, <1>3, <1>4 DEF LenderOut
<1>5. CASE readCount[t] = 0
  <2>1. owner = t /\ readCount' = readCount
    BY <1>1, <1>5 DEF Holding, BorrowLocksWait, LendRead
  <2>2. readCount[w] = 0
    BY <1>1, <2>1 DEF Exclusion, Readers
  <2> QED BY <2>1, <2>2 DEF Untold
<1> QED BY <1>1, <1>4, <1>5

\* What is taken back leaves the target with reads, or the lender that runs.
LEMMA TakeBackUntold ==
  ASSUME BInv, ~overtaken, NEW t \in Task, NEW w \in Task, Untold(w)', TakeBack(t)
  PROVE  Untold(w)
<1> USE NoTaskAssumption
<1>1. PICK u \in Task : target[t] = u /\ Waited(t, u)
  BY LenderWaited
<1>2. /\ t # u /\ t \in LendsTo(u) /\ Running(t) /\ borrows[t].excl \in Nat
      /\ borrows[t].read \in Nat
  BY <1>1 DEF Waited
<1>3. /\ LockPart /\ Lending /\ readCount \in [Task -> Nat] /\ borrows \in Books
      /\ waiting' = waiting /\ signalled' = signalled /\ w # t
  BY <1>2, Parts DEF LockPart, TypeOK, Lending, TakeBack, waitVars, Untold, Running
<1>4. owner = NoTask
  BY DEF TakeBack, TakeBackExcl, Untold
<1>5. readCount[u] >= borrows[t].read
  <2>1. readCount[u] >= LentReads(u) /\ LentReads(u) >= borrows[t].read /\ LentReads(u) \in Nat
    BY <1>2, <1>3, ReadsAtLeast, LentNats DEF Lending, Balance
  <2> QED BY <1>2, <1>3, <2>1
<1>6. /\ readCount'[u] = readCount[u] - borrows[t].read
      /\ readCount'[t] = IF TakesBackRead(t) THEN borrows[t].read ELSE readCount[t]
      /\ \A v \in Task \ {t, u} : readCount'[v] = readCount[v]
  BY <1>1, <1>2, <1>3 DEF TakeBack, TakeBackRead
<1>7. ~TakesBackRead(t) /\ readCount[t] = 0
  <2>1. readCount'[t] = 0
    BY <1>3 DEF Untold
  <2> QED BY <1>2, <1>6, <2>1 DEF TakesBackRead
<1>8. owner' # u
  BY DEF Untold
<1>9. borrows[t].read = 0 \/ readCount[u] > borrows[t].read
  BY <1>1, <1>2, <1>3, <1>5, <1>7, <1>8 DEF TakesBackRead
<1>10. CASE borrows[t].read = 0
  <2>1. \A v \in Task : readCount'[v] = readCount[v]
    BY <1>3, <1>6, <1>7, <1>10
  <2> QED BY <1>3, <1>4, <2>1 DEF Untold
<1>11. CASE readCount[u] > borrows[t].read
  <2>1. readCount'[u] > 0 /\ readCount[u] > 0
    BY <1>2, <1>3, <1>6, <1>11
  <2>2. w = u
    BY <2>1 DEF Untold
  <2>3. \A v \in Task \ {u} : readCount[v] = 0
    BY <1>6, <1>7, <2>2 DEF Untold
  <2> QED BY <1>3, <1>4, <2>1, <2>2, <2>3 DEF Untold
<1> QED BY <1>9, <1>10, <1>11

\* A lender that is back holds what it lent, and is no other's last reader.
LEMMA ReturnUntold ==
  ASSUME BInv, NEW t \in Task, NEW w \in Task, Untold(w)', LenderOut(w), BorrowReturns(t)
  PROVE  LenderOut(w)'
<1> USE NoTaskAssumption
<1>1. PICK l \in Task \ {w} : phase[l] # "idle" /\ onLoan[l].read > 0
  BY DEF LenderOut
<1>2. /\ phase[t] = "reclaim" /\ Running(t) /\ reclaims[t] = Nothing /\ borrows[t] = Nothing
      /\ phase' = [phase EXCEPT ![t] = "idle"] /\ onLoan' = [onLoan EXCEPT ![t] = Nothing]
      /\ owner' = owner /\ readCount' = readCount /\ waiting' = waiting
      /\ onLoan \in Books /\ phase \in [Task -> {"idle", "lent", "reclaim"}]
  BY DEF BorrowReturns, InForbid, BInv, Lenders, LoanTypes, BTypeOK, vars
<1>3. l # t
  <2> SUFFICES ASSUME l = t PROVE FALSE
    OBVIOUS
  <2>1. Holding(t) = onLoan[t].excl + onLoan[t].read
    <3>1. /\ Holding(t) + borrows[t].excl + borrows[t].read + reclaims[t].excl
               + reclaims[t].read + (IF Running(t) THEN 0 ELSE 1)
                 = onLoan[t].excl + onLoan[t].read
          /\ Holding(t) \in Nat
      BY <1>2 DEF BInv, Owed, LockPart, TypeOK, Holding
    <3> QED BY <1>2, <3>1 DEF Nothing
  <2>2. Holding(t) > 0
    BY <1>1, <1>2, <2>1 DEF Books
  <2>3. owner = NoTask /\ readCount[t] = 0
    BY <1>1, <1>2 DEF Untold
  <2> QED BY <2>2, <2>3 DEF Holding
<1>4. phase'[l] = phase[l] /\ onLoan'[l] = onLoan[l]
  BY <1>2, <1>3 DEF Books
<1> QED BY <1>1, <1>4 DEF LenderOut

LEMMA LastReaderStep ==
  ASSUME BInv, LastReaderTold, [BNext]_bVars
  PROVE  LastReaderTold'
<1> SUFFICES ASSUME NEW w \in Task, Untold(w)' PROVE LenderOut(w)'
  BY DEF LastReaderTold
<1>1. ASSUME Untold(w), UNCHANGED onLoan,
             \A l \in Task : phase[l] # "idle" => phase'[l] # "idle"
      PROVE  LenderOut(w)'
  BY <1>1 DEF LastReaderTold, LenderOut
<1>2. CASE UNCHANGED bVars
  <2>1. Untold(w) /\ UNCHANGED onLoan /\ UNCHANGED phase
    BY <1>2 DEF bVars, vars, loanVars, Untold
  <2> QED BY <1>1, <2>1
<1>3. CASE BNext
  <2>1. /\ ~overtaken /\ LockPart /\ onLoan \in Books
        /\ phase \in [Task -> {"idle", "lent", "reclaim"}]
    BY <1>3, Parts DEF BNext, BInv, LoanTypes, BTypeOK
  <2>2. PICK t \in Task :
          \/ BLock(t) \/ BUnlock(t) \/ BWake(t) \/ WakePromoted(t)
          \/ \E u \in Task : BorrowLocksWait(t, u) \/ BorrowLocksNoMemory(t, u)
          \/ TakeBack(t) \/ Reclaim(t) \/ BorrowReturns(t)
    BY <1>3 DEF BNext
  <2>3. CASE BLock(t) \/ BUnlock(t) \/ BWake(t) \/ WakePromoted(t)
    <3>1. UNCHANGED onLoan /\ UNCHANGED phase
      BY <2>3 DEF BLock, BUnlock, BWake, WakePromoted, loanVars
    <3>2. Untold(w)
      BY <2>1, <2>3, LockCallUntold, UnlockUntold, WakeUntold
         DEF BLock, BUnlock, BWake, Lock, Unlock
    <3> QED BY <1>1, <3>1, <3>2
  <2>4. ASSUME NEW u \in Task, BorrowLocksWait(t, u) PROVE LenderOut(w)'
    BY <2>1, <2>4, LendingUntold
  <2>5. ASSUME NEW u \in Task, BorrowLocksNoMemory(t, u) PROVE LenderOut(w)'
    <3>1. /\ UNCHANGED vars /\ phase[t] = "idle" /\ phase' = [phase EXCEPT ![t] = "lent"]
          /\ \A l \in Task \ {t} : onLoan'[l] = onLoan[l]
      BY <2>1, <2>5 DEF BorrowLocksNoMemory, Books
    <3>2. Untold(w)
      BY <3>1 DEF vars, Untold
    <3>3. PICK l \in Task \ {w} : phase[l] # "idle" /\ onLoan[l].read > 0
      BY <3>2 DEF LastReaderTold, LenderOut
    <3>4. phase'[l] = phase[l] /\ onLoan'[l] = onLoan[l]
      BY <2>1, <3>1, <3>3
    <3> QED BY <3>3, <3>4 DEF LenderOut
  <2>6. CASE TakeBack(t)
    <3>1. UNCHANGED onLoan /\ \A l \in Task : phase[l] # "idle" => phase'[l] # "idle"
      BY <2>1, <2>6 DEF TakeBack
    <3> QED BY <1>1, <2>1, <2>6, <3>1, TakeBackUntold
  <2>7. CASE Reclaim(t)
    <3>1. UNCHANGED onLoan /\ UNCHANGED phase
      BY <2>7 DEF Reclaim
    <3>2. Untold(w)
      BY <2>1, <2>7, LockCallUntold DEF Reclaim
    <3> QED BY <1>1, <3>1, <3>2
  <2>8. CASE BorrowReturns(t)
    <3>1. Untold(w)
      BY <2>8 DEF BorrowReturns, vars, Untold
    <3> QED BY <2>8, <3>1, ReturnUntold DEF LastReaderTold
  <2> QED BY <2>2, <2>3, <2>4, <2>5, <2>6, <2>7, <2>8
<1> QED BY <1>2, <1>3

\* A lender that releases its hold signals its target alone, pUnlockSem all who
\* wait.  Whenever a queued task could have the lock, one that could has its signal
\* pending, or a reader runs whose unlock tells everybody, or readers wait for one
\* another to write; but for a reader that waits to write and has become the last
\* by a loan, which goes untold until the lender is back.
THEOREM StallsAreKnown == BSpec => []NoIdleStall
<1>1. BInit => LastReaderTold
  BY DEF BInit, Init, LastReaderTold, Untold
<1>2. ASSUME BInv, LastReaderTold PROVE NoIdleStall
  <2> SUFFICES ASSUME Stalled, \A t \in Readers : ~Running(t), ~UpgradeClash
      PROVE  UpgradeUntold
    BY DEF NoIdleStall
  <2>1. /\ LockPart /\ readCount \in [Task -> Nat]
        /\ waiting \in [Task -> {"no", "excl", "shared"}]
    BY <1>2 DEF BInv, LockPart, TypeOK
  <2>2. PICK v \in Task : Obtain(v)
    BY DEF Stalled
  <2>3. owner = NoTask /\ exclCount = 0 /\ ~Running(v)
    BY <2>1, <2>2 DEF Obtain, ExclGrantable, SharedGrantable, LockPart, OwnerCounted, WaitersLack,
       Running
  <2>4. Readers # {}
    <3> SUFFICES ASSUME Readers = {} PROVE FALSE
      OBVIOUS
    <3>1. sharedCount = 0
      BY <2>1, FS_EmptySet DEF LockPart, SharedCounted
    <3>2. PICK s \in signalled : ~Running(s)
      BY <2>1, <2>3 DEF LockPart, FreeTold
    <3>3. s \in Task /\ waiting[s] \in {"excl", "shared"}
      BY <2>1, <3>2 DEF LockPart, TypeOK, Running
    <3>4. Obtain(s)
      BY <2>3, <3>1, <3>3 DEF Obtain, ExclGrantable, SharedGrantable
    <3> QED BY <3>2, <3>3, <3>4 DEF Stalled
  <2>5. \A t \in Readers : t \in Task /\ readCount[t] > 0 /\ waiting[t] = "excl"
    <3> SUFFICES ASSUME NEW t \in Readers PROVE t \in Task /\ readCount[t] > 0 /\ waiting[t] = "excl"
      OBVIOUS
    <3>1. t \in Task /\ readCount[t] > 0 /\ ~Running(t)
      BY DEF Readers
    <3> QED BY <2>1, <3>1 DEF LockPart, WaitersLack, Running
  <2>6. PICK w \in Readers : Readers = {w}
    BY <2>4, <2>5 DEF UpgradeClash
  <2>7. sharedCount = 1
    BY <2>1, <2>6, FS_Singleton DEF LockPart, SharedCounted
  <2>8. Obtain(w) /\ w \in Task
    BY <2>3, <2>5, <2>7 DEF Obtain, ExclGrantable
  <2>9. Untold(w)
    BY <2>1, <2>3, <2>5, <2>6, <2>8 DEF Untold, Stalled, Readers
  <2> QED BY <1>2, <2>5, <2>6, <2>8, <2>9 DEF LastReaderTold, LenderOut, UpgradeUntold
<1>3. BInv /\ LastReaderTold /\ [BNext]_bVars => LastReaderTold'
  BY LastReaderStep
<1> QED BY <1>1, <1>2, <1>3, BInvariant, PTL DEF BSpec

\* psdBorrowLocksWait returns with as many lock calls as its caller had, and as
\* the writer if the caller was: the borrows and reclaims lists lose nothing.
THEOREM BorrowTakesBack == BSpec => TakenBack
<1> DEFINE Back(t) == /\ Holding(t) = onLoan[t].excl + onLoan[t].read
                      /\ onLoan[t].excl > 0 => owner = t
           Backs == \A t \in Task : phase[t] = "reclaim" /\ phase'[t] = "idle" => Back(t)
<1>1. ASSUME BInv, NEW t \in Task, BorrowReturns(t)
      PROVE  Back(t)
  <2>1. phase[t] = "reclaim" /\ Running(t) /\ reclaims[t] = Nothing /\ borrows[t] = Nothing
    BY <1>1 DEF BorrowReturns, InForbid, BInv, Lenders
  <2>2. /\ Holding(t) + borrows[t].excl + borrows[t].read + reclaims[t].excl + reclaims[t].read
             + (IF Running(t) THEN 0 ELSE 1) = onLoan[t].excl + onLoan[t].read
        /\ onLoan[t].excl > 0 =>
             owner = t \/ borrows[t].excl > 0 \/ reclaims[t].excl > 0 \/ waiting[t] = "excl"
    BY <1>1, <2>1 DEF BInv, Owed
  <2>3. Holding(t) \in Nat
    BY <1>1 DEF BInv, LockPart, TypeOK, Holding
  <2> QED BY <2>1, <2>2, <2>3 DEF Nothing, Running
<1>2. ASSUME BInv, BNext
      PROVE  Backs
  <2>1. phase \in [Task -> {"idle", "lent", "reclaim"}]
    BY <1>2 DEF BInv, LoanTypes, BTypeOK
  <2> SUFFICES ASSUME NEW t \in Task, phase[t] = "reclaim", phase'[t] = "idle"
      PROVE  Back(t)
    OBVIOUS
  <2>2. PICK s \in Task :
          \/ BLock(s) \/ BUnlock(s) \/ BWake(s) \/ WakePromoted(s)
          \/ \E u \in Task : BorrowLocksWait(s, u) \/ BorrowLocksNoMemory(s, u)
          \/ TakeBack(s) \/ Reclaim(s) \/ BorrowReturns(s)
    BY <1>2 DEF BNext
  <2>3. CASE BorrowReturns(s)
    <3>1. s = t
      BY <2>1, <2>3 DEF BorrowReturns
    <3> HIDE DEF Back
    <3> QED BY <1>1, <1>2, <2>3, <3>1
  <2>4. CASE UNCHANGED phase
    BY <2>4
  <2>5. CASE \E x \in {"lent", "reclaim"} : phase' = [phase EXCEPT ![s] = x]
    BY <2>1, <2>5
  <2> QED BY <2>2, <2>3, <2>4, <2>5 DEF BLock, BUnlock, BWake, WakePromoted, BorrowLocksWait,
       BorrowLocksNoMemory, TakeBack, Reclaim, loanVars
<1>3. BInv /\ [BNext]_bVars => [Backs]_bVars
  BY <1>2
<1> QED BY <1>3, BInvariant, PTL DEF BSpec, TakenBack
=============================================================================
