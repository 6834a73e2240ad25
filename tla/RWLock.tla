------------------------------- MODULE RWLock -------------------------------
(***************************************************************************)
(* What one of the library's reader/writer locks promises its callers: a   *)
(* re-entrant lock that many tasks may hold for reading or one task for    *)
(* writing, where the only reader may become the writer and keeps its      *)
(* reading rights.  No queue, no signal, no record: only who holds what.   *)
(***************************************************************************)
EXTENDS Naturals

CONSTANT Task            \* the tasks that use the lock

VARIABLES rd, wr         \* how often each task holds the lock to read, to write

rwVars == <<rd, wr>>

RWInit == /\ rd = [t \in Task |-> 0]
          /\ wr = [t \in Task |-> 0]

NoOtherWriter(t) == \A u \in Task \ {t} : wr[u] = 0
NoOtherHolder(t) == \A u \in Task \ {t} : wr[u] = 0 /\ rd[u] = 0

AcquireRead(t) == /\ NoOtherWriter(t)
                  /\ wr[t] = 0
                  /\ rd' = [rd EXCEPT ![t] = @ + 1]
                  /\ UNCHANGED wr

AcquireWrite(t) == /\ NoOtherHolder(t)
                   /\ wr' = [wr EXCEPT ![t] = @ + 1]
                   /\ UNCHANGED rd

Release(t) == \/ /\ wr[t] > 0
                 /\ wr' = [wr EXCEPT ![t] = @ - 1]
                 /\ UNCHANGED rd
              \/ /\ wr[t] = 0
                 /\ rd[t] > 0
                 /\ rd' = [rd EXCEPT ![t] = @ - 1]
                 /\ UNCHANGED wr

RWNext == \E t \in Task : AcquireRead(t) \/ AcquireWrite(t) \/ Release(t)

RWSpec == RWInit /\ [][RWNext]_rwVars
=============================================================================
