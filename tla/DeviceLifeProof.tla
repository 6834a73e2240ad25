--------------------------- MODULE DeviceLifeProof ---------------------------
(***************************************************************************)
(* Theorems about DeviceLife for any set of pipe users: the use count is   *)
(* right, the free of a device is never entered from inside itself, finds  *)
(* no class with a pipe open, and happens once and for all but for the     *)
(* races the code leaves.                                                  *)
(***************************************************************************)
EXTENDS DeviceLife, FiniteSetTheorems, TLAPS

Place == {"idle", "free", "mark", "purge", "destroy", "destroying", "unlink",
          "bindings", "release", "loop", "wait", "abandon", "picked", "open", "done"}

Shape == /\ pc \in [Task -> Place]
         /\ list \in {"live", "dead", "none"}
         /\ delExpunge \in BOOLEAN /\ contents \in BOOLEAN /\ handle \in BOOLEAN
         /\ bound \in BOOLEAN /\ raced \in BOOLEAN /\ late \in BOOLEAN
         /\ devLock \in Task \cup {NoTask}
         /\ unlinks \in Nat

\* Who is where: only psdRemHardware waits for pipes, a user of pipes only
\* comes to pFreeDevice, and the hub task retires the device before the
\* controller goes, or not at all.
InPlace == /\ \A u \in User : pc[u] \in {"idle", "free", "mark", "purge", "destroy",
                                         "destroying", "unlink"}
           /\ pc[Sweeper] \in {"idle", "free", "mark", "purge", "destroy", "destroying",
                               "unlink", "picked", "open"}
           /\ pc[Hub] \in {"idle", "bindings", "release", "free", "mark", "purge", "destroy",
                           "destroying", "unlink", "done"}
           /\ pc[Remover] \notin {"picked", "open"}
           /\ pc[Remover] # "idle" => pc[Hub] \in {"idle", "done"}

\* The stretches of pFreeDevice and psdFreeDevice that hold the device lock.
UnderLock == {"mark", "purge", "destroy", "destroying", "release"}

\* Who is in such a stretch is the writer of pd_Lock.
LockHeld == \A t \in Task : pc[t] \in UnderLock => devLock = t

\* From FreeContents until the backend's pipe is closed the collector is
\* disarmed, only the holder of the device lock can arm it; so the free is not
\* entered again there.
Disarmed == /\ \A t \in Task : pc[t] \in {"destroy", "destroying"} => delExpunge = FALSE
            /\ nested = FALSE

\* The use count counts the pipes, and who has a pipe open is no further than
\* that.
Counted == /\ pipes \subseteq Task /\ useCnt = Cardinality(pipes)
           /\ \A t \in pipes : \/ t \in User /\ pc[t] = "idle"
                               \/ t = Sweeper /\ pc[t] = "open"
                               \/ pc[t] = "destroying"
           /\ \A t \in Task : pc[t] = "destroying" => t \in pipes

\* While classes are bound nobody is about to free the device.
Going == {"free", "mark", "purge", "destroy", "destroying", "unlink", "loop", "wait", "abandon"}
Bound == bound => /\ \A t \in Task : pc[t] \notin Going
                  /\ pc[Hub] # "done" /\ ~delExpunge /\ list # "none"
                  /\ list = "dead" => \E t \in {Hub, Remover} : pc[t] \in {"bindings", "release"}

\* Once the use count was seen at 0 no class opens a pipe any more.
Purged == (~contents \/ \E t \in Task : pc[t] = "purge") =>
            ~bound /\ \A u \in User : u \in pipes => pc[u] # "idle"

\* One task at most is in pFreeDevice, and it is the last.
Work == {"free", "mark", "purge", "destroy", "destroying", "unlink"}
Once == ~late /\ pc[Remover] = "idle" =>
          /\ \A s, t \in Task : pc[s] \in Work /\ pc[t] \in Work => s = t
          /\ delExpunge => pc[Hub] = "done" /\ unlinks = 0
          /\ delExpunge => \A t \in Task : pc[t] \in Work => pc[t] \in {"free", "purge"} /\ useCnt = 0
          /\ pc[Hub] \in {"idle", "bindings", "release"} =>
               unlinks = 0 /\ \A t \in Task : pc[t] \notin Work
          /\ unlinks <= 1
          /\ unlinks = 1 => \A t \in Task : pc[t] \notin Work

\* Somebody is going to free a retired device.
Promise == pc[Remover] = "idle" /\ ~raced =>
             /\ \A t \in Task : pc[t] = "mark" => useCnt > 0
             /\ \A t \in Task : pc[t] \in {"destroy", "destroying", "unlink"} => ~contents
             /\ pc[Hub] = "done" /\ contents =>
                  \/ \E t \in Task : pc[t] \in {"free", "mark", "purge"}
                  \/ delExpunge /\ useCnt > 0

IInv == /\ Shape /\ InPlace /\ LockHeld /\ Disarmed /\ Counted /\ Bound /\ Purged /\ Once /\ Promise

-----------------------------------------------------------------------------
\* What the proofs need of the tasks' names.
LEMMA Apart == /\ Hub # Remover /\ Hub # Sweeper /\ Remover # Sweeper
               /\ Hub \notin User /\ Remover \notin User /\ Sweeper \notin User
               /\ NoTask \notin Task /\ Hub \in Task /\ Remover \in Task /\ Sweeper \in Task
               /\ User \subseteq Task /\ Task = User \cup {Hub, Remover, Sweeper}
               /\ IsFiniteSet(Task)
<1>1. \A x, y : Cardinality({x, y}) \in Nat /\ Cardinality({x, y}) <= 2 /\ IsFiniteSet({x, y})
  <2> SUFFICES ASSUME NEW x, NEW y
      PROVE  Cardinality({x, y}) \in Nat /\ Cardinality({x, y}) <= 2 /\ IsFiniteSet({x, y})
    OBVIOUS
  <2>1. IsFiniteSet({x}) /\ Cardinality({x}) = 1
    BY FS_Singleton
  <2>2. IsFiniteSet({x} \cup {y}) /\ Cardinality({x} \cup {y}) <= 2
    BY <2>1, FS_AddElement
  <2>3. {x} \cup {y} = {x, y}
    OBVIOUS
  <2> QED BY <2>2, <2>3, FS_CardinalityType
<1>2. Hub # Remover
  <2> SUFFICES ASSUME Hub = Remover PROVE FALSE
    OBVIOUS
  <2>1. {Hub, Remover, Sweeper} = {Hub, Sweeper}
    OBVIOUS
  <2>2. Cardinality({Hub, Sweeper}) = 3
    BY <2>1, TasksDistinct
  <2>3. Cardinality({Hub, Sweeper}) <= 2
    BY <1>1
  <2> QED BY <2>2, <2>3
<1>3. Hub # Sweeper /\ Remover # Sweeper
  <2> SUFFICES ASSUME Hub = Sweeper \/ Remover = Sweeper PROVE FALSE
    OBVIOUS
  <2>1. {Hub, Remover, Sweeper} = {Hub, Remover}
    OBVIOUS
  <2>2. Cardinality({Hub, Remover}) = 3
    BY <2>1, TasksDistinct
  <2>3. Cardinality({Hub, Remover}) <= 2
    BY <1>1
  <2> QED BY <2>2, <2>3
<1>4. IsFiniteSet(Task)
  <2>1. IsFiniteSet({Hub, Remover} \cup {Sweeper})
    BY <1>1, FS_AddElement
  <2>2. {Hub, Remover, Sweeper} = {Hub, Remover} \cup {Sweeper}
    OBVIOUS
  <2> QED BY <2>1, <2>2, TasksDistinct, FS_Union DEF Task
<1> QED BY <1>2, <1>3, <1>4, TasksDistinct DEF Task

LEMMA Returns == /\ Return(Hub) = "done" /\ Return(Remover) = "loop" /\ Return(Sweeper) = "idle"
                 /\ \A u \in User : Return(u) = "idle"
  BY Apart DEF Return

\* The use count.
LEMMA Counts ==
  ASSUME Counted
  PROVE  useCnt \in Nat /\ useCnt <= Cardinality(Task) /\ (useCnt = 0 <=> pipes = {})
  BY Apart, FS_Subset, FS_CardinalityType, FS_EmptySet DEF Counted

LEMMA Opens ==
  ASSUME Counted, NEW t \in Task, t \notin pipes, OpenPipe(t)
  PROVE  pipes' \subseteq Task /\ useCnt' = Cardinality(pipes')
<1>1. IsFiniteSet(pipes)
  BY Apart, FS_Subset DEF Counted
<1> QED BY <1>1, FS_AddElement DEF Counted, OpenPipe

LEMMA Closes ==
  ASSUME Counted, NEW t \in pipes, ClosePipe(t)
  PROVE  /\ pipes' \subseteq Task /\ useCnt' = Cardinality(pipes')
         /\ useCnt > 0 /\ useCnt' = useCnt - 1
<1>1. IsFiniteSet(pipes)
  BY Apart, FS_Subset DEF Counted
<1>2. Cardinality(pipes \ {t}) = Cardinality(pipes) - 1
  BY <1>1, FS_RemoveElement
<1>3. useCnt > 0 /\ useCnt \in Nat
  BY Counts
<1> QED BY <1>2, <1>3 DEF Counted, ClosePipe

-----------------------------------------------------------------------------
LEMMA AllocPipeStep ==
  ASSUME IInv, NEW u \in User, AllocPipe(u)
  PROVE  IInv'
<1>1. Shape'
  BY DEF IInv, Shape, AllocPipe, OpenPipe, listVars, bodyVars
<1>2. InPlace'
  BY DEF IInv, InPlace, AllocPipe
<1>3. LockHeld'
  BY DEF IInv, LockHeld, AllocPipe
<1>4. Disarmed'
  BY DEF IInv, Disarmed, AllocPipe
<1>5. Counted'
  BY Apart, Opens DEF IInv, Counted, AllocPipe, OpenPipe
<1>6. Bound'
  BY DEF IInv, Bound, AllocPipe, listVars
<1>7. Purged'
  BY DEF IInv, Purged, AllocPipe, bodyVars
<1>8. Once'
  BY DEF IInv, Once, Work, AllocPipe, OpenPipe, listVars
<1>9. Promise'
  BY Counts DEF IInv, Promise, AllocPipe, OpenPipe, bodyVars
<1> QED BY <1>1, <1>2, <1>3, <1>4, <1>5, <1>6, <1>7, <1>8, <1>9 DEF IInv

LEMMA FreePipeStep ==
  ASSUME IInv, NEW t \in Task, FreePipe(t)
  PROVE  IInv'
<1>1. Shape'
  BY DEF IInv, Shape, Place, FreePipe, ClosePipe, Goto, listVars, bodyVars
<1>2. InPlace'
  BY Apart DEF IInv, InPlace, Counted, FreePipe, Goto
<1>3. LockHeld'
  BY DEF IInv, LockHeld, UnderLock, FreePipe, Goto
<1>4. Disarmed'
  BY DEF IInv, Disarmed, FreePipe, Goto
<1>5. Counted'
  BY Closes DEF IInv, Shape, Counted, FreePipe, ClosePipe, Goto
<1>6. Bound'
  BY Apart DEF IInv, Bound, InPlace, FreePipe, Collects, Goto, listVars, bodyVars
<1>7. Purged'
  BY DEF IInv, Purged, FreePipe, ClosePipe, Goto, bodyVars
<1>8. Once'
  BY Apart DEF IInv, Once, Work, FreePipe, ClosePipe, Collects, Goto, listVars
<1>9. Promise'
  <2>1. t \in pipes /\ pc[t] \in {"idle", "open"} /\ ClosePipe(t) /\ delExpunge' = delExpunge
        /\ contents' = contents
    BY DEF FreePipe, bodyVars
  <2>2. useCnt > 0 /\ useCnt \in Nat /\ useCnt' = useCnt - 1
    BY <2>1, Counts, Closes DEF IInv
  <2>3. pc' = [pc EXCEPT ![t] = IF Collects THEN "free" ELSE "idle"] /\ pc \in [Task -> Place]
    BY DEF FreePipe, Goto, IInv, Shape
  <2>4. t \in User \cup {Sweeper}
    BY <2>1, Apart DEF IInv, Counted
  <2>5. SUFFICES ASSUME pc[Remover] = "idle", ~raced', ~raced
        PROVE  /\ \A s \in Task : pc'[s] = "mark" => useCnt' > 0
               /\ \A s \in Task : pc'[s] \in {"destroy", "destroying", "unlink"} => ~contents
               /\ pc'[Hub] = "done" /\ contents =>
                    \/ \E s \in Task : pc'[s] \in {"free", "mark", "purge"}
                    \/ delExpunge /\ useCnt' > 0
    BY <2>1, <2>3, <2>4, Apart DEF Promise, ClosePipe
  <2>6. /\ \A s \in Task : pc[s] \in {"destroy", "destroying", "unlink"} => ~contents
        /\ pc[Hub] = "done" /\ contents =>
             \/ \E s \in Task : pc[s] \in {"free", "mark", "purge"}
             \/ delExpunge /\ useCnt > 0
    BY <2>5 DEF IInv, Promise
  <2>7. ASSUME NEW s \in Task, pc[s] = "mark"
        PROVE  useCnt' > 0
    <3>1. useCnt # 1
      BY <2>1, <2>5, <2>7, Zenon DEF ClosePipe
    <3> QED BY <2>2, <3>1
  <2>8. \A s \in Task : s # t => pc'[s] = pc[s]
    BY <2>3
  <2>9. pc'[t] = IF useCnt = 1 /\ delExpunge THEN "free" ELSE "idle"
    BY <2>3 DEF Collects
  <2>10. Hub # t
    BY <2>4, Apart
  <2> QED BY <2>1, <2>2, <2>6, <2>7, <2>8, <2>9, <2>10, Apart
<1> QED BY <1>1, <1>2, <1>3, <1>4, <1>5, <1>6, <1>7, <1>8, <1>9 DEF IInv

LEMMA FreeTestStep ==
  ASSUME IInv, NEW t \in Task, FreeTest(t)
  PROVE  IInv'
<1>1. Shape'
  BY DEF IInv, Shape, Place, FreeTest, Goto, useVars, listVars, bodyVars
<1>2. InPlace'
  BY DEF IInv, InPlace, FreeTest, Goto
<1>3. LockHeld'
  BY Apart DEF IInv, LockHeld, FreeTest, Goto
<1>4. Disarmed'
  BY DEF IInv, Disarmed, FreeTest, Goto
<1>5. Counted'
  BY DEF IInv, Counted, FreeTest, Goto, useVars
<1>6. Bound'
  BY DEF IInv, Bound, Going, FreeTest, bodyVars
<1>7. Purged'
  BY Counts DEF IInv, Purged, Bound, Going, FreeTest, Goto, useVars, bodyVars
<1>8. Once'
  BY DEF IInv, Once, Work, FreeTest, Goto, useVars, listVars
<1>9. Promise'
  BY DEF IInv, Promise, FreeTest, Goto, useVars, bodyVars
<1> QED BY <1>1, <1>2, <1>3, <1>4, <1>5, <1>6, <1>7, <1>8, <1>9 DEF IInv

LEMMA FreeDeferStep ==
  ASSUME IInv, NEW t \in Task, FreeDefer(t)
  PROVE  IInv'
<1>1. Shape'
  BY Apart, Returns DEF IInv, Shape, Place, FreeDefer, Goto, useVars, listVars, bodyVars
<1>2. InPlace'
  BY Returns DEF IInv, InPlace, FreeDefer, Goto
<1>3. LockHeld'
  BY Apart, Returns DEF IInv, Shape, LockHeld, UnderLock, FreeDefer, Goto
<1>4. Disarmed'
  BY Apart, Returns DEF IInv, Disarmed, LockHeld, UnderLock, FreeDefer, Goto
<1>5. Counted'
  BY Apart, Returns DEF IInv, Counted, FreeDefer, Goto, useVars
<1>6. Bound'
  BY DEF IInv, Bound, Going, FreeDefer, bodyVars
<1>7. Purged'
  BY Apart, Returns DEF IInv, Purged, Counted, FreeDefer, Goto, useVars, bodyVars
<1>8. Once'
  BY Apart, Returns DEF IInv, Shape, Once, InPlace, Work, FreeDefer, Goto, useVars,
     listVars
<1>9. Promise'
  BY Apart, Returns DEF IInv, Promise, FreeDefer, Goto, useVars, bodyVars
<1> QED BY <1>1, <1>2, <1>3, <1>4, <1>5, <1>6, <1>7, <1>8, <1>9 DEF IInv

LEMMA FreeContentsStep ==
  ASSUME IInv, NEW t \in Task, FreeContents(t)
  PROVE  IInv'
<1>1. Shape'
  BY DEF IInv, Shape, Place, FreeContents, Goto, useVars, listVars
<1>2. InPlace'
  BY DEF IInv, InPlace, FreeContents, Goto
<1>3. LockHeld'
  BY DEF IInv, LockHeld, UnderLock, FreeContents, Goto
<1>4. Disarmed'
  BY DEF IInv, Disarmed, FreeContents
<1>5. Counted'
  BY DEF IInv, Counted, FreeContents, Goto, useVars
<1>6. Bound'
  BY DEF IInv, Bound, Going, FreeContents
<1>7. Purged'
  BY DEF IInv, Purged, FreeContents, Goto, useVars
<1>8. Once'
  BY DEF IInv, Once, Work, FreeContents, Goto, useVars, listVars
<1>9. Promise'
  BY DEF IInv, Promise, FreeContents, Goto, useVars
<1> QED BY <1>1, <1>2, <1>3, <1>4, <1>5, <1>6, <1>7, <1>8, <1>9 DEF IInv

LEMMA DestroyDeviceStep ==
  ASSUME IInv, NEW t \in Task, DestroyDevice(t)
  PROVE  IInv'
<1>1. Shape'
  BY DEF IInv, Shape, Place, DestroyDevice, OpenPipe, Goto, useVars, listVars
<1>2. InPlace'
  BY Apart DEF IInv, Shape, InPlace, DestroyDevice, Goto
<1>3. LockHeld'
  BY DEF IInv, Shape, LockHeld, UnderLock, DestroyDevice, Goto
<1>4. Disarmed'
  BY DEF IInv, Disarmed, DestroyDevice
<1>5. Counted'
  BY Opens DEF IInv, Shape, Counted, DestroyDevice, OpenPipe, Goto, useVars
<1>6. Bound'
  BY DEF IInv, Bound, Going, DestroyDevice
<1>7. Purged'
  BY Apart DEF IInv, Shape, Purged, DestroyDevice, OpenPipe, Goto, useVars
<1>8. Once'
  BY Apart DEF IInv, Shape, Once, Work, DestroyDevice, OpenPipe, Goto, useVars, listVars
<1>9. Promise'
  BY Apart, Counts DEF IInv, Shape, Promise, DestroyDevice, OpenPipe, Goto, useVars
<1> QED BY <1>1, <1>2, <1>3, <1>4, <1>5, <1>6, <1>7, <1>8, <1>9 DEF IInv

LEMMA DestroyedStep ==
  ASSUME IInv, NEW t \in Task, Destroyed(t)
  PROVE  IInv'
<1>1. Shape'
  BY DEF IInv, Shape, Place, Destroyed, ClosePipe, Goto, listVars, bodyVars
<1>2. InPlace'
  BY DEF IInv, InPlace, Destroyed, Goto
<1>3. LockHeld'
  BY DEF IInv, LockHeld, UnderLock, Destroyed, Goto
<1>4. Disarmed'
  BY DEF IInv, Disarmed, Destroyed, Collects
<1>5. Counted'
  BY Closes DEF IInv, Shape, Counted, Destroyed, ClosePipe, Goto
<1>6. Bound'
  BY DEF IInv, Bound, Going, Destroyed, bodyVars
<1>7. Purged'
  BY DEF IInv, Purged, Destroyed, ClosePipe, Goto, bodyVars
<1>8. Once'
  BY DEF IInv, Once, Work, Destroyed, ClosePipe, Goto, listVars
<1>9. Promise'
  BY DEF IInv, Shape, Promise, LockHeld, UnderLock, Destroyed, ClosePipe, Goto, bodyVars
<1> QED BY <1>1, <1>2, <1>3, <1>4, <1>5, <1>6, <1>7, <1>8, <1>9 DEF IInv

LEMMA FreeUnlockStep ==
  ASSUME IInv, NEW t \in Task, FreeUnlock(t)
  PROVE  IInv'
<1>1. Shape'
  BY DEF IInv, Shape, FreeUnlock, useVars, listVars, bodyVars
<1>2. InPlace'
  BY DEF IInv, InPlace, FreeUnlock
<1>3. LockHeld'
  BY DEF IInv, LockHeld, UnderLock, FreeUnlock
<1>4. Disarmed'
  BY DEF IInv, Disarmed, FreeUnlock
<1>5. Counted'
  BY DEF IInv, Counted, FreeUnlock, useVars
<1>6. Bound'
  BY DEF IInv, Bound, FreeUnlock, listVars, bodyVars
<1>7. Purged'
  BY DEF IInv, Purged, FreeUnlock, useVars, bodyVars
<1>8. Once'
  BY DEF IInv, Once, Work, FreeUnlock, useVars, listVars
<1>9. Promise'
  BY DEF IInv, Promise, FreeUnlock, useVars, bodyVars
<1> QED BY <1>1, <1>2, <1>3, <1>4, <1>5, <1>6, <1>7, <1>8, <1>9 DEF IInv

LEMMA FreeUnlinkStep ==
  ASSUME IInv, NEW t \in Task, FreeUnlink(t)
  PROVE  IInv'
<1>1. Shape'
  BY Apart, Returns DEF IInv, Shape, Place, FreeUnlink, Goto, useVars, bodyVars
<1>2. InPlace'
  BY Returns DEF IInv, InPlace, FreeUnlink, Goto
<1>3. LockHeld'
  BY Apart, Returns DEF IInv, LockHeld, UnderLock, FreeUnlink, Goto
<1>4. Disarmed'
  BY Apart, Returns DEF IInv, Disarmed, FreeUnlink, Goto
<1>5. Counted'
  BY Apart, Returns DEF IInv, Counted, FreeUnlink, Goto, useVars
<1>6. Bound'
  BY DEF IInv, Bound, Going, FreeUnlink, bodyVars
<1>7. Purged'
  BY Apart, Returns DEF IInv, Purged, Counted, FreeUnlink, Goto, useVars, bodyVars
<1>8. Once'
  BY Apart, Returns DEF IInv, Shape, Once, Work, FreeUnlink, Goto, useVars
<1>9. Promise'
  BY Apart, Returns DEF IInv, Promise, FreeUnlink, Goto, useVars, bodyVars
<1> QED BY <1>1, <1>2, <1>3, <1>4, <1>5, <1>6, <1>7, <1>8, <1>9 DEF IInv

LEMMA HubRetireStep ==
  ASSUME IInv, HubRetire
  PROVE  IInv'
<1>1. Shape'
  BY DEF IInv, Shape, Place, HubRetire, Goto, useVars, bodyVars
<1>2. InPlace'
  BY Apart DEF IInv, InPlace, HubRetire, Goto
<1>3. LockHeld'
  BY DEF IInv, LockHeld, UnderLock, HubRetire, Goto
<1>4. Disarmed'
  BY DEF IInv, Disarmed, HubRetire
<1>5. Counted'
  BY Apart DEF IInv, Counted, HubRetire, Goto, useVars
<1>6. Bound'
  BY Apart DEF IInv, Shape, Bound, Going, HubRetire, Goto, bodyVars
<1>7. Purged'
  BY DEF IInv, Purged, HubRetire, Goto, useVars, bodyVars
<1>8. Once'
  BY DEF IInv, Once, Work, HubRetire, Goto, useVars
<1>9. Promise'
  BY DEF IInv, Promise, HubRetire, Goto, useVars, bodyVars
<1> QED BY <1>1, <1>2, <1>3, <1>4, <1>5, <1>6, <1>7, <1>8, <1>9 DEF IInv

LEMMA LockBindingsStep ==
  ASSUME IInv, NEW t \in {Hub, Remover}, LockBindings(t)
  PROVE  IInv'
<1>1. Shape'
  BY Apart DEF IInv, Shape, Place, LockBindings, Goto, useVars, listVars, bodyVars
<1>2. InPlace'
  BY DEF IInv, InPlace, LockBindings, Goto
<1>3. LockHeld'
  BY Apart DEF IInv, LockHeld, LockBindings, Goto
<1>4. Disarmed'
  BY DEF IInv, Disarmed, LockBindings, Goto
<1>5. Counted'
  BY DEF IInv, Counted, LockBindings, Goto, useVars
<1>6. Bound'
  BY DEF IInv, Bound, Going, LockBindings, Goto, listVars, bodyVars
<1>7. Purged'
  BY DEF IInv, Purged, LockBindings, Goto, useVars, bodyVars
<1>8. Once'
  BY DEF IInv, Once, Work, LockBindings, Goto, useVars, listVars
<1>9. Promise'
  BY DEF IInv, Promise, LockBindings, Goto, useVars, bodyVars
<1> QED BY <1>1, <1>2, <1>3, <1>4, <1>5, <1>6, <1>7, <1>8, <1>9 DEF IInv

LEMMA ReleaseBindingsStep ==
  ASSUME IInv, NEW t \in {Hub, Remover}, ReleaseBindings(t)
  PROVE  IInv'
<1>1. Shape'
  BY DEF IInv, Shape, Place, ReleaseBindings, Goto, useVars, listVars
<1>2. InPlace'
  BY DEF IInv, InPlace, ReleaseBindings, Goto
<1>3. LockHeld'
  BY Apart DEF IInv, Shape, LockHeld, UnderLock, ReleaseBindings, Goto
<1>4. Disarmed'
  BY DEF IInv, Disarmed, ReleaseBindings, Goto
<1>5. Counted'
  BY DEF IInv, Counted, ReleaseBindings, Goto, useVars
<1>6. Bound'
  BY DEF IInv, Bound, ReleaseBindings
<1>7. Purged'
  BY DEF IInv, Purged, ReleaseBindings, Goto, useVars
<1>8. Once'
  BY DEF IInv, Once, Work, ReleaseBindings, Goto, useVars, listVars
<1>9. Promise'
  BY DEF IInv, Promise, ReleaseBindings, Goto, useVars
<1> QED BY <1>1, <1>2, <1>3, <1>4, <1>5, <1>6, <1>7, <1>8, <1>9 DEF IInv

LEMMA RemStartStep ==
  ASSUME IInv, RemStart
  PROVE  IInv'
<1>1. Shape'
  BY DEF IInv, Shape, Place, RemStart, Goto, useVars, bodyVars
<1>2. InPlace'
  BY Apart DEF IInv, Shape, InPlace, RemStart, Goto
<1>3. LockHeld'
  BY DEF IInv, Shape, LockHeld, UnderLock, RemStart, Goto
<1>4. Disarmed'
  BY DEF IInv, Shape, Disarmed, RemStart, Goto
<1>5. Counted'
  BY Apart DEF IInv, Shape, Counted, RemStart, Goto, useVars
<1>6. Bound'
  BY Apart DEF IInv, Shape, Bound, Going, RemStart, Goto, bodyVars
<1>7. Purged'
  BY Apart DEF IInv, Shape, Purged, RemStart, Goto, useVars, bodyVars
<1>8. Once'
  BY DEF IInv, Shape, Once, Work, RemStart, Goto, useVars
<1>9. Promise'
  BY DEF IInv, Shape, Promise, RemStart, Goto, useVars, bodyVars
<1> QED BY <1>1, <1>2, <1>3, <1>4, <1>5, <1>6, <1>7, <1>8, <1>9 DEF IInv

LEMMA RemLookStep ==
  ASSUME IInv, RemLook
  PROVE  IInv'
<1>1. Shape'
  BY DEF IInv, Shape, Place, RemLook, Goto, useVars, listVars, bodyVars
<1>2. InPlace'
  BY DEF IInv, InPlace, RemLook, Goto
<1>3. LockHeld'
  BY DEF IInv, LockHeld, UnderLock, RemLook, Goto
<1>4. Disarmed'
  BY DEF IInv, Disarmed, RemLook, Goto
<1>5. Counted'
  BY DEF IInv, Counted, RemLook, Goto, useVars
<1>6. Bound'
  BY DEF IInv, Bound, InPlace, RemLook, bodyVars
<1>7. Purged'
  BY DEF IInv, Purged, RemLook, Goto, useVars, bodyVars
<1>8. Once'
  BY DEF IInv, Once, Work, RemLook, Goto
<1>9. Promise'
  BY DEF IInv, Promise, RemLook, Goto
<1> QED BY <1>1, <1>2, <1>3, <1>4, <1>5, <1>6, <1>7, <1>8, <1>9 DEF IInv

LEMMA RemUnusedStep ==
  ASSUME IInv, RemUnused
  PROVE  IInv'
<1>1. Shape'
  BY DEF IInv, Shape, Place, RemUnused, Goto, useVars, listVars, bodyVars
<1>2. InPlace'
  BY DEF IInv, InPlace, RemUnused, Goto
<1>3. LockHeld'
  BY DEF IInv, LockHeld, UnderLock, RemUnused, Goto
<1>4. Disarmed'
  BY DEF IInv, Disarmed, RemUnused, Goto
<1>5. Counted'
  BY DEF IInv, Shape, Counted, RemUnused, Goto, useVars
<1>6. Bound'
  BY DEF IInv, Bound, Going, RemUnused, Goto, listVars, bodyVars
<1>7. Purged'
  BY DEF IInv, Purged, RemUnused, Goto, useVars, bodyVars
<1>8. Once'
  BY DEF IInv, Once, Work, RemUnused, Goto
<1>9. Promise'
  BY DEF IInv, Promise, RemUnused, Goto
<1> QED BY <1>1, <1>2, <1>3, <1>4, <1>5, <1>6, <1>7, <1>8, <1>9 DEF IInv

LEMMA RemTimeoutStep ==
  ASSUME IInv, RemTimeout
  PROVE  IInv'
<1>1. Shape'
  BY DEF IInv, Shape, Place, RemTimeout, Goto, useVars, listVars, bodyVars
<1>2. InPlace'
  BY DEF IInv, InPlace, RemTimeout, Goto
<1>3. LockHeld'
  BY DEF IInv, LockHeld, UnderLock, RemTimeout, Goto
<1>4. Disarmed'
  BY DEF IInv, Disarmed, RemTimeout, Goto
<1>5. Counted'
  BY DEF IInv, Counted, RemTimeout, Goto, useVars
<1>6. Bound'
  BY DEF IInv, Bound, Going, RemTimeout, Goto, listVars, bodyVars
<1>7. Purged'
  BY DEF IInv, Purged, RemTimeout, Goto, useVars, bodyVars
<1>8. Once'
  BY DEF IInv, Once, Work, RemTimeout, Goto
<1>9. Promise'
  BY DEF IInv, Promise, RemTimeout, Goto
<1> QED BY <1>1, <1>2, <1>3, <1>4, <1>5, <1>6, <1>7, <1>8, <1>9 DEF IInv

LEMMA RemAbandonStep ==
  ASSUME IInv, RemAbandon
  PROVE  IInv'
<1>1. Shape'
  BY DEF IInv, Shape, Place, RemAbandon, Goto, useVars, listVars, bodyVars
<1>2. InPlace'
  BY DEF IInv, InPlace, RemAbandon, Goto
<1>3. LockHeld'
  BY DEF IInv, LockHeld, UnderLock, RemAbandon, Goto
<1>4. Disarmed'
  BY DEF IInv, Disarmed, RemAbandon
<1>5. Counted'
  BY DEF IInv, Counted, RemAbandon, Goto, useVars
<1>6. Bound'
  BY DEF IInv, Bound, Going, RemAbandon, Goto, listVars, bodyVars
<1>7. Purged'
  BY DEF IInv, Purged, RemAbandon, Goto, useVars, bodyVars
<1>8. Once'
  BY DEF IInv, Once, Work, RemAbandon, Goto
<1>9. Promise'
  BY DEF IInv, Promise, RemAbandon, Goto
<1> QED BY <1>1, <1>2, <1>3, <1>4, <1>5, <1>6, <1>7, <1>8, <1>9 DEF IInv

LEMMA RemDoneStep ==
  ASSUME IInv, RemDone
  PROVE  IInv'
<1>1. Shape'
  BY DEF IInv, Shape, Place, RemDone, Goto, useVars, listVars, bodyVars
<1>2. InPlace'
  BY DEF IInv, InPlace, RemDone, Goto
<1>3. LockHeld'
  BY DEF IInv, LockHeld, UnderLock, RemDone, Goto
<1>4. Disarmed'
  BY DEF IInv, Disarmed, RemDone, Goto
<1>5. Counted'
  BY DEF IInv, Counted, RemDone, Goto, useVars
<1>6. Bound'
  BY DEF IInv, Bound, RemDone, bodyVars
<1>7. Purged'
  BY DEF IInv, Purged, RemDone, Goto, useVars, bodyVars
<1>8. Once'
  BY DEF IInv, Once, Work, RemDone, Goto
<1>9. Promise'
  BY DEF IInv, Promise, RemDone, Goto
<1> QED BY <1>1, <1>2, <1>3, <1>4, <1>5, <1>6, <1>7, <1>8, <1>9 DEF IInv

LEMMA SweepPickStep ==
  ASSUME IInv, SweepPick
  PROVE  IInv'
<1>1. Shape'
  BY DEF IInv, Shape, Place, SweepPick, Goto, useVars, listVars, bodyVars
<1>2. InPlace'
  BY Apart DEF IInv, InPlace, SweepPick, Goto
<1>3. LockHeld'
  BY DEF IInv, LockHeld, UnderLock, SweepPick, Goto
<1>4. Disarmed'
  BY DEF IInv, Disarmed, SweepPick
<1>5. Counted'
  BY Apart DEF IInv, Counted, SweepPick, Goto, useVars
<1>6. Bound'
  BY DEF IInv, Bound, Going, SweepPick, Goto, listVars, bodyVars
<1>7. Purged'
  BY DEF IInv, Purged, SweepPick, Goto, useVars, bodyVars
<1>8. Once'
  BY DEF IInv, Once, Work, SweepPick, Goto, useVars, listVars
<1>9. Promise'
  BY DEF IInv, Promise, SweepPick, Goto, useVars, bodyVars
<1> QED BY <1>1, <1>2, <1>3, <1>4, <1>5, <1>6, <1>7, <1>8, <1>9 DEF IInv

LEMMA SweepOpenStep ==
  ASSUME IInv, SweepOpen
  PROVE  IInv'
<1>1. Shape'
  BY DEF IInv, Shape, Place, SweepOpen, OpenPipe, Goto, listVars, bodyVars
<1>2. InPlace'
  BY DEF IInv, InPlace, SweepOpen, Goto
<1>3. LockHeld'
  BY DEF IInv, LockHeld, UnderLock, SweepOpen, Goto
<1>4. Disarmed'
  BY DEF IInv, Disarmed, SweepOpen, Goto
<1>5. Counted'
  BY Apart, Opens DEF IInv, Shape, Counted, SweepOpen, OpenPipe, Goto
<1>6. Bound'
  BY DEF IInv, Bound, Going, SweepOpen, Goto, listVars, bodyVars
<1>7. Purged'
  BY DEF IInv, Purged, SweepOpen, OpenPipe, Goto, bodyVars
<1>8. Once'
  BY DEF IInv, Shape, Once, Work, SweepOpen, OpenPipe, Goto, listVars
<1>9. Promise'
  BY Counts DEF IInv, Promise, SweepOpen, OpenPipe, Goto, bodyVars
<1> QED BY <1>1, <1>2, <1>3, <1>4, <1>5, <1>6, <1>7, <1>8, <1>9 DEF IInv

-----------------------------------------------------------------------------
LEMMA InitIInv == Init => IInv
<1> SUFFICES ASSUME Init PROVE IInv
  OBVIOUS
<1>1. Shape /\ InPlace
  BY Apart DEF Init, Shape, InPlace, Place
<1>2. LockHeld /\ Disarmed
  BY DEF Init, LockHeld, Disarmed, UnderLock
<1>3. Counted
  BY FS_EmptySet DEF Init, Counted
<1>4. Bound /\ Purged
  BY Apart DEF Init, Bound, Purged, Going
<1>5. Once /\ Promise
  BY Apart DEF Init, Once, Promise, Work
<1> QED BY <1>1, <1>2, <1>3, <1>4, <1>5 DEF IInv

LEMMA StutterIInv == IInv /\ UNCHANGED vars => IInv'
  BY DEF vars, useVars, listVars, bodyVars, IInv, Shape, InPlace, LockHeld, Disarmed, Counted,
     Bound,
     Purged, Once, Promise

LEMMA Invariant == Spec => []IInv
<1>1. IInv /\ [Next]_vars => IInv'
  <2> SUFFICES ASSUME IInv, [Next]_vars PROVE IInv'
    OBVIOUS
  <2>1. ASSUME NEW t \in Task, FreePipe(t) \/ FreeDevice(t)
        PROVE  IInv'
    BY <2>1, FreePipeStep, FreeTestStep, FreeDeferStep, FreeContentsStep, DestroyDeviceStep,
       DestroyedStep, FreeUnlockStep, FreeUnlinkStep, Zenon DEF FreeDevice
  <2> QED BY <2>1, AllocPipeStep, HubRetireStep, LockBindingsStep, ReleaseBindingsStep,
             RemStartStep,
             RemLookStep, RemUnusedStep, RemTimeoutStep, RemAbandonStep, RemDoneStep, SweepPickStep,
             SweepOpenStep, StutterIInv, Zenon DEF Next
<1> QED BY InitIInv, <1>1, PTL DEF Spec

-----------------------------------------------------------------------------
\* The state has the shape TypeOK names: above all pd_UseCnt never runs past the
\* tasks that have a pipe open, nor below 0 (psdAllocPipe, psdFreePipe).
THEOREM DeviceTypeCorrect == Spec => []TypeOK
<1>1. IInv => TypeOK
  <2> SUFFICES ASSUME IInv PROVE TypeOK
    OBVIOUS
  <2>1. useCnt \in 0..Cardinality(Task)
    BY Counts, Apart, FS_CardinalityType DEF IInv
  <2>2. nested \in BOOLEAN /\ pipes \subseteq Task
    BY DEF IInv, Disarmed, Counted
  <2> QED BY <2>1, <2>2 DEF IInv, Shape, Place, TypeOK
<1> QED BY Invariant, <1>1, PTL

\* pFreeDevice disarms PDFF_DELEXPUNGE before the backend's destroy op opens and
\* frees its pipe: psdFreePipe never starts a second free from inside the first.
THEOREM NeverReentered == Spec => []NoReentry
<1>1. IInv => NoReentry
  BY DEF IInv, Disarmed, NoReentry
<1> QED BY Invariant, <1>1, PTL

\* pFreeDevice takes the configurations and endpoints away only when no class
\* has a pipe open on them, whoever calls it and however late.
THEOREM FreedWhenUnused == Spec => []FreeOnlyUnused
<1>1. IInv => FreeOnlyUnused
  BY DEF IInv, Purged, FreeOnlyUnused
<1> QED BY Invariant, <1>1, PTL

\* A retired device is freed once and is freed at last, by psdFreeDevice or by
\* the last psdFreePipe.  The races excepted are those of the code: a pipe
\* opened on a device marked PDFF_DELEXPUNGE, psdRemHardware joining in, and a
\* last pipe that goes between pFreeDevice's test and its mark.
THEOREM FreedOnce == Spec => []FreedOnceUnlessRaced
<1>1. IInv => FreedOnceUnlessRaced
  <2> SUFFICES ASSUME IInv PROVE FreedOnceUnlessRaced
    OBVIOUS
  <2>1. unlinks > 1 => late \/ pc[Remover] # "idle"
    BY DEF IInv, Shape, Once
  <2>2. Stranded /\ pc[Remover] = "idle" => raced
    BY DEF IInv, Promise, Stranded, AtRest
  <2> QED BY <2>1, <2>2 DEF FreedOnceUnlessRaced
<1> QED BY Invariant, <1>1, PTL
=============================================================================
