---------------------------- MODULE BindingProof ----------------------------
(***************************************************************************)
(* Proofs about Binding.  BindingsAccounted is not inductive: that a       *)
(* binding is in one place follows from who holds the device lock and from *)
(* what a task between the steps of a release has read, the use count from *)
(* where each binding is.                                                  *)
(***************************************************************************)
EXTENDS Binding, FiniteSetTheorems, TLAPS

\* The steps that are taken under the device lock.  The Owner keeps it from
\* one binding to the next.
Locked(t) == \/ pc[t] \in {"take", "test", "hook", "retract", "call", "count", "unlock",
                           "offer", "leave"}
             \/ t = Owner /\ pc[t] = "walk"

LockHeld == \A t \in Task : Locked(t) => lock = t

\* The Owner releases under the lock it has.  A task has a class in hand between
\* the reading of the owner and the end of the release, and a scan only
\* interfaces to look at.
InSteps == \A t \in Task :
  /\ pc[t] \in {"check", "lock"} => t # Owner
  /\ pc[t] \in {"call", "count"} => puc[t] \in Class
  /\ pc[t] \notin {"call", "count", "unlock", "lost"} => puc[t] = None
  /\ pc[t] = "lost" /\ ~misled => puc[t] = None
  /\ pc[t] \in {"test", "hook", "retract"} => slot[t] = Dev
  /\ pc[t] = "offer" => left[t] \subseteq Iface

\* A class that is named has the binding, until it is told.
OwnerLive == /\ \A s \in Slot : owner[s] # None => <<s, owner[s]>> \in live
             /\ \A t \in Task : pc[t] = "call" => /\ <<slot[t], puc[t]>> \in live
                                                  /\ owner[slot[t]] = None

\* Only after a claim that was overlapped is anybody handed what is not his.
MisledLate == misled => overlap

\* The use count.
UseCovers == ~misled => \A k \in Class : use[k] >= Bindings(k)
UseExact  == ~overlap => \A k \in Class : use[k] = Bindings(k)
AbsentZero == ~misled => \A k \in Class : class[k] = "absent" => use[k] = 0

\* The fields of the device and its interfaces agree.
FieldsAgree == ~overlap =>
  /\ \A s \in Slot : field[s] \in Class => owner[s] = field[s] /\ (s = Dev => ~app)
  /\ \A s \in Slot : field[s] \in User => s = Dev /\ app /\ field[s] \in claimed /\ owner[s] = None

\* What a task took out of a field is what the flag and the owner still say.
HandsAgree == ~overlap => \A t \in Task :
  /\ pc[t] = "offer" => field[Dev] = None
  /\ pc[t] \in {"test", "hook", "retract"} => field[Dev] = None
  /\ pc[t] = "test" /\ ~app => hand[t] \in Class /\ owner[Dev] = hand[t]
  /\ pc[t] = "hook" \/ (pc[t] = "test" /\ app) => app /\ hand[t] \in claimed /\ owner[Dev] = None
  /\ pc[t] = "retract" => app /\ owner[Dev] = None
  /\ pc[t] = "call" => hand[t] = puc[t] /\ field[slot[t]] \notin Class

\* What a claim has tested, and then written, still holds; no other claim and no
\* release is between its steps while it writes.
ClaimsAgree == ~overlap => \A t \in Task :
  /\ pc[t] \in {"interfaces", "flag", "bind"} => field[Dev] = None
  /\ pc[t] = "disown" => field[Dev] = t
  /\ pc[t] \in {"bind", "disown"} =>
       /\ app /\ owner[Dev] = None
       /\ \A u \in Task \ {t} : pc[u] \notin {"test", "hook", "retract", "bind", "disown"}

\* Nothing is lost.
NothingLost == ~overlap =>
  /\ \A s \in Slot, k \in Class : <<s, k>> \in live =>
       field[s] = k \/ \E t \in Task : pc[t] \in {"test", "call"} /\ slot[t] = s /\ hand[t] = k
  /\ \A u \in claimed :
       field[Dev] = u \/ \E t \in Task : pc[t] \in {"test", "hook"} /\ hand[t] = u
  /\ app => \/ field[Dev] \in User
            \/ \E t \in Task : pc[t] \in {"test", "hook"} /\ hand[t] \in User
            \/ \E t \in Task : pc[t] \in {"retract", "bind"}

IInv == /\ TypeOK /\ LockHeld /\ InSteps /\ OwnerLive /\ MisledLate
        /\ UseCovers /\ UseExact /\ AbsentZero
        /\ FieldsAgree /\ HandsAgree /\ ClaimsAgree /\ NothingLost

-----------------------------------------------------------------------------
\* How the number of a class's bindings changes.
Live(k) == {s \in Slot : <<s, k>> \in live}
Telling(k) == {t \in Task : pc[t] = "count" /\ puc[t] = k}

LEMMA Grow ==
  ASSUME NEW S, NEW x, IsFiniteSet(S)
  PROVE  /\ IsFiniteSet(S \cup {x}) /\ Cardinality(S) \in Nat
         /\ x \notin S => Cardinality(S \cup {x}) = Cardinality(S) + 1
         /\ Cardinality(S \cup {x}) <= Cardinality(S) + 1
  BY FS_AddElement, FS_CardinalityType

LEMMA Shrink ==
  ASSUME NEW S, NEW x \in S, IsFiniteSet(S)
  PROVE  /\ Cardinality(S \ {x}) = Cardinality(S) - 1
         /\ Cardinality(S) \in Nat /\ Cardinality(S) >= 1
<1>1. Cardinality(S \ {x}) = Cardinality(S) - 1
  BY FS_RemoveElement
<1>2. Cardinality(S \ {x}) \in Nat /\ Cardinality(S) \in Nat
  BY FS_RemoveElement, FS_CardinalityType
<1> QED BY <1>1, <1>2

LEMMA Finite == \A k : IsFiniteSet(Live(k)) /\ IsFiniteSet(Telling(k))
<1>1. IsFiniteSet(Slot)
  <2>1. Slot = Iface \cup {Dev}
    BY DEF Slot
  <2> QED BY <2>1, Grow, BindingAssumption
<1>2. IsFiniteSet({Owner, Sweep})
  <2>1. {Owner, Sweep} = {Owner} \cup {Sweep}
    OBVIOUS
  <2>2. IsFiniteSet({Owner})
    BY FS_Singleton
  <2>3. IsFiniteSet({Owner} \cup {Sweep})
    BY <2>2, Grow
  <2> QED BY <2>1, <2>3
<1>3. IsFiniteSet(Task)
  BY <1>2, BindingAssumption, FS_Union DEF Task
<1> QED BY <1>1, <1>3, FS_Subset DEF Live, Telling

LEMMA BindingsIs ==
  ASSUME NEW k
  PROVE  /\ Bindings(k) = Cardinality(Live(k)) + Cardinality(Telling(k))
         /\ Cardinality(Live(k)) \in Nat /\ Cardinality(Telling(k)) \in Nat
         /\ Bindings(k) \in Nat
<1>1. Cardinality(Live(k)) \in Nat /\ Cardinality(Telling(k)) \in Nat
  BY Finite, FS_CardinalityType
<1>2. Bindings(k) = Cardinality(Live(k)) + Cardinality(Telling(k))
  BY DEF Bindings, Live, Telling
<1> QED BY <1>1, <1>2

LEMMA SameBindings ==
  ASSUME NEW k, live' = live,
         \A t \in Task : pc'[t] = "count" /\ puc'[t] = k <=> pc[t] = "count" /\ puc[t] = k
  PROVE  Bindings(k)' = Bindings(k)
  BY DEF Bindings

\* A scan binds slot s to class k.
LEMMA OneMore ==
  ASSUME NEW s \in Slot, NEW k, NEW j, live' = live \cup {<<s, k>>},
         \A t \in Task : pc'[t] = "count" /\ puc'[t] = j <=> pc[t] = "count" /\ puc[t] = j
  PROVE  /\ Bindings(j)' \in Nat /\ Bindings(j)' <= Bindings(j) + (IF j = k THEN 1 ELSE 0)
         /\ <<s, k>> \notin live => Bindings(j)' = Bindings(j) + (IF j = k THEN 1 ELSE 0)
<1>1. Live(j)' = IF j = k THEN Live(j) \cup {s} ELSE Live(j)
  BY DEF Live
<1>2. Telling(j)' = Telling(j)
  BY DEF Telling
<1>3. Bindings(j)' = Cardinality(Live(j)') + Cardinality(Telling(j)')
  BY DEF Bindings, Live, Telling
<1>4. /\ Cardinality(Live(j) \cup {s}) <= Cardinality(Live(j)) + 1
      /\ s \notin Live(j) => Cardinality(Live(j) \cup {s}) = Cardinality(Live(j)) + 1
  BY Finite, Grow
<1>5. s \in Live(k) <=> <<s, k>> \in live
  BY DEF Live
<1>6. /\ Bindings(j) = Cardinality(Live(j)) + Cardinality(Telling(j))
      /\ Cardinality(Live(j)) \in Nat /\ Cardinality(Telling(j)) \in Nat
      /\ Cardinality(Live(j) \cup {s}) \in Nat
  BY BindingsIs, Finite, Grow, FS_CardinalityType
<1>7. CASE j = k
  BY <1>7, <1>1, <1>2, <1>3, <1>4, <1>5, <1>6
<1>8. CASE j # k
  BY <1>8, <1>1, <1>2, <1>3, <1>6
<1> QED BY <1>7, <1>8

\* A task has told class k of the end of slot s, and counts it down next.
LEMMA Told ==
  ASSUME NEW s \in Slot, NEW k, NEW j, NEW t \in Task,
         <<s, k>> \in live, live' = live \ {<<s, k>>},
         pc[t] # "count", pc'[t] = "count", puc'[t] = k,
         \A u \in Task \ {t} : pc'[u] = pc[u] /\ puc'[u] = puc[u]
  PROVE  Bindings(j)' = Bindings(j)
<1>1. Live(j)' = IF j = k THEN Live(j) \ {s} ELSE Live(j)
  BY DEF Live
<1>2. Telling(j)' = IF j = k THEN Telling(j) \cup {t} ELSE Telling(j)
  BY DEF Telling
<1>3. Bindings(j)' = Cardinality(Live(j)') + Cardinality(Telling(j)')
  BY DEF Bindings, Live, Telling
<1>4. j = k => s \in Live(j) /\ t \notin Telling(j)
  BY DEF Live, Telling
<1>5. /\ s \in Live(j) => Cardinality(Live(j) \ {s}) = Cardinality(Live(j)) - 1
      /\ t \notin Telling(j) => Cardinality(Telling(j) \cup {t}) = Cardinality(Telling(j)) + 1
  BY Finite, Grow, Shrink
<1> QED BY <1>1, <1>2, <1>3, <1>4, <1>5, BindingsIs

\* It has counted it down.
LEMMA OneLess ==
  ASSUME NEW k, NEW j, NEW t \in Task, live' = live,
         pc[t] = "count", puc[t] = k, pc'[t] # "count",
         \A u \in Task \ {t} : pc'[u] = pc[u] /\ puc'[u] = puc[u]
  PROVE  /\ Bindings(j)' = Bindings(j) - (IF j = k THEN 1 ELSE 0)
         /\ Bindings(k) >= 1
<1>1. Live(j)' = Live(j)
  BY DEF Live
<1>2. Telling(j)' = IF j = k THEN Telling(j) \ {t} ELSE Telling(j)
  BY DEF Telling
<1>3. Bindings(j)' = Cardinality(Live(j)') + Cardinality(Telling(j)')
  BY DEF Bindings, Live, Telling
<1>4. t \in Telling(k) /\ (j = k => t \in Telling(j))
  BY DEF Telling
<1>5. /\ t \in Telling(j) => Cardinality(Telling(j) \ {t}) = Cardinality(Telling(j)) - 1
      /\ Cardinality(Telling(k)) >= 1
  BY <1>4, Finite, Shrink
<1> QED BY <1>1, <1>2, <1>3, <1>4, <1>5, BindingsIs

\* Most steps change no count.
LEMMA CountsKept ==
  ASSUME IInv, live' = live, use' = use, overlap => overlap', misled => misled',
         \A t \in Task, k \in Class :
           pc'[t] = "count" /\ puc'[t] = k <=> pc[t] = "count" /\ puc[t] = k
  PROVE  UseCovers' /\ UseExact'
  BY SameBindings DEF IInv, UseCovers, UseExact

LEMMA CheckStep ==
  ASSUME NEW t \in Task, IInv, Check(t)
  PROVE  IInv'
<1>1. TypeOK'
  <2>1. \E l \in {"lock", "walk", "again", "idle", "lost"} : pc' = [pc EXCEPT ![t] = l]
    BY BindingAssumption DEF Check, Goto, Back, Leave, Stale, Wild, Task
  <2>2. pc' \in [Task -> {"idle", "check", "lock", "take", "test", "hook", "retract", "call", "count",
                      "unlock", "walk", "again", "look", "close", "scan", "offer", "leave",
                      "claim", "interfaces", "flag", "bind", "disown", "retire", "purge", "lost"}]
    BY <2>1 DEF IInv, TypeOK
  <2>3. wild' \in BOOLEAN
    BY DEF IInv, TypeOK, Check, Wild, Stale
  <2>4. UNCHANGED <<place, class, use, bindVars, lockVars, taskVars, restVars, overlap, misled>>
    BY DEF Check
  <2>5. ({root, app, overlap, misled, wild} \subseteq BOOLEAN)'
    BY <2>3, <2>4 DEF IInv, TypeOK, bindVars, restVars
  <2> QED BY <2>2, <2>4, <2>5 DEF IInv, TypeOK, bindVars, lockVars, taskVars, restVars
<1>2. LockHeld'
  BY DEF IInv, TypeOK, LockHeld, InSteps, Locked, Check, Goto, Back, Leave, Stale,
     Wild, lockVars, Task
<1>3. InSteps'
  BY DEF IInv, TypeOK, InSteps, Check, Goto, Back, Leave, Stale, Wild, taskVars, Task, ghosts
<1>4. OwnerLive'
  BY DEF IInv, TypeOK, OwnerLive, InSteps, Check, Goto, Back, Leave, Stale, Wild,
     bindVars, taskVars, Task, All
<1>5. UseCovers' /\ UseExact' /\ AbsentZero'
  BY CountsKept, BindingAssumption DEF IInv, TypeOK, InSteps, AbsentZero, Check, Goto,
     Back, Leave, Stale, Wild, bindVars, taskVars
<1>6. FieldsAgree'
  BY DEF IInv, FieldsAgree, Check, Goto, Back, Leave, Stale, Wild, bindVars
<1>7. HandsAgree'
  BY DEF IInv, TypeOK, HandsAgree, Check, Goto, Back, Leave, Stale, Wild, bindVars,
     taskVars, Task
<1>8. NothingLost'
  BY DEF IInv, TypeOK, NothingLost, FieldsAgree, Check, Goto, Back, Leave, Stale,
     Wild, bindVars, taskVars
<1>9. MisledLate'
  BY DEF IInv, MisledLate, HandsAgree, Check, ghosts
<1>10. ClaimsAgree'
  <2>1. \E l \in {"lock", "walk", "again", "idle", "lost"} : pc' = [pc EXCEPT ![t] = l]
    BY BindingAssumption DEF Check, Goto, Back, Stale, Wild, Task
  <2> QED BY <2>1 DEF IInv, TypeOK, ClaimsAgree, Check, bindVars
<1> QED BY <1>1, <1>2, <1>3, <1>4, <1>5, <1>6, <1>7, <1>8, <1>9, <1>10 DEF IInv

LEMMA LockDeviceStep ==
  ASSUME NEW t \in Task, IInv, LockDevice(t)
  PROVE  IInv'
<1>1. TypeOK'
  BY DEF IInv, TypeOK, LockDevice, Goto, bindVars, taskVars, restVars, ghosts
<1>2. LockHeld'
  BY BindingAssumption DEF IInv, LockHeld, Locked, LockDevice, Goto
<1>3. InSteps'
  BY DEF IInv, InSteps, LockDevice, Goto, taskVars, ghosts
<1>4. OwnerLive'
  BY DEF IInv, OwnerLive, LockDevice, Goto, bindVars, taskVars
<1>5. UseCovers' /\ UseExact' /\ AbsentZero'
  BY CountsKept DEF IInv, AbsentZero, LockDevice, Goto, bindVars, taskVars, ghosts
<1>6. FieldsAgree'
  BY DEF IInv, FieldsAgree, LockDevice, Goto, bindVars, ghosts
<1>7. HandsAgree'
  BY DEF IInv, HandsAgree, LockDevice, Goto, bindVars, taskVars, ghosts
<1>8. NothingLost'
  BY DEF IInv, NothingLost, LockDevice, Goto, bindVars, taskVars, ghosts
<1>9. MisledLate'
  BY DEF IInv, MisledLate, HandsAgree, LockDevice, ghosts
<1>10. ClaimsAgree'
  BY BindingAssumption DEF IInv, ClaimsAgree, FieldsAgree, LockDevice, Goto, bindVars,
     taskVars, ghosts, TypeOK
<1> QED BY <1>1, <1>2, <1>3, <1>4, <1>5, <1>6, <1>7, <1>8, <1>9, <1>10 DEF IInv

LEMMA TakeBindingStep ==
  ASSUME NEW t \in Task, IInv, TakeBinding(t)
  PROVE  IInv'
<1>1. TypeOK'
  <2>1. \E l \in {"lost", "unlock", "test", "call"} : pc' = [pc EXCEPT ![t] = l]
    BY BindingAssumption DEF TakeBinding, OtherWrites, Claiming, Goto, Cleared, Leave
  <2>2. wild' \in BOOLEAN
    BY BindingAssumption DEF IInv, TypeOK, TakeBinding, OtherWrites, Claiming, Goto, Cleared, Leave
  <2>3. field' \in [Slot -> Class \cup User \cup {None}]
    BY BindingAssumption DEF IInv, TypeOK, TakeBinding, OtherWrites, Claiming, Goto, Cleared, Leave
  <2>4. owner' \in [Slot -> Class \cup {None}]
    BY BindingAssumption DEF IInv, TypeOK, TakeBinding, OtherWrites, Claiming, Goto, Cleared, Leave
  <2>5. hand' \in [Task -> Class \cup User \cup {None}]
    BY BindingAssumption DEF IInv, TypeOK, TakeBinding, OtherWrites, Claiming, Goto, Cleared, Leave
  <2>6. puc' \in [Task -> Class \cup {None}]
    BY BindingAssumption DEF IInv, TypeOK, TakeBinding, OtherWrites, Claiming, Goto, Cleared, Leave
  <2>7. UNCHANGED <<place, class, use, app, live, claimed, lockVars, slot, left, restVars,
                   misled>>
    BY DEF TakeBinding
  <2>8. ({root, app, overlap, misled, wild} \subseteq BOOLEAN)'
    BY <2>2, <2>7 DEF IInv, TypeOK, TakeBinding, OtherWrites, restVars
  <2>9. UNCHANGED place /\ pc' \in [Task -> {"lost", "unlock", "test", "call"} \cup {pc[x] : x \in Task}]
    BY <2>1, <2>7 DEF IInv, TypeOK
  <2> QED BY <2>1, <2>2, <2>3, <2>4, <2>5, <2>6, <2>7, <2>8, <2>9 DEF IInv, TypeOK, bindVars,
     lockVars, taskVars, restVars, ghosts
<1>2. LockHeld'
  BY DEF IInv, TypeOK, LockHeld, Locked, TakeBinding, OtherWrites, Claiming, Goto, Cleared,
     Leave, Stale,
     lockVars, Sweep
<1>3. InSteps'
  BY DEF IInv, TypeOK, InSteps, TakeBinding, OtherWrites, Claiming, Goto, Cleared, Leave,
     Stale, ghosts
<1>4. OwnerLive'
  BY DEF IInv, TypeOK, OwnerLive, TakeBinding, OtherWrites, Claiming, Goto, Cleared, Leave,
     Stale, Sweep
<1>5. UseCovers' /\ UseExact' /\ AbsentZero'
  BY CountsKept DEF IInv, TypeOK, AbsentZero, TakeBinding, OtherWrites, Claiming, Goto,
     Cleared, Leave, Stale
<1>6. FieldsAgree'
  BY BindingAssumption DEF IInv, TypeOK, FieldsAgree, TakeBinding, OtherWrites, Claiming, Goto,
     Cleared,
     Leave, Stale
<1>7. HandsAgree'
  BY BindingAssumption DEF IInv, TypeOK, HandsAgree, LockHeld, Locked, FieldsAgree,
     TakeBinding, OtherWrites, Claiming, Goto, Cleared, Leave, Stale
<1>8. NothingLost'
  BY DEF IInv, TypeOK, NothingLost, FieldsAgree, TakeBinding, OtherWrites, Claiming, Goto,
     Cleared, Leave,
     Stale, Slot
<1>9. MisledLate'
  BY DEF IInv, MisledLate, HandsAgree, TakeBinding, OtherWrites, Claiming, ghosts
<1>10. ClaimsAgree'
  BY BindingAssumption DEF IInv, ClaimsAgree, FieldsAgree, TypeOK, TakeBinding, OtherWrites,
     Claiming, Goto, Cleared, Leave, Stale, Slot, ghosts, bindVars, taskVars
<1> QED BY <1>1, <1>2, <1>3, <1>4, <1>5, <1>6, <1>7, <1>8, <1>9, <1>10 DEF IInv

LEMMA TestFlagStep ==
  ASSUME NEW t \in Task, IInv, TestFlag(t)
  PROVE  IInv'
<1>1. TypeOK'
  <2>1. \E l \in {"hook", "unlock", "call"} : pc' = [pc EXCEPT ![t] = l]
    BY DEF TestFlag, OtherWrites, Claiming, Goto
  <2>2. pc' \in [Task -> {"idle", "check", "lock", "take", "test", "hook", "retract", "call", "count",
                      "unlock", "walk", "again", "look", "close", "scan", "offer", "leave",
                      "claim", "interfaces", "flag", "bind", "disown", "retire", "purge", "lost"}]
    BY <2>1 DEF IInv, TypeOK
  <2>3. owner' \in [Slot -> Class \cup {None}]
    BY BindingAssumption DEF IInv, TypeOK, TestFlag, OtherWrites, Claiming, Slot
  <2>4. puc' \in [Task -> Class \cup {None}]
    BY BindingAssumption DEF IInv, TypeOK, TestFlag, OtherWrites, Claiming, Slot
  <2>5. UNCHANGED <<place, class, use, field, app, live, claimed, lockVars, slot, hand, left,
                   restVars, misled, wild>>
    BY DEF TestFlag
  <2>6. overlap' \in BOOLEAN
    BY DEF IInv, TypeOK, TestFlag, OtherWrites
  <2> QED BY <2>2, <2>3, <2>4, <2>5, <2>6 DEF IInv, TypeOK, bindVars, lockVars, taskVars, restVars,
     ghosts
<1>2. LockHeld'
  BY DEF IInv, TypeOK, LockHeld, Locked, TestFlag, OtherWrites, Claiming, Goto, lockVars, Sweep
<1>3. InSteps'
  BY DEF IInv, TypeOK, InSteps, TestFlag, OtherWrites, Claiming, Goto, Sweep, ghosts
<1>4. OwnerLive'
  BY DEF IInv, TypeOK, OwnerLive, InSteps, TestFlag, OtherWrites, Claiming, Goto
<1>5. UseCovers' /\ UseExact' /\ AbsentZero'
  BY CountsKept DEF IInv, TypeOK, AbsentZero, TestFlag, OtherWrites, Claiming, Goto, ghosts
<1>6. FieldsAgree'
  BY DEF IInv, TypeOK, FieldsAgree, HandsAgree, TestFlag, OtherWrites, Claiming, Goto, ghosts
<1>7. HandsAgree'
  BY BindingAssumption DEF IInv, TypeOK, HandsAgree, LockHeld, Locked, InSteps,
     TestFlag, OtherWrites, Claiming, Goto, ghosts
<1>8. NothingLost'
  BY BindingAssumption DEF IInv, TypeOK, NothingLost, HandsAgree, TestFlag, OtherWrites,
     Claiming, Goto,
     ghosts
<1>9. MisledLate'
  BY DEF IInv, MisledLate, HandsAgree, TestFlag, OtherWrites, Claiming, ghosts
<1>10. ClaimsAgree'
  BY BindingAssumption DEF IInv, ClaimsAgree, FieldsAgree, TypeOK, TestFlag, OtherWrites,
     Claiming, Goto, ghosts, bindVars, taskVars
<1> QED BY <1>1, <1>2, <1>3, <1>4, <1>5, <1>6, <1>7, <1>8, <1>9, <1>10 DEF IInv

LEMMA CallHookStep ==
  ASSUME NEW t \in Task, IInv, CallHook(t)
  PROVE  IInv'
<1>0. /\ pc[t] = "hook" /\ claimed' = claimed \ {hand[t]} /\ misled' = (misled \/ hand[t] \notin User)
      /\ UNCHANGED <<place, class, use, field, owner, app, live, readers, lock, slot, hand, puc,
                     left, root, target, calls, overlap, wild>>
  BY DEF CallHook, Called, lockVars, taskVars, restVars
<1>a. PICK l \in {"retract", "lost"} : pc' = [pc EXCEPT ![t] = l]
                                    /\ (l = "lost" => hand[t] \notin User)
  BY DEF CallHook, Called, Goto
<1>b. \A u \in Task : pc'[u] = IF u = t THEN l ELSE pc[u]
  BY <1>a DEF IInv, TypeOK
<1>c. ~overlap => /\ hand[t] \in claimed /\ app /\ owner[Dev] = None /\ field[Dev] = None
                  /\ l = "retract"
  BY <1>0, <1>a DEF IInv, TypeOK, HandsAgree
<1>d. \A u \in Task \ {t} : pc[u] \notin {"take", "test", "hook", "retract", "call", "offer"}
  BY <1>0 DEF IInv, LockHeld, Locked
<1>1. TypeOK'
  BY <1>0, <1>a DEF IInv, TypeOK
<1>2. LockHeld'
  BY <1>0, <1>a, <1>b DEF IInv, LockHeld, Locked
<1>3. InSteps'
  BY <1>0, <1>a, <1>b DEF IInv, InSteps
<1>4. OwnerLive'
  BY <1>0, <1>a, <1>b DEF IInv, OwnerLive
<1>5. UseCovers' /\ UseExact' /\ AbsentZero'
  BY <1>0, <1>a, <1>b, CountsKept DEF IInv, AbsentZero
<1>6. FieldsAgree'
  BY <1>0, <1>c, BindingAssumption DEF IInv, FieldsAgree
<1>7. HandsAgree'
  BY <1>0, <1>a, <1>b, <1>c, <1>d DEF IInv, HandsAgree
<1>8. NothingLost'
  BY <1>0, <1>a, <1>b, <1>c, <1>d DEF IInv, NothingLost
<1>9. MisledLate'
  BY <1>0, <1>c DEF IInv, TypeOK, MisledLate
<1>10. ClaimsAgree'
  BY <1>0, <1>a, <1>b DEF IInv, ClaimsAgree
<1> QED BY <1>1, <1>2, <1>3, <1>4, <1>5, <1>6, <1>7, <1>8, <1>9, <1>10 DEF IInv

LEMMA RetractStep ==
  ASSUME NEW t \in Task, IInv, Retract(t)
  PROVE  IInv'
<1>0. /\ pc[t] = "retract" /\ pc' = [pc EXCEPT ![t] = "unlock"] /\ app' = FALSE
      /\ owner' = [owner EXCEPT ![Dev] = None] /\ (overlap => overlap')
      /\ overlap' \in BOOLEAN
      /\ ~overlap' => \A u \in Task \ {t} : pc[u] \notin {"interfaces", "flag", "bind", "disown"}
      /\ UNCHANGED <<place, class, use, field, live, claimed, readers, lock, slot, hand, puc,
                     left, root, target, calls, misled, wild>>
  BY DEF Retract, OtherWrites, Claiming, Goto, IInv, TypeOK, bindVars, lockVars, taskVars,
     restVars
<1>a. \A u \in Task : pc'[u] = IF u = t THEN "unlock" ELSE pc[u]
  BY <1>0 DEF IInv, TypeOK
<1>b. ~overlap => owner[Dev] = None /\ field[Dev] = None
  BY <1>0 DEF IInv, HandsAgree
<1>c. /\ owner'[Dev] = None /\ \A s \in Iface : owner'[s] = owner[s]
      /\ owner' \in [Slot -> Class \cup {None}] /\ (owner[Dev] = None => owner' = owner)
  BY <1>0, BindingAssumption DEF IInv, TypeOK, Slot
<1>d. \A u \in Task \ {t} : pc[u] \notin {"take", "test", "hook", "retract", "call", "offer"}
  BY <1>0 DEF IInv, LockHeld, Locked
<1>1. TypeOK'
  BY <1>0, <1>c DEF IInv, TypeOK
<1>2. LockHeld'
  BY <1>0, <1>a DEF IInv, LockHeld, Locked
<1>3. InSteps'
  BY <1>0, <1>a DEF IInv, InSteps
<1>4. OwnerLive'
  BY <1>0, <1>a, <1>c, <1>d DEF IInv, OwnerLive, TypeOK, Slot
<1>5. UseCovers' /\ UseExact' /\ AbsentZero'
  BY <1>0, <1>a, CountsKept DEF IInv, AbsentZero
<1>6. FieldsAgree'
  BY <1>0, <1>b, <1>c, BindingAssumption DEF IInv, FieldsAgree
<1>7. HandsAgree'
  BY <1>0, <1>a, <1>d DEF IInv, HandsAgree
<1>8. NothingLost'
  BY <1>0, <1>a DEF IInv, NothingLost
<1>9. MisledLate'
  BY <1>0 DEF IInv, MisledLate
<1>10. ClaimsAgree'
  BY <1>0, <1>a DEF IInv, ClaimsAgree
<1> QED BY <1>1, <1>2, <1>3, <1>4, <1>5, <1>6, <1>7, <1>8, <1>9, <1>10 DEF IInv

LEMMA CallReleaseStep ==
  ASSUME NEW t \in Task, IInv, CallRelease(t)
  PROVE  IInv'
<1>0. /\ pc[t] = "call" /\ misled' = (misled \/ hand[t] # puc[t])
      /\ live' = IF hand[t] = puc[t] THEN live \ {<<slot[t], puc[t]>>} ELSE live
      /\ UNCHANGED <<place, class, use, field, owner, app, claimed, readers, lock, slot, hand,
                     puc, left, root, target, calls, overlap, wild>>
  BY DEF CallRelease, Called, lockVars, taskVars, restVars
<1>a. PICK l \in {"count", "lost"} : pc' = [pc EXCEPT ![t] = l]
                                  /\ (l = "lost" => hand[t] # puc[t])
  BY DEF CallRelease, Called, Goto
<1>b. \A u \in Task : pc'[u] = IF u = t THEN l ELSE pc[u]
  BY <1>a DEF IInv, TypeOK
<1>c. ~overlap => hand[t] = puc[t] /\ field[slot[t]] \notin Class /\ l = "count"
  BY <1>0, <1>a DEF IInv, HandsAgree
<1>d. /\ \A u \in Task \ {t} : pc[u] \notin {"take", "test", "hook", "retract", "call", "offer"}
      /\ <<slot[t], puc[t]>> \in live /\ owner[slot[t]] = None /\ puc[t] \in Class
  BY <1>0 DEF IInv, LockHeld, Locked, OwnerLive, InSteps
<1>1. TypeOK'
  BY <1>0, <1>a DEF IInv, TypeOK
<1>2. LockHeld'
  BY <1>0, <1>a, <1>b DEF IInv, LockHeld, Locked
<1>3. InSteps'
  BY <1>0, <1>a, <1>b DEF IInv, InSteps
<1>4. OwnerLive'
  BY <1>0, <1>a, <1>b, <1>d, BindingAssumption DEF IInv, OwnerLive, TypeOK
<1>5. UseCovers' /\ UseExact' /\ AbsentZero'
  <2>1. CASE hand[t] = puc[t] /\ pc' = [pc EXCEPT ![t] = "count"]
    <3>1. \A k \in Class : Bindings(k)' = Bindings(k)
      <4>1. /\ <<slot[t], puc[t]>> \in live /\ live' = live \ {<<slot[t], puc[t]>>}
            /\ slot[t] \in Slot /\ pc[t] = "call" /\ puc' = puc
        BY <2>1 DEF IInv, TypeOK, OwnerLive, CallRelease, taskVars
      <4>2. /\ pc[t] # "count" /\ pc'[t] = "count" /\ puc'[t] = puc[t]
            /\ \A u \in Task \ {t} : pc'[u] = pc[u] /\ puc'[u] = puc[u]
        BY <2>1, <4>1 DEF IInv, TypeOK
      <4> QED BY <4>1, <4>2, Told
    <3>2. misled' = misled /\ overlap' = overlap /\ use' = use /\ class' = class
      BY <2>1 DEF CallRelease, Called, IInv, TypeOK
    <3> QED BY <3>1, <3>2 DEF IInv, UseCovers, UseExact, AbsentZero
  <2>2. CASE hand[t] # puc[t]
    <3>1. misled' /\ overlap' = overlap
      BY <2>2 DEF CallRelease, Called
    <3>2. overlap
      BY <2>2 DEF IInv, HandsAgree, CallRelease
    <3> QED BY <3>1, <3>2 DEF UseCovers, UseExact, AbsentZero
  <2> QED BY <2>1, <2>2 DEF CallRelease, Called, Goto
<1>6. FieldsAgree'
  BY <1>0 DEF IInv, FieldsAgree
<1>7. HandsAgree'
  BY <1>0, <1>a, <1>b DEF IInv, HandsAgree
<1>8. NothingLost'
  BY <1>0, <1>a, <1>b, <1>c, <1>d DEF IInv, NothingLost
<1>9. MisledLate'
  BY <1>0, <1>c DEF IInv, TypeOK, MisledLate
<1>10. ClaimsAgree'
  BY <1>0, <1>a, <1>b DEF IInv, ClaimsAgree
<1> QED BY <1>1, <1>2, <1>3, <1>4, <1>5, <1>6, <1>7, <1>8, <1>9, <1>10 DEF IInv

LEMMA CountDownStep ==
  ASSUME NEW t \in Task, IInv, CountDown(t)
  PROVE  IInv'
<1>1. TypeOK'
  BY DEF IInv, TypeOK, InSteps, CountDown, CountedDown, Goto, bindVars, lockVars, taskVars,
     restVars,
     ghosts
<1>2. LockHeld'
  BY DEF IInv, LockHeld, Locked, CountDown, Goto, CountedDown, lockVars
<1>3. InSteps'
  BY DEF IInv, InSteps, CountDown, Goto, CountedDown, taskVars, ghosts
<1>4. OwnerLive'
  BY DEF IInv, OwnerLive, CountDown, Goto, CountedDown, bindVars, taskVars
<1>5. UseCovers' /\ UseExact' /\ AbsentZero'
  <2>1. puc[t] \in Class /\ pc[t] = "count"
    BY DEF IInv, InSteps, CountDown
  <2>2. \A j \in Class : Bindings(j)' = Bindings(j) - (IF j = puc[t] THEN 1 ELSE 0)
    BY <2>1, OneLess DEF IInv, TypeOK, CountDown, Goto, bindVars, taskVars
  <2>3. \A j \in Class : use'[j] = use[j] - (IF j = puc[t] THEN 1 ELSE 0)
    BY <2>1 DEF IInv, TypeOK, CountDown, CountedDown
  <2>4. Bindings(puc[t]) >= 1
    BY <2>1, OneLess DEF IInv, TypeOK, CountDown, Goto, bindVars, taskVars
  <2>5. \A j \in Class : Bindings(j) \in Nat /\ use[j] \in Int
    BY BindingsIs DEF IInv, TypeOK
  <2>6. class' = class /\ overlap' = overlap /\ misled' = misled
    BY DEF CountDown, ghosts
  <2> QED BY <2>1, <2>2, <2>3, <2>4, <2>5, <2>6 DEF IInv, UseCovers, UseExact, AbsentZero
<1>6. FieldsAgree'
  BY DEF IInv, FieldsAgree, CountDown, Goto, CountedDown, bindVars, ghosts
<1>7. HandsAgree'
  BY DEF IInv, HandsAgree, CountDown, Goto, CountedDown, bindVars, taskVars, ghosts
<1>8. NothingLost'
  BY DEF IInv, NothingLost, CountDown, Goto, CountedDown, bindVars, taskVars, ghosts
<1>9. MisledLate'
  BY DEF IInv, MisledLate, HandsAgree, CountDown, ghosts
<1>10. ClaimsAgree'
  BY BindingAssumption DEF IInv, ClaimsAgree, FieldsAgree, CountDown, Goto, CountedDown,
     bindVars, taskVars, ghosts, TypeOK
<1> QED BY <1>1, <1>2, <1>3, <1>4, <1>5, <1>6, <1>7, <1>8, <1>9, <1>10 DEF IInv

LEMMA UnlockDeviceStep ==
  ASSUME NEW t \in Task, IInv, UnlockDevice(t)
  PROVE  IInv'
<1>1. TypeOK'
  BY DEF IInv, TypeOK, UnlockDevice, Goto, Back, bindVars, restVars, ghosts, Task
<1>2. LockHeld'
  BY DEF IInv, TypeOK, LockHeld, Locked, UnlockDevice, Goto, Back, Task
<1>3. InSteps'
  BY DEF IInv, TypeOK, InSteps, UnlockDevice, Goto, Back, Task, ghosts
<1>4. OwnerLive'
  BY DEF IInv, OwnerLive, UnlockDevice, Goto, Back, bindVars, Task
<1>5. UseCovers' /\ UseExact' /\ AbsentZero'
  BY CountsKept, BindingAssumption DEF IInv, TypeOK, AbsentZero, UnlockDevice, Goto,
     Back, bindVars, ghosts
<1>6. FieldsAgree'
  BY DEF IInv, FieldsAgree, UnlockDevice, Goto, Back, bindVars, ghosts
<1>7. HandsAgree'
  BY DEF IInv, HandsAgree, UnlockDevice, Goto, Back, bindVars, ghosts, Task
<1>8. NothingLost'
  BY DEF IInv, NothingLost, UnlockDevice, Goto, Back, bindVars, ghosts
<1>9. MisledLate'
  BY DEF IInv, MisledLate, HandsAgree, UnlockDevice, ghosts
<1>10. ClaimsAgree'
  <2>1. \E l \in {"walk", "again", "idle"} : pc' = [pc EXCEPT ![t] = l]
    <3>1. Back(t) /\ t \in {Owner, Sweep} \cup User
      BY DEF UnlockDevice, Task
    <3>2. Owner # Sweep /\ Owner \notin User /\ Sweep \notin User
      BY BindingAssumption DEF Owner, Sweep
    <3>3. CASE t = Owner
      BY <3>1, <3>2, <3>3 DEF Back, Goto
    <3>4. CASE t = Sweep
      BY <3>1, <3>2, <3>4 DEF Back, Goto
    <3>5. CASE t \in User
      BY <3>1, <3>2, <3>5 DEF Back, Goto
    <3> QED BY <3>1, <3>3, <3>4, <3>5
  <2> QED BY <2>1 DEF IInv, TypeOK, ClaimsAgree, UnlockDevice, bindVars, ghosts
<1> QED BY <1>1, <1>2, <1>3, <1>4, <1>5, <1>6, <1>7, <1>8, <1>9, <1>10 DEF IInv

LEMMA ScanStartStep ==
  ASSUME NEW t \in Task, IInv, ScanStart(t)
  PROVE  IInv'
<1>1. TypeOK'
  BY BindingAssumption DEF IInv, TypeOK, ScanStart, Goto, Scanner, Call, bindVars,
     taskVars, ghosts
<1>2. LockHeld'
  BY DEF IInv, LockHeld, Locked, ScanStart, Goto, Scanner, Call
<1>3. InSteps'
  BY DEF IInv, InSteps, ScanStart, Goto, Scanner, Call, taskVars, ghosts
<1>4. OwnerLive'
  BY DEF IInv, OwnerLive, ScanStart, Goto, Scanner, Call, bindVars, taskVars
<1>5. UseCovers' /\ UseExact' /\ AbsentZero'
  BY CountsKept DEF IInv, AbsentZero, ScanStart, Goto, Scanner, Call, bindVars,
     taskVars, ghosts
<1>6. FieldsAgree'
  BY DEF IInv, FieldsAgree, ScanStart, Goto, Scanner, Call, bindVars, ghosts
<1>7. HandsAgree'
  BY DEF IInv, HandsAgree, ScanStart, Goto, Scanner, Call, bindVars, taskVars, ghosts
<1>8. NothingLost'
  BY DEF IInv, NothingLost, ScanStart, Goto, Scanner, Call, bindVars, taskVars, ghosts
<1>9. MisledLate'
  BY DEF IInv, MisledLate, HandsAgree, ScanStart, ghosts
<1>10. ClaimsAgree'
  BY BindingAssumption DEF IInv, ClaimsAgree, FieldsAgree, ScanStart, Goto, Scanner, Call,
     bindVars, taskVars, ghosts, TypeOK
<1> QED BY <1>1, <1>2, <1>3, <1>4, <1>5, <1>6, <1>7, <1>8, <1>9, <1>10 DEF IInv

LEMMA ScanLockStep ==
  ASSUME NEW t \in Task, IInv, ScanLock(t)
  PROVE  IInv'
<1>1. TypeOK'
  BY DEF IInv, TypeOK, ScanLock, Goto, bindVars, restVars, ghosts, Slot
<1>2. LockHeld'
  BY BindingAssumption DEF IInv, TypeOK, LockHeld, Locked, ScanLock, Goto
<1>3. InSteps'
  BY DEF IInv, TypeOK, InSteps, ScanLock, Goto, ghosts
<1>4. OwnerLive'
  BY DEF IInv, TypeOK, OwnerLive, ScanLock, Goto, bindVars, Sweep
<1>5. UseCovers' /\ UseExact' /\ AbsentZero'
  BY CountsKept DEF IInv, TypeOK, AbsentZero, ScanLock, Goto, bindVars, ghosts
<1>6. FieldsAgree'
  BY DEF IInv, FieldsAgree, ScanLock, Goto, bindVars, ghosts
<1>7. HandsAgree'
  BY DEF IInv, TypeOK, HandsAgree, ScanLock, Goto, bindVars, ghosts
<1>8. NothingLost'
  BY DEF IInv, TypeOK, NothingLost, ScanLock, Goto, bindVars, ghosts
<1>9. MisledLate'
  BY DEF IInv, MisledLate, HandsAgree, ScanLock, ghosts
<1>10. ClaimsAgree'
  BY BindingAssumption DEF IInv, ClaimsAgree, FieldsAgree, TypeOK, ScanLock, Goto, bindVars,
     ghosts, taskVars
<1> QED BY <1>1, <1>2, <1>3, <1>4, <1>5, <1>6, <1>7, <1>8, <1>9, <1>10 DEF IInv

LEMMA OfferInterfaceStep ==
  ASSUME NEW t \in Task, IInv, OfferInterface(t)
  PROVE  IInv'
<1>0. /\ overlap' \in BOOLEAN /\ (overlap => overlap') /\ misled' = misled
  <2>1. (OtherWrites(t) \/ overlap' = overlap) /\ misled' = misled
    BY DEF OfferInterface
  <2>2. overlap \in BOOLEAN
    BY DEF IInv, TypeOK
  <2>3. CASE OtherWrites(t)
    BY <2>1, <2>2, <2>3 DEF OtherWrites
  <2>4. CASE overlap' = overlap
    BY <2>1, <2>2, <2>4
  <2> QED BY <2>1, <2>3, <2>4
<1>1. TypeOK'
  <2>1. /\ field' \in [Slot -> Class \cup User \cup {None}]
        /\ owner' \in [Slot -> Class \cup {None}] /\ use' \in [Class -> Int]
        /\ live' \subseteq Slot \X Class
    BY DEF IInv, TypeOK, InSteps, OfferInterface, Bound, Listed, Slot
  <2>2. left' \in [Task -> SUBSET (Slot \cup {None})]
    BY DEF IInv, TypeOK, OfferInterface
  <2> QED BY <1>0, <2>1, <2>2 DEF IInv, TypeOK, OfferInterface, lockVars, restVars
<1>2. LockHeld'
  BY DEF IInv, LockHeld, Locked, OfferInterface, OtherWrites, Claiming, Bound, Listed, lockVars
<1>3. InSteps'
  BY DEF IInv, InSteps, OfferInterface, OtherWrites, Claiming, Bound, Listed, ghosts
<1>4. OwnerLive'
  BY DEF IInv, TypeOK, OwnerLive, LockHeld, Locked, OfferInterface, OtherWrites, Claiming,
     Bound, Listed,
     Sweep
<1>5. UseCovers' /\ UseExact' /\ AbsentZero'
  <2>1. CASE UNCHANGED <<live, use>>
    BY <1>0, <2>1, CountsKept DEF IInv, AbsentZero, OfferInterface, OtherWrites, Claiming,
       Goto, taskVars, ghosts
  <2>2. CASE \E s \in Slot, k \in Listed : Bound(s, k) /\ (~overlap => <<s, k>> \notin live)
    <3>1. PICK s \in Slot, k \in Listed : Bound(s, k) /\ (~overlap => <<s, k>> \notin live)
      BY <2>2
    <3>2. \A j \in Class : /\ Bindings(j)' \in Nat /\ Bindings(j)' <= Bindings(j) + (IF j = k THEN 1 ELSE 0)
                           /\ ~overlap => Bindings(j)' = Bindings(j) + (IF j = k THEN 1 ELSE 0)
      BY <3>1, OneMore DEF IInv, TypeOK, Bound, OfferInterface, OtherWrites, Claiming, Goto,
         taskVars
    <3>3. \A j \in Class : use'[j] = use[j] + (IF j = k THEN 1 ELSE 0)
      BY <3>1 DEF IInv, TypeOK, Bound, Listed
    <3>4. \A j \in Class : Bindings(j) \in Nat /\ use[j] \in Int
      BY BindingsIs DEF IInv, TypeOK
    <3>5. class' = class /\ (overlap => overlap') /\ misled' = misled /\ class[k] = "listed"
      BY <1>0, <3>1 DEF OfferInterface, OtherWrites, Claiming, ghosts, Listed
    <3> QED BY <3>2, <3>3, <3>4, <3>5 DEF IInv, UseCovers, UseExact, AbsentZero
  <2>3. pc[t] = "offer" /\ lock = t
    BY DEF IInv, LockHeld, Locked, OfferInterface, OtherWrites, Claiming
  <2>4. \A s \in Slot, k \in Class : ~overlap /\ field[s] = None => <<s, k>> \notin live
    BY <2>3, BindingAssumption DEF IInv, LockHeld, Locked, NothingLost
  <2> QED BY <2>1, <2>2, <2>3, <2>4 DEF IInv, TypeOK, InSteps, HandsAgree, OfferInterface,
             OtherWrites, Claiming,
     Listed, Slot
<1>6. FieldsAgree'
  BY BindingAssumption DEF IInv, TypeOK, FieldsAgree, InSteps, OfferInterface, OtherWrites,
     Claiming, Bound,
     Listed, ghosts
<1>7. HandsAgree'
  BY BindingAssumption DEF IInv, TypeOK, HandsAgree, LockHeld, Locked, InSteps,
     OfferInterface, OtherWrites, Claiming, Bound, Listed, ghosts, Slot
<1>8. NothingLost'
  BY BindingAssumption DEF IInv, TypeOK, NothingLost, HandsAgree, OfferInterface, OtherWrites,
     Claiming,
     Bound, Listed, ghosts
<1>9. MisledLate'
  BY <1>0 DEF IInv, MisledLate
<1>10. ClaimsAgree'
  <2>1. CASE UNCHANGED <<field, owner>>
    BY <1>0, <2>1 DEF IInv, TypeOK, ClaimsAgree, OfferInterface, Goto
  <2>2. CASE OtherWrites(t)
    <3>1. ~overlap' => \A u \in Task \ {t} : pc[u] \notin {"interfaces", "flag", "bind", "disown"}
      BY <2>2 DEF OtherWrites, Claiming
    <3>2. \A u \in Task : /\ pc[u] \notin {"interfaces", "flag", "bind", "disown"} =>
                              pc'[u] \notin {"interfaces", "flag", "bind", "disown"}
                          /\ pc[t] = "offer"
      BY DEF IInv, TypeOK, OfferInterface, Goto
    <3> QED BY <3>1, <3>2 DEF ClaimsAgree
  <2> QED BY <2>1, <2>2 DEF OfferInterface
<1> QED BY <1>1, <1>2, <1>3, <1>4, <1>5, <1>6, <1>7, <1>8, <1>9, <1>10 DEF IInv

LEMMA OfferDeviceStep ==
  ASSUME NEW t \in Task, IInv, OfferDevice(t)
  PROVE  IInv'
<1>0. /\ overlap' \in BOOLEAN /\ (overlap => overlap') /\ misled' = misled
  BY DEF IInv, TypeOK, OfferDevice, OtherWrites
<1>1. TypeOK'
  BY DEF IInv, TypeOK, OfferDevice, OtherWrites, Claiming, Goto, Bound, Listed, lockVars,
     taskVars, restVars,
     ghosts, Slot
<1>2. LockHeld'
  BY DEF IInv, LockHeld, Locked, OfferDevice, OtherWrites, Claiming, Goto, Bound, Listed, lockVars
<1>3. InSteps'
  BY DEF IInv, InSteps, OfferDevice, OtherWrites, Claiming, Goto, Bound, Listed, taskVars, ghosts
<1>4. OwnerLive'
  BY DEF IInv, TypeOK, OwnerLive, LockHeld, Locked, OfferDevice, OtherWrites, Claiming, Goto,
     Bound, Listed,
     All
<1>5. UseCovers' /\ UseExact' /\ AbsentZero'
  <2>1. CASE UNCHANGED <<live, use>>
    BY <1>0, <2>1, CountsKept DEF IInv, AbsentZero, OfferDevice, OtherWrites, Claiming, Goto,
       taskVars, ghosts
  <2>2. CASE \E s \in Slot, k \in Listed : Bound(s, k) /\ (~overlap => <<s, k>> \notin live)
    <3>1. PICK s \in Slot, k \in Listed : Bound(s, k) /\ (~overlap => <<s, k>> \notin live)
      BY <2>2
    <3>2. \A j \in Class : /\ Bindings(j)' \in Nat /\ Bindings(j)' <= Bindings(j) + (IF j = k THEN 1 ELSE 0)
                           /\ ~overlap => Bindings(j)' = Bindings(j) + (IF j = k THEN 1 ELSE 0)
      BY <3>1, OneMore DEF IInv, TypeOK, Bound, OfferDevice, OtherWrites, Claiming, Goto, taskVars
    <3>3. \A j \in Class : use'[j] = use[j] + (IF j = k THEN 1 ELSE 0)
      BY <3>1 DEF IInv, TypeOK, Bound, Listed
    <3>4. \A j \in Class : Bindings(j) \in Nat /\ use[j] \in Int
      BY BindingsIs DEF IInv, TypeOK
    <3>5. class' = class /\ (overlap => overlap') /\ misled' = misled /\ class[k] = "listed"
      BY <1>0, <3>1 DEF OfferDevice, OtherWrites, Claiming, ghosts, Listed
    <3> QED BY <3>2, <3>3, <3>4, <3>5 DEF IInv, UseCovers, UseExact, AbsentZero
  <2>3. pc[t] = "offer" /\ lock = t
    BY DEF IInv, LockHeld, Locked, OfferDevice, OtherWrites, Claiming
  <2>4. \A s \in Slot, k \in Class : ~overlap /\ field[s] = None => <<s, k>> \notin live
    BY <2>3, BindingAssumption DEF IInv, LockHeld, Locked, NothingLost
  <2> QED BY <2>1, <2>2, <2>3, <2>4 DEF IInv, TypeOK, InSteps, HandsAgree, OfferDevice,
             OtherWrites, Claiming,
     Listed, Slot
<1>6. FieldsAgree'
  BY BindingAssumption DEF IInv, TypeOK, FieldsAgree, LockHeld, Locked, HandsAgree,
     NothingLost, OfferDevice, OtherWrites, Claiming, Goto, Bound, Listed, ghosts
<1>7. HandsAgree'
  BY DEF IInv, TypeOK, HandsAgree, LockHeld, Locked, OfferDevice, OtherWrites, Claiming, Goto,
     Bound, Listed
<1>8. NothingLost'
  BY BindingAssumption DEF IInv, TypeOK, NothingLost, HandsAgree, OfferDevice, OtherWrites,
     Claiming, Goto,
     Bound, Listed, taskVars, ghosts
<1>9. MisledLate'
  BY <1>0 DEF IInv, MisledLate
<1>10. ClaimsAgree'
  <2>1. CASE UNCHANGED <<field, owner>>
    BY <1>0, <2>1 DEF IInv, TypeOK, ClaimsAgree, OfferDevice, Goto
  <2>2. CASE OtherWrites(t)
    <3>1. ~overlap' => \A u \in Task \ {t} : pc[u] \notin {"interfaces", "flag", "bind", "disown"}
      BY <2>2 DEF OtherWrites, Claiming
    <3>2. \A u \in Task : /\ pc[u] \notin {"interfaces", "flag", "bind", "disown"} =>
                              pc'[u] \notin {"interfaces", "flag", "bind", "disown"}
                          /\ pc[t] = "offer"
      BY DEF IInv, TypeOK, OfferDevice, Goto
    <3> QED BY <3>1, <3>2 DEF ClaimsAgree
  <2> QED BY <2>1, <2>2 DEF OfferDevice
<1> QED BY <1>1, <1>2, <1>3, <1>4, <1>5, <1>6, <1>7, <1>8, <1>9, <1>10 DEF IInv

LEMMA ScanEndStep ==
  ASSUME NEW t \in Task, IInv, ScanEnd(t)
  PROVE  IInv'
<1>1. TypeOK'
  BY DEF IInv, TypeOK, ScanEnd, Goto, bindVars, taskVars, restVars, ghosts
<1>2. LockHeld'
  BY DEF IInv, TypeOK, LockHeld, Locked, ScanEnd, Goto
<1>3. InSteps'
  BY DEF IInv, InSteps, ScanEnd, Goto, taskVars, ghosts
<1>4. OwnerLive'
  BY DEF IInv, OwnerLive, ScanEnd, Goto, bindVars, taskVars
<1>5. UseCovers' /\ UseExact' /\ AbsentZero'
  BY CountsKept DEF IInv, AbsentZero, ScanEnd, Goto, bindVars, taskVars, ghosts
<1>6. FieldsAgree'
  BY DEF IInv, FieldsAgree, ScanEnd, Goto, bindVars, ghosts
<1>7. HandsAgree'
  BY DEF IInv, HandsAgree, ScanEnd, Goto, bindVars, taskVars, ghosts
<1>8. NothingLost'
  BY DEF IInv, NothingLost, ScanEnd, Goto, bindVars, taskVars, ghosts
<1>9. MisledLate'
  BY DEF IInv, MisledLate, HandsAgree, ScanEnd, ghosts
<1>10. ClaimsAgree'
  BY BindingAssumption DEF IInv, ClaimsAgree, FieldsAgree, ScanEnd, Goto, bindVars,
     taskVars, ghosts, TypeOK
<1> QED BY <1>1, <1>2, <1>3, <1>4, <1>5, <1>6, <1>7, <1>8, <1>9, <1>10 DEF IInv

LEMMA ReleaseBindingStep ==
  ASSUME NEW u \in User, IInv, ReleaseBinding(u)
  PROVE  IInv'
<1>1. TypeOK'
  BY BindingAssumption DEF IInv, TypeOK, ReleaseBinding, Goto, Call, bindVars,
     lockVars, ghosts, Task
<1>2. LockHeld'
  BY DEF IInv, LockHeld, Locked, ReleaseBinding, Goto, Call, lockVars
<1>3. InSteps'
  BY BindingAssumption DEF IInv, InSteps, ReleaseBinding, Goto, Call, ghosts
<1>4. OwnerLive'
  BY DEF IInv, OwnerLive, ReleaseBinding, Goto, Call, bindVars
<1>5. UseCovers' /\ UseExact' /\ AbsentZero'
  BY CountsKept DEF IInv, AbsentZero, ReleaseBinding, Goto, Call, bindVars, ghosts
<1>6. FieldsAgree'
  BY DEF IInv, FieldsAgree, ReleaseBinding, Goto, Call, bindVars, ghosts
<1>7. HandsAgree'
  BY DEF IInv, HandsAgree, ReleaseBinding, Goto, Call, bindVars, ghosts
<1>8. NothingLost'
  BY DEF IInv, NothingLost, ReleaseBinding, Goto, Call, bindVars, ghosts
<1>9. MisledLate'
  BY DEF IInv, MisledLate, HandsAgree, ReleaseBinding, ghosts
<1>10. ClaimsAgree'
  BY BindingAssumption DEF IInv, ClaimsAgree, FieldsAgree, ReleaseBinding, Goto, Call,
     bindVars, ghosts, taskVars, TypeOK
<1> QED BY <1>1, <1>2, <1>3, <1>4, <1>5, <1>6, <1>7, <1>8, <1>9, <1>10 DEF IInv

LEMMA ReleaseAppStep ==
  ASSUME NEW u \in User, IInv, ReleaseApp(u)
  PROVE  IInv'
<1>1. TypeOK'
  BY BindingAssumption DEF IInv, TypeOK, ReleaseApp, Goto, Call, bindVars, lockVars,
     ghosts, Task, Slot
<1>2. LockHeld'
  BY DEF IInv, LockHeld, Locked, ReleaseApp, Goto, Call, lockVars
<1>3. InSteps'
  BY BindingAssumption DEF IInv, InSteps, ReleaseApp, Goto, Call, ghosts
<1>4. OwnerLive'
  BY DEF IInv, OwnerLive, ReleaseApp, Goto, Call, bindVars
<1>5. UseCovers' /\ UseExact' /\ AbsentZero'
  BY CountsKept DEF IInv, AbsentZero, ReleaseApp, Goto, Call, bindVars, ghosts
<1>6. FieldsAgree'
  BY DEF IInv, FieldsAgree, ReleaseApp, Goto, Call, bindVars, ghosts
<1>7. HandsAgree'
  BY DEF IInv, HandsAgree, ReleaseApp, Goto, Call, bindVars, ghosts
<1>8. NothingLost'
  BY DEF IInv, NothingLost, ReleaseApp, Goto, Call, bindVars, ghosts
<1>9. MisledLate'
  BY DEF IInv, MisledLate, HandsAgree, ReleaseApp, ghosts
<1>10. ClaimsAgree'
  BY BindingAssumption DEF IInv, ClaimsAgree, FieldsAgree, ReleaseApp, Goto, Call, bindVars,
     ghosts, taskVars, TypeOK
<1> QED BY <1>1, <1>2, <1>3, <1>4, <1>5, <1>6, <1>7, <1>8, <1>9, <1>10 DEF IInv

LEMMA ClaimStartStep ==
  ASSUME NEW u \in User, IInv, ClaimStart(u)
  PROVE  IInv'
<1>1. TypeOK'
  <2>1. \E l \in {"walk"} : pc' = [pc EXCEPT ![u] = l]
    BY BindingAssumption DEF ClaimStart, Goto, Call, Slot
  <2>2. \E S \in SUBSET (Slot \cup {None}) : left' = [left EXCEPT ![u] = S]
    BY BindingAssumption DEF IInv, TypeOK, ClaimStart, Goto, Call, Slot
  <2>3. calls' \in 0..MaxCalls
    BY BindingAssumption DEF IInv, TypeOK, ClaimStart, Goto, Call, Slot
  <2>4. UNCHANGED <<place, class, use, bindVars, lockVars, slot, hand, puc, root, target, ghosts>>
    BY DEF ClaimStart
  <2>5. ({root, app, overlap, misled, wild} \subseteq BOOLEAN)'
    BY <2>2, <2>3, <2>4 DEF IInv, TypeOK, bindVars, lockVars, taskVars, restVars, ghosts
  <2>6. UNCHANGED place /\ pc' \in [Task -> {"walk"} \cup {pc[x] : x \in Task}]
    BY <2>1, <2>4 DEF IInv, TypeOK
  <2> QED BY <2>1, <2>2, <2>3, <2>4, <2>5, <2>6 DEF IInv, TypeOK, bindVars, lockVars,
     taskVars, restVars, ghosts
<1>2. LockHeld'
  BY BindingAssumption DEF IInv, LockHeld, Locked, ClaimStart, Goto, Call, lockVars
<1>3. InSteps'
  BY DEF IInv, TypeOK, InSteps, ClaimStart, Goto, Call, ghosts
<1>4. OwnerLive'
  BY DEF IInv, OwnerLive, ClaimStart, Goto, Call, bindVars
<1>5. UseCovers' /\ UseExact' /\ AbsentZero'
  BY CountsKept DEF IInv, AbsentZero, ClaimStart, Goto, Call, bindVars, ghosts
<1>6. FieldsAgree'
  BY DEF IInv, FieldsAgree, ClaimStart, Goto, Call, bindVars, ghosts
<1>7. HandsAgree'
  BY DEF IInv, HandsAgree, ClaimStart, Goto, Call, bindVars, ghosts
<1>8. NothingLost'
  BY DEF IInv, NothingLost, ClaimStart, Goto, Call, bindVars, ghosts
<1>9. MisledLate'
  BY DEF IInv, MisledLate, HandsAgree, ClaimStart, ghosts
<1>10. ClaimsAgree'
  BY BindingAssumption DEF IInv, ClaimsAgree, FieldsAgree, ClaimStart, Goto, Call, bindVars,
     ghosts, taskVars, TypeOK
<1> QED BY <1>1, <1>2, <1>3, <1>4, <1>5, <1>6, <1>7, <1>8, <1>9, <1>10 DEF IInv

LEMMA WalkStep ==
  ASSUME NEW t \in Task, IInv, Walk(t)
  PROVE  IInv'
<1>1. TypeOK'
  <2>1. \E l \in {"purge", "claim", "take", "check"} : pc' = [pc EXCEPT ![t] = l]
    BY DEF Walk, Goto
  <2>2. pc' \in [Task -> {"idle", "check", "lock", "take", "test", "hook", "retract", "call", "count",
                      "unlock", "walk", "again", "look", "close", "scan", "offer", "leave",
                      "claim", "interfaces", "flag", "bind", "disown", "retire", "purge", "lost"}]
    BY <2>1 DEF IInv, TypeOK
  <2>3. slot' \in [Task -> Slot]
    BY BindingAssumption DEF IInv, TypeOK, Walk, Remaining, Slot
  <2>4. left' \in [Task -> SUBSET (Slot \cup {None})]
    BY BindingAssumption DEF IInv, TypeOK, Walk, Remaining, Slot
  <2>5. lock' \in Task \cup {None}
    BY BindingAssumption DEF IInv, TypeOK, Walk, Remaining, Slot
  <2>6. UNCHANGED <<place, class, use, bindVars, readers, hand, puc, restVars, ghosts>>
    BY DEF Walk
  <2> QED BY <2>2, <2>3, <2>4, <2>5, <2>6 DEF IInv, TypeOK, bindVars, lockVars, taskVars,
     restVars, ghosts
<1>2. LockHeld'
  BY DEF IInv, TypeOK, LockHeld, Locked, Walk, Goto, Sweep
<1>3. InSteps'
  BY DEF IInv, TypeOK, InSteps, Walk, Goto, ghosts
<1>4. OwnerLive'
  BY DEF IInv, TypeOK, OwnerLive, Walk, Goto, bindVars, Sweep
<1>5. UseCovers' /\ UseExact' /\ AbsentZero'
  BY CountsKept DEF IInv, TypeOK, AbsentZero, Walk, Goto, bindVars, ghosts
<1>6. FieldsAgree'
  BY DEF IInv, FieldsAgree, Walk, Goto, bindVars, ghosts
<1>7. HandsAgree'
  BY DEF IInv, TypeOK, HandsAgree, Walk, Goto, bindVars, ghosts
<1>8. NothingLost'
  BY DEF IInv, TypeOK, NothingLost, Walk, Goto, bindVars, ghosts
<1>9. MisledLate'
  BY DEF IInv, MisledLate, HandsAgree, Walk, ghosts
<1>10. ClaimsAgree'
  BY BindingAssumption DEF IInv, ClaimsAgree, FieldsAgree, TypeOK, Walk, Goto, bindVars,
     ghosts, taskVars
<1> QED BY <1>1, <1>2, <1>3, <1>4, <1>5, <1>6, <1>7, <1>8, <1>9, <1>10 DEF IInv

LEMMA ClaimDeviceStep ==
  ASSUME NEW u \in User, IInv, ClaimDevice(u)
  PROVE  IInv'
<1>0. /\ UNCHANGED <<place, class, use, field, owner, app, live, claimed, readers, lock,
                     slot, hand, puc, root, target, calls, overlap, misled>>
      /\ wild' \in BOOLEAN /\ u \in Task
  BY DEF ClaimDevice, ghosts, Task, IInv, TypeOK, bindVars, lockVars, taskVars, restVars
<1>a. PICK l \in {"idle", "interfaces", "flag"} :
        pc' = [pc EXCEPT ![u] = l]
  BY DEF ClaimDevice, Goto, IInv, TypeOK
<1>b. \A t \in Task : pc'[t] = IF t = u THEN l ELSE pc[t]
  BY <1>0, <1>a DEF IInv, TypeOK
<1>c. /\ pc[u] \in {"claim", "interfaces"}
      /\ ~overlap /\ l \in {"interfaces", "flag"} => field[Dev] = None
  BY <1>a, <1>0, <1>b DEF ClaimDevice, Goto, IInv, TypeOK, ClaimsAgree
<1>d. left' \in [Task -> SUBSET (Slot \cup {None})]
      /\ \A t \in Task \ {u} : left'[t] = left[t]
  BY DEF ClaimDevice, IInv, TypeOK, Slot
<1>1. TypeOK'
  BY <1>0, <1>a, <1>d DEF IInv, TypeOK
<1>2. LockHeld'
  BY <1>0, <1>a, <1>b, <1>c DEF IInv, LockHeld, Locked
<1>3. InSteps'
  BY <1>0, <1>a, <1>b, <1>c, <1>d, BindingAssumption DEF IInv, InSteps
<1>4. OwnerLive'
  BY <1>0, <1>a, <1>b DEF IInv, OwnerLive
<1>5. UseCovers' /\ UseExact' /\ AbsentZero'
  BY <1>0, <1>a, <1>b, <1>c, CountsKept DEF IInv, AbsentZero
<1>6. FieldsAgree'
  BY <1>0 DEF IInv, FieldsAgree
<1>7. HandsAgree'
  BY <1>0, <1>a, <1>b DEF IInv, HandsAgree
<1>8. NothingLost'
  BY <1>0, <1>a, <1>b, <1>c DEF IInv, NothingLost
<1>9. MisledLate'
  BY <1>0 DEF IInv, MisledLate
<1>10. ClaimsAgree'
  BY <1>0, <1>a, <1>b, <1>c DEF IInv, ClaimsAgree
<1> QED BY <1>1, <1>2, <1>3, <1>4, <1>5, <1>6, <1>7, <1>8, <1>9, <1>10 DEF IInv

LEMMA ClaimInterfaceStep ==
  ASSUME NEW u \in User, IInv, ClaimInterface(u)
  PROVE  IInv'
<1>0. /\ UNCHANGED <<place, class, use, field, owner, app, live, claimed, readers, lock,
                     slot, hand, puc, root, target, calls, overlap, misled>>
      /\ wild' \in BOOLEAN /\ u \in Task
  BY DEF ClaimInterface, ghosts, Task, IInv, TypeOK, bindVars, lockVars, taskVars, restVars
<1>a. PICK l \in {"idle", "interfaces", "flag", "lost"} :
        pc' = [pc EXCEPT ![u] = l]
  BY DEF ClaimInterface, Goto, IInv, TypeOK
<1>b. \A t \in Task : pc'[t] = IF t = u THEN l ELSE pc[t]
  BY <1>0, <1>a DEF IInv, TypeOK
<1>c. /\ pc[u] \in {"claim", "interfaces"}
      /\ ~overlap /\ l \in {"interfaces", "flag"} => field[Dev] = None
  BY <1>a, <1>0, <1>b DEF ClaimInterface, Goto, IInv, TypeOK, ClaimsAgree
<1>d. left' \in [Task -> SUBSET (Slot \cup {None})]
      /\ \A t \in Task \ {u} : left'[t] = left[t]
  BY DEF ClaimInterface, IInv, TypeOK, Slot
<1>1. TypeOK'
  BY <1>0, <1>a, <1>d DEF IInv, TypeOK
<1>2. LockHeld'
  BY <1>0, <1>a, <1>b, <1>c DEF IInv, LockHeld, Locked
<1>3. InSteps'
  BY <1>0, <1>a, <1>b, <1>c, <1>d, BindingAssumption DEF IInv, InSteps
<1>4. OwnerLive'
  BY <1>0, <1>a, <1>b DEF IInv, OwnerLive
<1>5. UseCovers' /\ UseExact' /\ AbsentZero'
  BY <1>0, <1>a, <1>b, <1>c, CountsKept DEF IInv, AbsentZero
<1>6. FieldsAgree'
  BY <1>0 DEF IInv, FieldsAgree
<1>7. HandsAgree'
  BY <1>0, <1>a, <1>b DEF IInv, HandsAgree
<1>8. NothingLost'
  BY <1>0, <1>a, <1>b, <1>c DEF IInv, NothingLost
<1>9. MisledLate'
  BY <1>0 DEF IInv, MisledLate
<1>10. ClaimsAgree'
  BY <1>0, <1>a, <1>b, <1>c DEF IInv, ClaimsAgree
<1> QED BY <1>1, <1>2, <1>3, <1>4, <1>5, <1>6, <1>7, <1>8, <1>9, <1>10 DEF IInv

LEMMA ClaimFlagStep ==
  ASSUME NEW u \in User, IInv, ClaimFlag(u)
  PROVE  IInv'
<1>0. /\ pc[u] = "flag" /\ pc' = [pc EXCEPT ![u] = "bind"] /\ u \in Task
      /\ UNCHANGED <<place, class, use, live, readers, lock, slot, hand, puc, left, root,
                     target, calls, misled, wild>>
      /\ UNCHANGED <<field, owner, claimed>>
      /\ overlap' \in BOOLEAN /\ (overlap => overlap')
  BY DEF ClaimFlag, ClaimWrites, Goto, Task, IInv, TypeOK, bindVars, lockVars, taskVars, restVars
<1>a. \A t \in Task : pc'[t] = IF t = u THEN "bind" ELSE pc[t]
  BY <1>0 DEF IInv, TypeOK
<1>b. ~overlap' => \A t \in Task \ {u} :
        pc[t] \notin {"interfaces", "flag", "bind", "disown", "test", "hook", "retract", "offer"}
  BY DEF ClaimFlag, ClaimWrites, Between, Claiming
<1>c. app' = TRUE
  BY BindingAssumption DEF ClaimFlag, IInv, TypeOK, Slot
<1>d. ~overlap' => owner[Dev] = None /\ field[Dev] = None
  <2>1. ~overlap' => field[Dev] = None
    BY <1>0 DEF IInv, ClaimsAgree
  <2>2. ASSUME ~overlap', owner[Dev] # None PROVE FALSE
    <3>1. <<Dev, owner[Dev]>> \in live /\ owner[Dev] \in Class
      BY <2>2 DEF IInv, OwnerLive, TypeOK, Slot
    <3>2. \E t \in Task : pc[t] \in {"test", "call"} /\ slot[t] = Dev /\ hand[t] = owner[Dev]
      BY <1>0, <2>1, <2>2, <3>1 DEF IInv, NothingLost, Slot
    <3> QED BY <1>0, <1>b, <2>2, <3>2 DEF IInv, OwnerLive
  <2> QED BY <2>1, <2>2
<1>1. TypeOK'
  BY <1>0, <1>c, BindingAssumption DEF IInv, TypeOK
<1>2. LockHeld'
  BY <1>0, <1>a DEF IInv, LockHeld, Locked
<1>3. InSteps'
  BY <1>0, <1>a DEF IInv, InSteps
<1>4. OwnerLive'
  BY <1>0, <1>a, <1>c DEF IInv, OwnerLive, TypeOK, Slot
<1>5. UseCovers' /\ UseExact' /\ AbsentZero'
  BY <1>0, <1>a, CountsKept DEF IInv, AbsentZero
<1>6. FieldsAgree'
  BY <1>0, <1>c, <1>d, BindingAssumption DEF IInv, TypeOK, FieldsAgree, Slot
<1>7. HandsAgree'
  BY <1>0, <1>a, <1>b, <1>c, <1>d, BindingAssumption DEF IInv, TypeOK, HandsAgree, Slot
<1>8. NothingLost'
  BY <1>0, <1>a, <1>b, <1>c, <1>d, BindingAssumption DEF IInv, TypeOK, NothingLost, Slot
<1>9. MisledLate'
  BY <1>0 DEF IInv, MisledLate
<1>10. ClaimsAgree'
  BY <1>0, <1>a, <1>b, <1>c, <1>d DEF IInv, ClaimsAgree
<1> QED BY <1>1, <1>2, <1>3, <1>4, <1>5, <1>6, <1>7, <1>8, <1>9, <1>10 DEF IInv

LEMMA ClaimBindingStep ==
  ASSUME NEW u \in User, IInv, ClaimBinding(u)
  PROVE  IInv'
<1>0. /\ pc[u] = "bind" /\ pc' = [pc EXCEPT ![u] = "disown"] /\ u \in Task
      /\ UNCHANGED <<place, class, use, live, readers, lock, slot, hand, puc, left, root,
                     target, calls, misled, wild>>
      /\ UNCHANGED <<owner, app>>
      /\ overlap' \in BOOLEAN /\ (overlap => overlap')
  BY DEF ClaimBinding, ClaimWrites, Goto, Task, IInv, TypeOK, bindVars, lockVars, taskVars, restVars
<1>a. \A t \in Task : pc'[t] = IF t = u THEN "disown" ELSE pc[t]
  BY <1>0 DEF IInv, TypeOK
<1>b. ~overlap' => \A t \in Task \ {u} :
        pc[t] \notin {"interfaces", "flag", "bind", "disown", "test", "hook", "retract", "offer"}
  BY DEF ClaimBinding, ClaimWrites, Between, Claiming
<1>c. /\ field'[Dev] = u /\ \A s \in Iface : field'[s] = field[s]
      /\ field' \in [Slot -> Class \cup User \cup {None}]
      /\ claimed' = claimed \cup {u}
  BY BindingAssumption DEF ClaimBinding, IInv, TypeOK, Slot
<1>d. ~overlap => owner[Dev] = None /\ field[Dev] = None /\ app
  BY <1>0, BindingAssumption DEF IInv, TypeOK, FieldsAgree, ClaimsAgree, Slot
<1>1. TypeOK'
  BY <1>0, <1>c, BindingAssumption DEF IInv, TypeOK
<1>2. LockHeld'
  BY <1>0, <1>a DEF IInv, LockHeld, Locked
<1>3. InSteps'
  BY <1>0, <1>a DEF IInv, InSteps
<1>4. OwnerLive'
  BY <1>0, <1>a, <1>c DEF IInv, OwnerLive, TypeOK, Slot
<1>5. UseCovers' /\ UseExact' /\ AbsentZero'
  BY <1>0, <1>a, CountsKept DEF IInv, AbsentZero
<1>6. FieldsAgree'
  BY <1>0, <1>c, <1>d, BindingAssumption DEF IInv, TypeOK, FieldsAgree, Slot
<1>7. HandsAgree'
  BY <1>0, <1>a, <1>b, <1>c, <1>d, BindingAssumption DEF IInv, TypeOK, HandsAgree, Slot
<1>8. NothingLost'
  BY <1>0, <1>a, <1>b, <1>c, <1>d, BindingAssumption DEF IInv, TypeOK, NothingLost, Slot
<1>9. MisledLate'
  BY <1>0 DEF IInv, MisledLate
<1>10. ClaimsAgree'
  BY <1>0, <1>a, <1>b, <1>c, <1>d DEF IInv, ClaimsAgree
<1> QED BY <1>1, <1>2, <1>3, <1>4, <1>5, <1>6, <1>7, <1>8, <1>9, <1>10 DEF IInv

LEMMA ClaimClassStep ==
  ASSUME NEW u \in User, IInv, ClaimClass(u)
  PROVE  IInv'
<1>0. /\ pc[u] = "disown" /\ pc' = [pc EXCEPT ![u] = "idle"] /\ u \in Task
      /\ UNCHANGED <<place, class, use, live, readers, lock, slot, hand, puc, left, root,
                     target, calls, misled, wild>>
      /\ UNCHANGED <<field, app, claimed>>
      /\ overlap' \in BOOLEAN /\ (overlap => overlap')
  BY DEF ClaimClass, ClaimWrites, Goto, Task, IInv, TypeOK, bindVars, lockVars, taskVars, restVars
<1>a. \A t \in Task : pc'[t] = IF t = u THEN "idle" ELSE pc[t]
  BY <1>0 DEF IInv, TypeOK
<1>b. ~overlap' => \A t \in Task \ {u} :
        pc[t] \notin {"interfaces", "flag", "bind", "disown", "test", "hook", "retract", "offer"}
  BY DEF ClaimClass, ClaimWrites, Between, Claiming
<1>c. /\ owner'[Dev] = None /\ \A s \in Iface : owner'[s] = owner[s]
      /\ owner' \in [Slot -> Class \cup {None}]
  BY BindingAssumption DEF ClaimClass, IInv, TypeOK, Slot
<1>d. ~overlap => owner[Dev] = None /\ field[Dev] = u
  BY <1>0, BindingAssumption DEF IInv, TypeOK, FieldsAgree, ClaimsAgree, Slot
<1>1. TypeOK'
  BY <1>0, <1>c, BindingAssumption DEF IInv, TypeOK
<1>2. LockHeld'
  BY <1>0, <1>a DEF IInv, LockHeld, Locked
<1>3. InSteps'
  BY <1>0, <1>a DEF IInv, InSteps
<1>4. OwnerLive'
  BY <1>0, <1>a, <1>c DEF IInv, OwnerLive, TypeOK, Slot
<1>5. UseCovers' /\ UseExact' /\ AbsentZero'
  BY <1>0, <1>a, CountsKept DEF IInv, AbsentZero
<1>6. FieldsAgree'
  BY <1>0, <1>c, <1>d, BindingAssumption DEF IInv, TypeOK, FieldsAgree, Slot
<1>7. HandsAgree'
  BY <1>0, <1>a, <1>b, <1>c, <1>d, BindingAssumption DEF IInv, TypeOK, HandsAgree, Slot
<1>8. NothingLost'
  BY <1>0, <1>a, <1>b, <1>c, <1>d, BindingAssumption DEF IInv, TypeOK, NothingLost, Slot
<1>9. MisledLate'
  BY <1>0 DEF IInv, MisledLate
<1>10. ClaimsAgree'
  BY <1>0, <1>a, <1>b, <1>c, <1>d DEF IInv, ClaimsAgree
<1> QED BY <1>1, <1>2, <1>3, <1>4, <1>5, <1>6, <1>7, <1>8, <1>9, <1>10 DEF IInv

LEMMA FreeStartStep ==
  ASSUME IInv, FreeStart
  PROVE  IInv'
<1>1. TypeOK'
  BY DEF IInv, TypeOK, FreeStart, Goto, bindVars, lockVars, taskVars, restVars, ghosts
<1>2. LockHeld'
  BY DEF IInv, LockHeld, Locked, FreeStart, Goto, lockVars
<1>3. InSteps'
  BY DEF IInv, InSteps, FreeStart, Goto, taskVars, ghosts
<1>4. OwnerLive'
  BY DEF IInv, OwnerLive, FreeStart, Goto, bindVars, taskVars
<1>5. UseCovers' /\ UseExact' /\ AbsentZero'
  BY CountsKept DEF IInv, AbsentZero, FreeStart, Goto, bindVars, taskVars, ghosts
<1>6. FieldsAgree'
  BY DEF IInv, FieldsAgree, FreeStart, Goto, bindVars, ghosts
<1>7. HandsAgree'
  BY DEF IInv, HandsAgree, FreeStart, Goto, bindVars, taskVars, ghosts
<1>8. NothingLost'
  BY DEF IInv, NothingLost, FreeStart, Goto, bindVars, taskVars, ghosts
<1>9. MisledLate'
  BY DEF IInv, MisledLate, HandsAgree, FreeStart, ghosts
<1>10. ClaimsAgree'
  BY BindingAssumption DEF IInv, ClaimsAgree, FieldsAgree, FreeStart, Goto, bindVars,
     taskVars, ghosts, TypeOK
<1> QED BY <1>1, <1>2, <1>3, <1>4, <1>5, <1>6, <1>7, <1>8, <1>9, <1>10 DEF IInv

LEMMA FreeLockStep ==
  ASSUME IInv, FreeLock
  PROVE  IInv'
<1>1. TypeOK'
  BY DEF IInv, TypeOK, FreeLock, Goto, bindVars, restVars, ghosts, Task
<1>2. LockHeld'
  BY BindingAssumption DEF IInv, LockHeld, Locked, FreeLock, Goto
<1>3. InSteps'
  BY DEF IInv, InSteps, FreeLock, Goto, ghosts
<1>4. OwnerLive'
  BY DEF IInv, OwnerLive, FreeLock, Goto, bindVars
<1>5. UseCovers' /\ UseExact' /\ AbsentZero'
  BY CountsKept DEF IInv, AbsentZero, FreeLock, Goto, bindVars, ghosts
<1>6. FieldsAgree'
  BY DEF IInv, FieldsAgree, FreeLock, Goto, bindVars, ghosts
<1>7. HandsAgree'
  BY DEF IInv, HandsAgree, FreeLock, Goto, bindVars, ghosts
<1>8. NothingLost'
  BY DEF IInv, NothingLost, FreeLock, Goto, bindVars, ghosts
<1>9. MisledLate'
  BY DEF IInv, MisledLate, HandsAgree, FreeLock, ghosts
<1>10. ClaimsAgree'
  BY BindingAssumption DEF IInv, ClaimsAgree, FieldsAgree, FreeLock, Goto, bindVars, ghosts,
     taskVars, TypeOK
<1> QED BY <1>1, <1>2, <1>3, <1>4, <1>5, <1>6, <1>7, <1>8, <1>9, <1>10 DEF IInv

LEMMA FreeContentsStep ==
  ASSUME IInv, FreeContents
  PROVE  IInv'
<1>1. TypeOK'
  BY DEF IInv, TypeOK, FreeContents, Goto, bindVars, lockVars, taskVars, restVars,
     ghosts
<1>2. LockHeld'
  BY DEF IInv, LockHeld, Locked, FreeContents, Goto, lockVars
<1>3. InSteps'
  BY DEF IInv, InSteps, FreeContents, Goto, taskVars, ghosts
<1>4. OwnerLive'
  BY DEF IInv, OwnerLive, FreeContents, Goto, bindVars, taskVars
<1>5. UseCovers' /\ UseExact' /\ AbsentZero'
  BY CountsKept DEF IInv, AbsentZero, FreeContents, Goto, bindVars, taskVars, ghosts
<1>6. FieldsAgree'
  BY DEF IInv, FieldsAgree, FreeContents, Goto, bindVars, ghosts
<1>7. HandsAgree'
  BY DEF IInv, HandsAgree, FreeContents, Goto, bindVars, taskVars, ghosts
<1>8. NothingLost'
  BY DEF IInv, NothingLost, FreeContents, Goto, bindVars, taskVars, ghosts
<1>9. MisledLate'
  BY DEF IInv, MisledLate, HandsAgree, FreeContents, ghosts
<1>10. ClaimsAgree'
  BY BindingAssumption DEF IInv, ClaimsAgree, FieldsAgree, FreeContents, Goto, bindVars,
     taskVars, ghosts, TypeOK
<1> QED BY <1>1, <1>2, <1>3, <1>4, <1>5, <1>6, <1>7, <1>8, <1>9, <1>10 DEF IInv

LEMMA AddClassStep ==
  ASSUME NEW k \in Class, IInv, AddClass(k)
  PROVE  IInv'
<1>1. TypeOK'
  BY BindingAssumption DEF IInv, TypeOK, AddClass, Call, bindVars, lockVars, taskVars,
     ghosts
<1>2. LockHeld'
  BY DEF IInv, LockHeld, Locked, AddClass, Call, lockVars
<1>3. InSteps'
  BY DEF IInv, InSteps, AddClass, Call, taskVars, ghosts
<1>4. OwnerLive'
  BY DEF IInv, OwnerLive, AddClass, Call, bindVars, taskVars
<1>5. UseCovers' /\ UseExact' /\ AbsentZero'
  BY CountsKept DEF IInv, AbsentZero, AddClass, Call, bindVars, taskVars, ghosts
<1>6. FieldsAgree'
  BY DEF IInv, FieldsAgree, AddClass, Call, bindVars, ghosts
<1>7. HandsAgree'
  BY DEF IInv, HandsAgree, AddClass, Call, bindVars, taskVars, ghosts
<1>8. NothingLost'
  BY DEF IInv, NothingLost, AddClass, Call, bindVars, taskVars, ghosts
<1>9. MisledLate'
  BY DEF IInv, MisledLate, HandsAgree, AddClass, ghosts
<1>10. ClaimsAgree'
  BY BindingAssumption DEF IInv, ClaimsAgree, FieldsAgree, AddClass, Call, bindVars,
     taskVars, ghosts, TypeOK, Goto
<1> QED BY <1>1, <1>2, <1>3, <1>4, <1>5, <1>6, <1>7, <1>8, <1>9, <1>10 DEF IInv

LEMMA RemClassStep ==
  ASSUME NEW k \in Class, IInv, RemClass(k)
  PROVE  IInv'
<1>1. TypeOK'
  BY BindingAssumption DEF IInv, TypeOK, RemClass, Goto, Call, bindVars, lockVars,
     taskVars, ghosts, Task
<1>2. LockHeld'
  BY DEF IInv, LockHeld, Locked, RemClass, Goto, Call, lockVars
<1>3. InSteps'
  BY DEF IInv, InSteps, RemClass, Goto, Call, taskVars, ghosts
<1>4. OwnerLive'
  BY DEF IInv, OwnerLive, RemClass, Goto, Call, bindVars, taskVars
<1>5. UseCovers' /\ UseExact' /\ AbsentZero'
  BY CountsKept DEF IInv, AbsentZero, RemClass, Goto, Call, bindVars, taskVars, ghosts
<1>6. FieldsAgree'
  BY DEF IInv, FieldsAgree, RemClass, Goto, Call, bindVars, ghosts
<1>7. HandsAgree'
  BY DEF IInv, HandsAgree, RemClass, Goto, Call, bindVars, taskVars, ghosts
<1>8. NothingLost'
  BY DEF IInv, NothingLost, RemClass, Goto, Call, bindVars, taskVars, ghosts
<1>9. MisledLate'
  BY DEF IInv, MisledLate, HandsAgree, RemClass, ghosts
<1>10. ClaimsAgree'
  BY BindingAssumption DEF IInv, ClaimsAgree, FieldsAgree, RemClass, Goto, Call, bindVars,
     taskVars, ghosts, TypeOK
<1> QED BY <1>1, <1>2, <1>3, <1>4, <1>5, <1>6, <1>7, <1>8, <1>9, <1>10 DEF IInv

LEMMA UnbindAllStep ==
  ASSUME IInv, UnbindAll
  PROVE  IInv'
<1>1. TypeOK'
  BY BindingAssumption DEF IInv, TypeOK, UnbindAll, Goto, Call, bindVars, lockVars,
     taskVars, ghosts, Task
<1>2. LockHeld'
  BY DEF IInv, LockHeld, Locked, UnbindAll, Goto, Call, lockVars
<1>3. InSteps'
  BY DEF IInv, InSteps, UnbindAll, Goto, Call, taskVars, ghosts
<1>4. OwnerLive'
  BY DEF IInv, OwnerLive, UnbindAll, Goto, Call, bindVars, taskVars
<1>5. UseCovers' /\ UseExact' /\ AbsentZero'
  BY CountsKept DEF IInv, AbsentZero, UnbindAll, Goto, Call, bindVars, taskVars,
     ghosts
<1>6. FieldsAgree'
  BY DEF IInv, FieldsAgree, UnbindAll, Goto, Call, bindVars, ghosts
<1>7. HandsAgree'
  BY DEF IInv, HandsAgree, UnbindAll, Goto, Call, bindVars, taskVars, ghosts
<1>8. NothingLost'
  BY DEF IInv, NothingLost, UnbindAll, Goto, Call, bindVars, taskVars, ghosts
<1>9. MisledLate'
  BY DEF IInv, MisledLate, HandsAgree, UnbindAll, ghosts
<1>10. ClaimsAgree'
  BY BindingAssumption DEF IInv, ClaimsAgree, FieldsAgree, UnbindAll, Goto, Call, bindVars,
     taskVars, ghosts, TypeOK
<1> QED BY <1>1, <1>2, <1>3, <1>4, <1>5, <1>6, <1>7, <1>8, <1>9, <1>10 DEF IInv

LEMMA SweepLookStep ==
  ASSUME IInv, SweepLook
  PROVE  IInv'
<1>1. TypeOK'
  <2>1. \E l \in {"close", "check"} : pc' = [pc EXCEPT ![Sweep] = l]
    BY DEF SweepLook, Goto
  <2>2. slot' \in [Task -> Slot]
    BY DEF IInv, TypeOK, SweepLook
  <2> QED BY <2>1, <2>2 DEF IInv, TypeOK, SweepLook, bindVars, lockVars, taskVars, restVars,
     ghosts
<1>2. LockHeld'
  BY DEF IInv, TypeOK, LockHeld, Locked, SweepLook, Goto, Matches
<1>3. InSteps'
  BY DEF IInv, TypeOK, InSteps, SweepLook, Goto, Matches, Owner, Sweep, ghosts
<1>4. OwnerLive'
  BY DEF IInv, TypeOK, OwnerLive, SweepLook, Goto, Matches, bindVars, Sweep
<1>5. UseCovers' /\ UseExact' /\ AbsentZero'
  BY CountsKept DEF IInv, TypeOK, AbsentZero, SweepLook, Goto, Matches, bindVars,
     ghosts
<1>6. FieldsAgree'
  BY DEF IInv, FieldsAgree, SweepLook, Goto, Matches, bindVars, ghosts
<1>7. HandsAgree'
  BY DEF IInv, TypeOK, HandsAgree, SweepLook, Goto, Matches, bindVars, ghosts, Sweep
<1>8. NothingLost'
  BY DEF IInv, TypeOK, NothingLost, SweepLook, Goto, Matches, bindVars, ghosts
<1>9. MisledLate'
  BY DEF IInv, MisledLate, HandsAgree, SweepLook, ghosts
<1>10. ClaimsAgree'
  BY BindingAssumption DEF IInv, ClaimsAgree, FieldsAgree, TypeOK, SweepLook, Goto, Matches,
     bindVars, ghosts, taskVars
<1> QED BY <1>1, <1>2, <1>3, <1>4, <1>5, <1>6, <1>7, <1>8, <1>9, <1>10 DEF IInv

LEMMA SweepAgainStep ==
  ASSUME IInv, SweepAgain
  PROVE  IInv'
<1>1. TypeOK'
  BY DEF IInv, TypeOK, SweepAgain, Goto, bindVars, taskVars, restVars, ghosts, Task
<1>2. LockHeld'
  BY DEF IInv, LockHeld, Locked, SweepAgain, Goto
<1>3. InSteps'
  BY DEF IInv, InSteps, SweepAgain, Goto, taskVars, ghosts
<1>4. OwnerLive'
  BY DEF IInv, OwnerLive, SweepAgain, Goto, bindVars, taskVars
<1>5. UseCovers' /\ UseExact' /\ AbsentZero'
  BY CountsKept DEF IInv, AbsentZero, SweepAgain, Goto, bindVars, taskVars, ghosts
<1>6. FieldsAgree'
  BY DEF IInv, FieldsAgree, SweepAgain, Goto, bindVars, ghosts
<1>7. HandsAgree'
  BY DEF IInv, HandsAgree, SweepAgain, Goto, bindVars, taskVars, ghosts
<1>8. NothingLost'
  BY DEF IInv, NothingLost, SweepAgain, Goto, bindVars, taskVars, ghosts
<1>9. MisledLate'
  BY DEF IInv, MisledLate, HandsAgree, SweepAgain, ghosts
<1>10. ClaimsAgree'
  BY BindingAssumption DEF IInv, ClaimsAgree, FieldsAgree, SweepAgain, Goto, bindVars,
     taskVars, ghosts, TypeOK
<1> QED BY <1>1, <1>2, <1>3, <1>4, <1>5, <1>6, <1>7, <1>8, <1>9, <1>10 DEF IInv

LEMMA CloseClassStep ==
  ASSUME IInv, CloseClass
  PROVE  IInv'
<1>1. TypeOK'
  BY DEF IInv, TypeOK, CloseClass, Goto, Unused, bindVars, lockVars, taskVars, ghosts
<1>2. LockHeld'
  BY DEF IInv, LockHeld, Locked, CloseClass, Goto, Unused, lockVars
<1>3. InSteps'
  BY DEF IInv, InSteps, CloseClass, Goto, Unused, taskVars, ghosts
<1>4. OwnerLive'
  BY DEF IInv, OwnerLive, CloseClass, Goto, Unused, bindVars, taskVars
<1>5. UseCovers' /\ UseExact' /\ AbsentZero'
  BY CountsKept DEF IInv, AbsentZero, CloseClass, Goto, Unused, bindVars, taskVars,
     ghosts
<1>6. FieldsAgree'
  BY DEF IInv, FieldsAgree, CloseClass, Goto, Unused, bindVars, ghosts
<1>7. HandsAgree'
  BY DEF IInv, HandsAgree, CloseClass, Goto, Unused, bindVars, taskVars, ghosts
<1>8. NothingLost'
  BY DEF IInv, NothingLost, CloseClass, Goto, Unused, bindVars, taskVars, ghosts
<1>9. MisledLate'
  BY DEF IInv, MisledLate, HandsAgree, CloseClass, ghosts
<1>10. ClaimsAgree'
  BY BindingAssumption DEF IInv, ClaimsAgree, FieldsAgree, CloseClass, Goto, Unused,
     bindVars, taskVars, ghosts, TypeOK
<1> QED BY <1>1, <1>2, <1>3, <1>4, <1>5, <1>6, <1>7, <1>8, <1>9, <1>10 DEF IInv

-----------------------------------------------------------------------------
LEMMA InitIInv == Init => IInv
<1> SUFFICES ASSUME Init
             PROVE  IInv
  OBVIOUS
<1>0. TypeOK
  <2>1. place \in {"live", "dead", "gone"} /\ {root, app, overlap, misled, wild} \subseteq BOOLEAN
    BY DEF Init
  <2>2. /\ class \in [Class -> {"listed", "removed", "leaked", "absent"}] /\ use \in [Class -> Int]
        /\ field \in [Slot -> Class \cup User \cup {None}] /\ owner \in [Slot -> Class \cup {None}]
        /\ live \subseteq Slot \X Class /\ claimed \subseteq User
        /\ readers \subseteq Task /\ lock \in Task \cup {None}
    BY DEF Init
  <2>3. /\ slot \in [Task -> Slot] /\ hand \in [Task -> Class \cup User \cup {None}]
        /\ puc \in [Task -> Class \cup {None}] /\ left \in [Task -> SUBSET (Slot \cup {None})]
    BY DEF Init, Slot
  <2>4. target \in Class \cup {None, All} /\ calls \in 0..MaxCalls
    BY BindingAssumption DEF Init
  <2>5. pc \in [Task -> {"idle", "check", "lock", "take", "test", "hook", "retract", "call", "count",
                      "unlock", "walk", "again", "look", "close", "scan", "offer", "leave",
                      "claim", "interfaces", "flag", "bind", "disown", "retire", "purge", "lost"}]
    BY DEF Init
  <2> QED BY <2>1, <2>2, <2>3, <2>4, <2>5 DEF TypeOK
<1>1. /\ LockHeld /\ InSteps /\ OwnerLive /\ MisledLate
      /\ FieldsAgree /\ HandsAgree /\ ClaimsAgree /\ NothingLost
  <2>1. LockHeld /\ InSteps
    BY BindingAssumption DEF Init, LockHeld, Locked, InSteps
  <2>2. OwnerLive /\ MisledLate
    BY DEF Init, OwnerLive, MisledLate
  <2>3. FieldsAgree /\ NothingLost
    BY BindingAssumption DEF Init, FieldsAgree, NothingLost
  <2>4. HandsAgree /\ ClaimsAgree
    BY DEF Init, HandsAgree, ClaimsAgree
  <2> QED BY <2>1, <2>2, <2>3, <2>4
<1>2. \A k \in Class : Bindings(k) = 0 /\ use[k] = 0 /\ class[k] # "absent"
  <2> SUFFICES ASSUME NEW k \in Class
               PROVE  Bindings(k) = 0 /\ use[k] = 0 /\ class[k] # "absent"
    OBVIOUS
  <2>1. Live(k) = {} /\ Telling(k) = {}
    BY DEF Init, Live, Telling
  <2>2. Cardinality(Live(k)) = 0 /\ Cardinality(Telling(k)) = 0
    BY <2>1, FS_EmptySet
  <2> QED BY <2>2, BindingsIs DEF Init
<1>3. UseCovers /\ UseExact /\ AbsentZero
  BY <1>2 DEF UseCovers, UseExact, AbsentZero
<1> QED BY <1>0, <1>1, <1>3 DEF IInv

LEMMA StutterIInv == IInv /\ UNCHANGED vars => IInv'
<1> SUFFICES ASSUME IInv, UNCHANGED vars
             PROVE  IInv'
  OBVIOUS
<1>1. TypeOK' /\ LockHeld' /\ InSteps' /\ OwnerLive' /\ MisledLate' /\ AbsentZero'
  BY DEF IInv, TypeOK, LockHeld, Locked, InSteps, OwnerLive, MisledLate, AbsentZero, vars,
     bindVars, lockVars, taskVars, restVars, ghosts
<1>2. FieldsAgree' /\ HandsAgree' /\ ClaimsAgree' /\ NothingLost'
  BY DEF IInv, FieldsAgree, HandsAgree, ClaimsAgree, NothingLost, vars, bindVars, lockVars,
     taskVars,
     restVars, ghosts
<1>3. UseCovers' /\ UseExact'
  BY CountsKept DEF vars, bindVars, taskVars, ghosts
<1> QED BY <1>1, <1>2, <1>3 DEF IInv

\* The invariant of the release protocol: who holds the device lock, what the
\* fields of the device and its interfaces, the flag and the hands of the tasks
\* say of each binding, and what each class's use count is.
THEOREM Invariant == Spec => []IInv
<1>1. IInv /\ [Next]_vars => IInv'
  <2> SUFFICES ASSUME IInv, [Next]_vars
               PROVE  IInv'
    OBVIOUS
  <2>1. ASSUME NEW t \in Task, Work(t)
        PROVE  IInv'
    <3>1. CASE Release(t)
      BY <3>1, CheckStep, LockDeviceStep, TakeBindingStep, TestFlagStep, CallHookStep,
         RetractStep, CallReleaseStep, CountDownStep, UnlockDeviceStep DEF Release
    <3>2. CASE Walk(t)
      BY <3>2, WalkStep
    <3>3. CASE Scan(t)
      BY <3>3, ScanLockStep, OfferInterfaceStep, OfferDeviceStep, ScanEndStep DEF Scan
    <3>4. CASE t \in User /\ ClaimApp(t)
      BY <3>4, ClaimDeviceStep, ClaimInterfaceStep, ClaimFlagStep, ClaimBindingStep,
         ClaimClassStep DEF ClaimApp
    <3>5. CASE t = Owner /\ (FreeLock \/ FreeContents)
      BY <3>5, FreeLockStep, FreeContentsStep
    <3>6. CASE t = Sweep /\ (SweepLook \/ SweepAgain \/ CloseClass)
      BY <3>6, SweepLookStep, SweepAgainStep, CloseClassStep
    <3> QED BY <2>1, <3>1, <3>2, <3>3, <3>4, <3>5, <3>6 DEF Work
  <2>2. ASSUME NEW t \in Task, ScanStart(t)
        PROVE  IInv'
    BY <2>2, ScanStartStep
  <2>3. ASSUME NEW u \in User, ReleaseBinding(u) \/ ReleaseApp(u) \/ ClaimStart(u)
        PROVE  IInv'
    BY <2>3, ReleaseBindingStep, ReleaseAppStep, ClaimStartStep
  <2>4. ASSUME NEW k \in Class, AddClass(k) \/ RemClass(k)
        PROVE  IInv'
    BY <2>4, AddClassStep, RemClassStep
  <2>5. CASE FreeStart \/ UnbindAll
    BY <2>5, FreeStartStep, UnbindAllStep
  <2>6. CASE UNCHANGED vars
    BY <2>6, StutterIInv
  <2> QED BY <2>1, <2>2, <2>3, <2>4, <2>5, <2>6 DEF Next
<1> QED BY InitIInv, <1>1, PTL DEF Spec

\* The state keeps its shape, however releases, claims and scans of one device meet.
THEOREM BindingTypeCorrect == Spec => []TypeOK
<1>1. IInv => TypeOK
  BY DEF IInv
<1> QED BY Invariant, <1>1, PTL

-----------------------------------------------------------------------------
\* Only one task has a binding in its hand.
LEMMA OneHand ==
  ASSUME IInv, NEW s, NEW b, NEW t \in InHand(s, b)
  PROVE  InHand(s, b) = {t} /\ Cardinality(InHand(s, b)) = 1
<1>1. \A x \in InHand(s, b) : lock = x
  BY DEF IInv, LockHeld, Locked, InHand
<1>2. InHand(s, b) = {t}
  BY <1>1
<1> QED BY <1>2, FS_Singleton

LEMMA NoHand ==
  ASSUME NEW s, NEW b, \A t \in Task : ~(pc[t] \in {"test", "hook", "call"} /\ slot[t] = s /\ hand[t] = b)
  PROVE  Cardinality(InHand(s, b)) = 0
<1>1. InHand(s, b) = {}
  BY DEF InHand
<1> QED BY <1>1, FS_EmptySet

\* A class with a use count of zero has no binding, and none it was not told of.
LEMMA ZeroBindings ==
  ASSUME NEW k \in Class, IInv, ~misled, use[k] = 0
  PROVE  /\ \A s \in Slot : <<s, k>> \notin live
         /\ \A t \in Task : ~(pc[t] = "count" /\ puc[t] = k)
<1>1. Bindings(k) <= 0
  BY DEF IInv, UseCovers, TypeOK
<1>2. Cardinality(Live(k)) = 0 /\ Cardinality(Telling(k)) = 0
  BY <1>1, BindingsIs
<1>3. Live(k) = {} /\ Telling(k) = {}
  BY <1>2, Finite, FS_EmptySet
<1> QED BY <1>3 DEF Live, Telling

\* psdRemClass closes a class once its use count is zero, and nothing refers to it
\* then: a claim that is overlapped leaves the count too high, and too low only once
\* a release has handed a class, or an application, what is not its binding.
THEOREM ClosedClassUnused == Spec => []ClosedUnused
<1>1. IInv => ClosedUnused
  <2> SUFFICES ASSUME IInv, ~misled, NEW k \in Class, class[k] = "absent"
               PROVE  /\ \A s \in Slot : owner[s] # k /\ <<s, k>> \notin live
                      /\ \A t \in Task : puc[t] # k \/ pc[t] = "unlock"
    BY DEF ClosedUnused
  <2>1. use[k] = 0
    BY DEF IInv, AbsentZero
  <2>2. k # None
    BY BindingAssumption
  <2>3. \A s \in Slot : owner[s] # k /\ <<s, k>> \notin live
    BY <2>1, <2>2, ZeroBindings DEF IInv, OwnerLive
  <2>4. \A t \in Task : slot[t] \in Slot
    BY DEF IInv, TypeOK
  <2>5. ASSUME NEW t \in Task, puc[t] = k, pc[t] # "unlock"
        PROVE  FALSE
    <3>1. pc[t] = "call" \/ pc[t] = "count"
      BY <2>2, <2>5 DEF IInv, InSteps
    <3>2. pc[t] # "call"
      BY <2>3, <2>4, <2>5 DEF IInv, OwnerLive
    <3>3. pc[t] # "count"
      BY <2>1, <2>5, ZeroBindings
    <3> QED BY <3>1, <3>2, <3>3
  <2> QED BY <2>3, <2>5
<1> QED BY Invariant, <1>1, PTL

\* Each binding is in its field or in the hand of one task, so that its class, or
\* its application, hears of its end once, and the use count of a class is the
\* number of its bindings, as long as no other claim, release or scan came between
\* the steps of a claim; after that the count is no lower than that number until a
\* release hands somebody what is not his.
THEOREM BindingsAreAccounted == Spec => []BindingsAccounted
<1>1. IInv => BindingsAccounted
  <2> SUFFICES ASSUME IInv
               PROVE  BindingsAccounted
    OBVIOUS
  <2>1. /\ misled => overlap
        /\ ~misled => \A k \in Class : use[k] >= Bindings(k)
        /\ ~overlap => \A k \in Class : use[k] = Bindings(k)
    BY DEF IInv, MisledLate, UseCovers, UseExact
  <2>2. ASSUME ~overlap, NEW s \in Slot, NEW k \in Class
        PROVE  (IF field[s] = k /\ owner[s] = k THEN 1 ELSE 0) + Cardinality(InHand(s, k))
                 = IF <<s, k>> \in live THEN 1 ELSE 0
    <3>1. k # None /\ k \notin claimed
      BY BindingAssumption DEF IInv, TypeOK
    <3>2. field[s] = k => /\ owner[s] = k
                          /\ Cardinality(InHand(s, k)) = 0
      <4>1. field[s] = k => owner[s] = k
        BY <2>2 DEF IInv, FieldsAgree
      <4>2. ASSUME field[s] = k, NEW t \in Task, slot[t] = s
            PROVE  pc[t] \notin {"test", "hook", "call"}
        BY <2>2, <3>1, <4>2 DEF IInv, InSteps, HandsAgree
      <4> QED BY <4>1, <4>2, NoHand
    <3>3. owner[s] = k => <<s, k>> \in live
      BY <3>1 DEF IInv, OwnerLive
    <3>4. ASSUME NEW t \in InHand(s, k)
          PROVE  <<s, k>> \in live
      <4>1. t \in Task /\ pc[t] \in {"test", "hook", "call"} /\ slot[t] = s /\ hand[t] = k
        BY <3>4 DEF InHand
      <4>2. CASE pc[t] = "test"
        BY <2>2, <3>1, <3>3, <4>1, <4>2 DEF IInv, InSteps, HandsAgree
      <4>3. CASE pc[t] = "hook"
        BY <2>2, <3>1, <4>1, <4>3 DEF IInv, HandsAgree
      <4>4. CASE pc[t] = "call"
        BY <2>2, <4>1, <4>4 DEF IInv, OwnerLive, HandsAgree
      <4> QED BY <4>1, <4>2, <4>3, <4>4
    <3>5. CASE InHand(s, k) = {}
      <4>1. Cardinality(InHand(s, k)) = 0
        BY <3>5, FS_EmptySet
      <4>2. <<s, k>> \in live => field[s] = k
        BY <2>2, <3>5 DEF IInv, NothingLost, InHand
      <4> QED BY <3>2, <3>3, <4>1, <4>2
    <3>6. CASE InHand(s, k) # {}
      <4>1. Cardinality(InHand(s, k)) = 1 /\ <<s, k>> \in live
        BY <3>4, <3>6, OneHand
      <4> QED BY <3>2, <4>1
    <3> QED BY <3>5, <3>6
  <2>3. ASSUME ~overlap, NEW u \in User
        PROVE  (IF field[Dev] = u THEN 1 ELSE 0) + Cardinality(InHand(Dev, u))
                 = IF u \in claimed THEN 1 ELSE 0
    <3>1. u # None /\ u \notin Class /\ Dev \in Slot
      BY BindingAssumption DEF Slot
    <3>2. field[Dev] = u => app /\ u \in claimed /\ Cardinality(InHand(Dev, u)) = 0
      <4>1. field[Dev] = u => app /\ u \in claimed
        BY <2>3, <3>1 DEF IInv, FieldsAgree
      <4>2. ASSUME field[Dev] = u, NEW t \in Task, slot[t] = Dev, hand[t] = u
            PROVE  pc[t] \notin {"test", "hook", "call"}
        BY <2>3, <3>1, <4>2 DEF IInv, InSteps, HandsAgree
      <4> QED BY <4>1, <4>2, NoHand
    <3>3. ASSUME NEW t \in InHand(Dev, u)
          PROVE  u \in claimed
      <4>1. t \in Task /\ pc[t] \in {"test", "hook", "call"} /\ slot[t] = Dev /\ hand[t] = u
        BY <3>3 DEF InHand
      <4> QED BY <2>3, <3>1, <4>1 DEF IInv, InSteps, HandsAgree
    <3>4. CASE InHand(Dev, u) = {}
      <4>1. Cardinality(InHand(Dev, u)) = 0
        BY <3>4, FS_EmptySet
      <4>2. u \in claimed => field[Dev] = u
        BY <2>3, <3>4 DEF IInv, InSteps, NothingLost, InHand
      <4> QED BY <3>2, <4>1, <4>2
    <3>5. CASE InHand(Dev, u) # {}
      <4>1. Cardinality(InHand(Dev, u)) = 1 /\ u \in claimed
        BY <3>3, <3>5, OneHand
      <4> QED BY <3>2, <4>1
    <3> QED BY <3>4, <3>5
  <2> QED BY <2>1, <2>2, <2>3 DEF BindingsAccounted
<1> QED BY Invariant, <1>1, PTL

-----------------------------------------------------------------------------
\* What the sweep of psdRemClass knows when it closes its class.  The class is
\* off the list, so no scan binds it any more.
Removed == target \in Class => class[target] = "removed"

\* No field names it, or the device is going.
Swept == ~overlap /\ place = "live" /\ pc[Sweep] = "close" /\ target \in Class =>
           \A s \in Slot : field[s] # target

\* A task that has told a class and has yet to count it down still has it in hand.
Handed == ~overlap => \A t \in Task : pc[t] = "count" => hand[t] = puc[t]

Sweeping == Removed /\ Swept /\ Handed

\* Nothing but psdAddClass, psdRemClass and its end changes the list of classes.
LEMMA ClassKept ==
  ASSUME Next, ~CloseClass, ~UnbindAll,
         ~\E k \in Class : AddClass(k) \/ RemClass(k)
  PROVE  class' = class /\ target' = target
<1> USE DEF restVars
<1>1. ASSUME NEW t \in Task, Release(t) \/ Walk(t) \/ Scan(t) \/ ScanStart(t)
      PROVE  class' = class /\ target' = target
  <2>1. CASE Release(t)
    BY <2>1 DEF Release, Check, LockDevice, TakeBinding, TestFlag, CallHook, Retract,
                CallRelease, CountDown, UnlockDevice
  <2>2. CASE Walk(t)
    BY <2>2 DEF Walk
  <2>3. CASE Scan(t)
    BY <2>3 DEF Scan, ScanLock, OfferInterface, OfferDevice, ScanEnd
  <2>4. CASE ScanStart(t)
    BY <2>4 DEF ScanStart
  <2> QED BY <1>1, <2>1, <2>2, <2>3, <2>4
<1>2. ASSUME NEW u \in User, ReleaseBinding(u) \/ ReleaseApp(u) \/ ClaimStart(u) \/ ClaimApp(u)
      PROVE  class' = class /\ target' = target
  BY <1>2 DEF ReleaseBinding, ReleaseApp, ClaimStart, ClaimApp, ClaimDevice, ClaimInterface,
     ClaimFlag, ClaimBinding, ClaimClass
<1>3. CASE FreeStart \/ FreeLock \/ FreeContents \/ SweepLook \/ SweepAgain
  BY <1>3 DEF FreeStart, FreeLock, FreeContents, SweepLook, SweepAgain
<1> QED BY <1>1, <1>2, <1>3 DEF Next, Work

LEMMA RemovedStep ==
  ASSUME TypeOK, Removed, [Next]_vars
  PROVE  Removed'
<1> USE BindingAssumption DEF TypeOK, Removed, restVars
<1>1. ASSUME NEW k \in Class, AddClass(k) PROVE Removed'
  BY <1>1 DEF AddClass
<1>2. ASSUME NEW k \in Class, RemClass(k) PROVE Removed'
  BY <1>2 DEF RemClass
<1>3. CASE UnbindAll
  BY <1>3 DEF UnbindAll
<1>4. CASE CloseClass
  BY <1>4 DEF CloseClass
<1>5. CASE UNCHANGED vars
  BY <1>5 DEF vars
<1> QED BY <1>1, <1>2, <1>3, <1>4, <1>5, ClassKept

\* A field that says the class after the sweep found none would have to come from
\* a scan, which asks listed classes only, or a claim, which is no class's.
LEMMA SweptStep ==
  ASSUME TypeOK, FieldsAgree, Removed, Swept, [Next]_vars
  PROVE  Swept'
<1>0. Sweep \in Task /\ Owner \in Task /\ Owner # Sweep /\ Sweep \notin User
  BY BindingAssumption DEF Task, Owner, Sweep
<1> USE <1>0, BindingAssumption
    DEF TypeOK, Removed, Swept, restVars, ghosts, bindVars, taskVars, lockVars
<1>1. ASSUME NEW t \in Task, Release(t)
      PROVE  Swept'
  <2>1. CASE Check(t)
    BY <2>1 DEF Check, Goto, Back, Wild
  <2>2. CASE LockDevice(t)
    BY <2>2 DEF LockDevice, Goto
  <2>3. CASE TakeBinding(t)
    BY <2>3 DEF TakeBinding, OtherWrites, Goto, Cleared, Leave
  <2>4. CASE TestFlag(t) \/ CallHook(t) \/ Retract(t)
    BY <2>4 DEF TestFlag, CallHook, Retract, Called, OtherWrites, Goto
  <2>5. CASE CallRelease(t) \/ CountDown(t)
    BY <2>5 DEF CallRelease, Called, CountDown, Goto
  <2>6. CASE UnlockDevice(t)
    BY <2>6 DEF UnlockDevice, Goto, Back
  <2> QED BY <1>1, <2>1, <2>2, <2>3, <2>4, <2>5, <2>6 DEF Release
<1>2. ASSUME NEW t \in Task, Walk(t)
      PROVE  Swept'
  BY <1>2 DEF Walk, Goto
<1>3. ASSUME NEW t \in Task, OfferInterface(t)
      PROVE  Swept'
  BY <1>3 DEF OfferInterface, OtherWrites, Bound, Listed
<1>4. ASSUME NEW t \in Task, OfferDevice(t)
      PROVE  Swept'
  BY <1>4 DEF OfferDevice, OtherWrites, Bound, Listed, Goto
<1>5. ASSUME NEW t \in Task, ScanStart(t) \/ ScanLock(t) \/ ScanEnd(t)
      PROVE  Swept'
  BY <1>5 DEF ScanStart, ScanLock, ScanEnd, Goto
<1>6. ASSUME NEW u \in User, ClaimApp(u)
      PROVE  Swept'
  BY <1>6 DEF ClaimApp, ClaimDevice, ClaimInterface, ClaimFlag, ClaimBinding, ClaimClass,
     ClaimWrites, Goto
<1>7. ASSUME NEW u \in User, ReleaseBinding(u) \/ ReleaseApp(u) \/ ClaimStart(u)
      PROVE  Swept'
  BY <1>7 DEF ReleaseBinding, ReleaseApp, ClaimStart, Goto
<1>8. ASSUME NEW k \in Class, AddClass(k) \/ RemClass(k)
      PROVE  Swept'
  BY <1>8 DEF AddClass, RemClass, Goto
<1>9. CASE FreeStart \/ FreeLock \/ FreeContents
  BY <1>9 DEF FreeStart, FreeLock, FreeContents, Goto
<1>10. CASE UnbindAll \/ CloseClass \/ SweepAgain
  BY <1>10 DEF UnbindAll, CloseClass, SweepAgain, Goto
\* The look finds every field that says the class, as its owner does.
<1>11. CASE SweepLook
  <2>1. UNCHANGED <<place, field, target, overlap>>
    BY <1>11 DEF SweepLook
  <2>2. ASSUME place = "live", pc'[Sweep] = "close"
        PROVE  {s \in Slot : Matches(s)} = {}
    BY <1>11, <2>2 DEF SweepLook, Goto
  <2>3. ASSUME ~overlap, target \in Class, NEW s \in Slot, field[s] = target
        PROVE  Matches(s)
    BY <2>3 DEF Matches, FieldsAgree
  <2> QED BY <2>1, <2>2, <2>3
<1>12. CASE UNCHANGED vars
  BY <1>12 DEF vars
<1> QED BY <1>1, <1>2, <1>3, <1>4, <1>5, <1>6, <1>7, <1>8, <1>9, <1>10, <1>11, <1>12
    DEF Next, Work, Scan

\* hand is set with puc, and both are given up together.
LEMMA HandedStep ==
  ASSUME IInv, Handed, [Next]_vars
  PROVE  Handed'
<1> SUFFICES ASSUME ~overlap', NEW r \in Task, pc'[r] = "count"
             PROVE  hand'[r] = puc'[r]
  BY DEF Handed
<1> USE BindingAssumption DEF IInv, TypeOK, Handed, restVars, ghosts, bindVars, taskVars, lockVars
<1>1. ASSUME NEW t \in Task, Release(t)
      PROVE  hand'[r] = puc'[r]
  <2>1. CASE Check(t)
    BY <2>1 DEF Check, Goto, Back, Wild, Task
  <2>2. CASE LockDevice(t)
    BY <2>2 DEF LockDevice, Goto
  <2>3. CASE TakeBinding(t)
    BY <2>3 DEF TakeBinding, OtherWrites, Goto, Leave
  <2>4. CASE TestFlag(t) \/ CallHook(t) \/ Retract(t)
    BY <2>4 DEF TestFlag, CallHook, Retract, Called, OtherWrites, Goto
  <2>5. CASE CallRelease(t) \/ CountDown(t)
    BY <2>5 DEF CallRelease, Called, CountDown, Goto, HandsAgree
  <2>6. CASE UnlockDevice(t)
    BY <2>6 DEF UnlockDevice, Goto, Back, Task
  <2> QED BY <1>1, <2>1, <2>2, <2>3, <2>4, <2>5, <2>6 DEF Release
<1>2. ASSUME NEW t \in Task, Walk(t)
      PROVE  hand'[r] = puc'[r]
  BY <1>2 DEF Walk, Goto
<1>3. ASSUME NEW t \in Task, OfferInterface(t) \/ OfferDevice(t)
      PROVE  hand'[r] = puc'[r]
  BY <1>3 DEF OfferInterface, OfferDevice, OtherWrites, Goto
<1>4. ASSUME NEW t \in Task, ScanStart(t) \/ ScanLock(t) \/ ScanEnd(t)
      PROVE  hand'[r] = puc'[r]
  BY <1>4 DEF ScanStart, ScanLock, ScanEnd, Goto
<1>5. ASSUME NEW u \in User, ClaimApp(u)
      PROVE  hand'[r] = puc'[r]
  BY <1>5 DEF ClaimApp, ClaimDevice, ClaimInterface, ClaimFlag, ClaimBinding, ClaimClass,
     ClaimWrites, Goto
<1>6. ASSUME NEW u \in User, ReleaseBinding(u) \/ ReleaseApp(u) \/ ClaimStart(u)
      PROVE  hand'[r] = puc'[r]
  BY <1>6 DEF ReleaseBinding, ReleaseApp, ClaimStart, Goto
<1>7. ASSUME NEW k \in Class, AddClass(k) \/ RemClass(k)
      PROVE  hand'[r] = puc'[r]
  BY <1>7 DEF AddClass, RemClass, Goto
<1>8. CASE FreeStart \/ FreeLock \/ FreeContents
  BY <1>8 DEF FreeStart, FreeLock, FreeContents, Goto
<1>9. CASE UnbindAll \/ CloseClass \/ SweepAgain \/ SweepLook
  BY <1>9 DEF UnbindAll, CloseClass, SweepAgain, SweepLook, Goto
<1>10. CASE UNCHANGED vars
  BY <1>10 DEF vars
<1> QED BY <1>1, <1>2, <1>3, <1>4, <1>5, <1>6, <1>7, <1>8, <1>9, <1>10 DEF Next, Work, Scan

LEMMA SweepKnows == Spec => []Sweeping
<1>1. Init => Sweeping
  BY BindingAssumption DEF Init, Sweeping, Removed, Swept, Handed, Task
<1>2. IInv /\ Sweeping /\ [Next]_vars => Sweeping'
  <2>1. IInv => TypeOK /\ FieldsAgree
    BY DEF IInv
  <2> QED BY <2>1, RemovedStep, SweptStep, HandedStep DEF Sweeping
<1> QED BY <1>1, <1>2, Invariant, PTL DEF Spec

\* psdRemClass leaks a class, its use count not down to zero, only if a task has
\* taken one of its bindings out and has not counted it down yet, or the device of
\* one is being freed; claims that overlapped a release or a scan excepted.
THEOREM LeaksBesideARelease == Spec => LeakedOnlyIfReleased
<1>1. ASSUME IInv, Sweeping, Next, ~overlap,
             NEW k \in Class, class[k] = "removed", class'[k] = "leaked"
      PROVE  Releasing(k)
  <2> USE BindingAssumption
  <2>1. CloseClass
    <3>1. CASE UnbindAll
      BY <1>1, <3>1 DEF UnbindAll
    <3>2. CASE \E j \in Class : AddClass(j) \/ RemClass(j)
      BY <1>1, <3>2 DEF AddClass, RemClass, IInv, TypeOK
    <3> QED BY <1>1, <3>1, <3>2, ClassKept
  <2>2. pc[Sweep] = "close" /\ k = target /\ use[k] # 0
    BY <1>1, <2>1 DEF CloseClass, Unused
  <2>3. CASE \E s \in Slot : <<s, k>> \in live
    <3>1. PICK s \in Slot : <<s, k>> \in live
      BY <2>3
    <3>2. CASE field[s] = k
      <4>1. place # "live"
        BY <1>1, <2>2, <3>2 DEF Sweeping, Swept
      <4>2. owner[s] = k
        BY <1>1, <3>2 DEF IInv, FieldsAgree
      <4> QED BY <4>1, <4>2 DEF Releasing
    <3> QED BY <1>1, <3>1, <3>2 DEF IInv, NothingLost, Releasing
  <2>4. CASE \E t \in Task : pc[t] = "count" /\ puc[t] = k
    BY <1>1, <2>4 DEF Sweeping, Handed, Releasing
  <2>5. CASE Live(k) = {} /\ Telling(k) = {}
    <3>1. Bindings(k) = 0
      BY <2>5, BindingsIs, FS_EmptySet
    <3> QED BY <1>1, <2>2, <3>1 DEF IInv, UseExact
  <2> QED BY <2>3, <2>4, <2>5 DEF Live, Telling
<1>2. IInv /\ Sweeping /\ [Next]_vars =>
        [\A k \in Class : class[k] = "removed" /\ class'[k] = "leaked" =>
             Releasing(k) \/ overlap]_vars
  BY <1>1
<1> QED BY <1>2, Invariant, SweepKnows, PTL DEF Spec, LeakedOnlyIfReleased
=============================================================================
