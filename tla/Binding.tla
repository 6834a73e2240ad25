------------------------------- MODULE Binding -------------------------------
(***************************************************************************)
(* The bindings of one device: class scans bind it, or its interfaces, to  *)
(* classes; tasks release the bindings, one by one, with the device, or    *)
(* with a class that is removed; applications claim the device.            *)
(*                                                                         *)
(* A release clears the binding's field and calls the class under the      *)
(* device lock; a scan holds PBase for reading and the device lock; a      *)
(* claim holds nothing.  The classes in Parent are hub classes: the end of *)
(* such a binding frees the devices behind it, which takes PBase for       *)
(* writing.                                                                *)
(*                                                                         *)
(* A root device is scanned and claimed by the callers in their own tasks  *)
(* and freed with its controller; for any other device its hub's task does *)
(* all three.  Owner is the task that frees the device, Sweep the one that *)
(* removes classes.                                                        *)
(***************************************************************************)
EXTENDS Integers, FiniteSets

CONSTANTS Class, Parent, Iface, User,
          Dev,            \* the device's own binding, beside its interfaces'
          None,
          MaxCalls        \* bound: calls in a run

Slot == {Dev} \cup Iface
Owner == "owner"
Sweep == "sweep"
Task == {Owner, Sweep} \cup User
All  == "all"

ASSUME BindingAssumption ==
  /\ Parent \subseteq Class
  /\ IsFiniteSet(Iface) /\ Dev \notin Iface /\ IsFiniteSet(User)
  /\ None \notin Class \cup User \cup Task \cup Slot /\ All \notin Class
  /\ Class \cap User = {} /\ {Owner, Sweep} \cap User = {}
  /\ MaxCalls \in Nat

VARIABLES
  root,         \* the device is a root hub
  place,        \* where it is: on the live list, the dead list, its contents freed
  class, use,   \* the classes in the list, and puc_UseCnt
  field, owner, \* pd_DevBinding or pif_IfBinding, and pd_ClsBinding or pif_ClsBinding
  app,          \* PDFF_APPBINDING
  live,         \* the bindings classes believe they have
  claimed,      \* the applications that believe so
  readers,      \* who holds PBase for reading
  lock,         \* who holds the device lock
  pc, slot, hand, puc,  \* each task: where it is, and what it releases
  left,         \* the slots it still has to look at
  target,       \* what Sweep removes
  calls,
  overlap,      \* another claim, a release or a scan came between the steps of a claim
  misled,       \* a class or an application was handed what is not its binding
  wild          \* an interface was looked at after it was freed

bindVars == <<field, owner, app, live, claimed>>
lockVars == <<readers, lock>>
taskVars == <<slot, hand, puc, left>>
restVars == <<root, target, calls>>
ghosts   == <<overlap, misled, wild>>
vars == <<place, class, use, bindVars, lockVars, pc, taskVars, restVars, ghosts>>

Init == /\ root \in BOOLEAN /\ place = "live"
        /\ class = [k \in Class |-> "listed"] /\ use = [k \in Class |-> 0]
        /\ field = [s \in Slot |-> None] /\ owner = [s \in Slot |-> None]
        /\ app = FALSE /\ live = {} /\ claimed = {}
        /\ readers = {} /\ lock = None
        /\ pc = [t \in Task |-> "idle"] /\ slot = [t \in Task |-> Dev]
        /\ hand = [t \in Task |-> None] /\ puc = [t \in Task |-> None]
        /\ left = [t \in Task |-> {}]
        /\ target = None /\ calls = 0
        /\ overlap = FALSE /\ misled = FALSE /\ wild = FALSE

Goto(t, l) == pc' = [pc EXCEPT ![t] = l]
Call == calls < MaxCalls /\ calls' = calls + 1

-----------------------------------------------------------------------------
\* Nothing keeps a claim, from its test to its last write, or what a release or a
\* scan does to the device's fields, apart from another claim.
Claiming(t) == pc[t] \in {"interfaces", "flag", "bind", "disown"}
Between(t)  == \/ Claiming(t) \/ pc[t] \in {"test", "hook", "retract"} \/ pc[t] = "offer"

ClaimWrites(t) == overlap' = (overlap \/ \E u \in Task \ {t} : Between(u))
OtherWrites(t) == overlap' = (overlap \/ \E u \in Task \ {t} : Claiming(u))

-----------------------------------------------------------------------------
\* Releasing one binding.

\* Where a task goes on after a release.
Back(t) == Goto(t, CASE t = Owner -> "walk"
                     [] t = Sweep -> "again"
                     [] t \in User -> IF left[t] = {} THEN "idle" ELSE "walk")

\* Interfaces are freed with the device; a task may still have one in hand.
Stale(t) == slot[t] \in Iface /\ place = "gone"

\* What it reads is the empty field that was, or anything.
Wild(t) == /\ wild' = TRUE
           /\ Back(t) \/ Goto(t, "lost")

\* psdReleaseDevBinding and psdReleaseIfBinding look first, without the lock.
Check(t) ==
  /\ pc[t] = "check"
  /\ IF Stale(t) THEN Wild(t)
       ELSE /\ IF field[slot[t]] # None /\ (slot[t] \in Iface => owner[slot[t]] # None)
                 THEN Goto(t, "lock") ELSE Back(t)
            /\ UNCHANGED wild
  /\ UNCHANGED <<place, class, use, bindVars, lockVars, taskVars, restVars, overlap, misled>>

LockDevice(t) ==
  /\ pc[t] = "lock" /\ lock = None
  /\ lock' = t /\ Goto(t, "take")
  /\ UNCHANGED <<place, class, use, bindVars, readers, taskVars, restVars, ghosts>>

\* Mutant: the field is cleared once the class has let go.
ClearedLate(s) == UNCHANGED field

Cleared(s) == field' = [field EXCEPT ![s] = None]

\* Mutant: there is nothing to release, and the lock is kept.
LeaveLocked(t) == Back(t)

Leave(t) == Goto(t, "unlock")

\* psdHubReleaseDevBinding and psdHubReleaseIfBinding: the field is cleared
\* before anybody is called.
TakeBinding(t) ==
  LET s == slot[t] IN
  /\ pc[t] = "take"
  /\ IF Stale(t)
       THEN Goto(t, "lost") /\ wild' = TRUE /\ UNCHANGED <<field, owner, hand, puc, overlap>>
       ELSE /\ UNCHANGED wild
            /\ IF field[s] = None
                 THEN Leave(t) /\ UNCHANGED <<field, owner, hand, puc, overlap>>
                 ELSE /\ OtherWrites(t)
                      /\ Cleared(s) /\ hand' = [hand EXCEPT ![t] = field[s]]
                      /\ IF s = Dev
                           THEN Goto(t, "test") /\ UNCHANGED <<owner, puc>>
                           ELSE /\ puc' = [puc EXCEPT ![t] = owner[s]]
                                /\ owner' = [owner EXCEPT ![s] = None]
                                /\ Goto(t, IF owner[s] = None THEN "unlock" ELSE "call")
  /\ UNCHANGED <<place, class, use, app, live, claimed, lockVars, slot, left, restVars,
                 misled>>

\* What the binding was is read from the flag and pd_ClsBinding after that.
TestFlag(t) ==
  /\ pc[t] = "test"
  /\ OtherWrites(t)
  /\ IF app THEN Goto(t, "hook") /\ UNCHANGED <<owner, puc>>
       ELSE /\ puc' = [puc EXCEPT ![t] = owner[Dev]]
            /\ owner' = [owner EXCEPT ![Dev] = None]
            /\ Goto(t, IF owner[Dev] = None THEN "unlock" ELSE "call")
  /\ UNCHANGED <<place, class, use, field, app, live, claimed, lockVars, slot, hand, left,
                 restVars, misled, wild>>

\* What becomes of a call on what is not the callee's binding: anything.
Called(t, ok, l) == /\ misled' = (misled \/ ~ok)
                    /\ Goto(t, l) \/ (~ok /\ Goto(t, "lost"))

\* pab_ReleaseHook is called.
CallHook(t) ==
  /\ pc[t] = "hook"
  /\ claimed' = claimed \ {hand[t]}
  /\ Called(t, hand[t] \in User, "retract")
  /\ UNCHANGED <<place, class, use, field, owner, app, live, lockVars, taskVars, restVars,
                 overlap, wild>>

\* pd_ClsBinding is cleared and the flag taken back.
Retract(t) ==
  /\ pc[t] = "retract"
  /\ owner' = [owner EXCEPT ![Dev] = None] /\ app' = FALSE
  /\ OtherWrites(t)
  /\ Goto(t, "unlock")
  /\ UNCHANGED <<place, class, use, field, live, claimed, lockVars, taskVars, restVars, misled,
                 wild>>

CountedDown(t) == use' = [use EXCEPT ![puc[t]] = @ - 1]

\* UCM_ReleaseDeviceBinding or UCM_ReleaseInterfaceBinding returns once the
\* class's task has ended; a hub's task frees its children first.  It borrows the
\* device lock from the task that waits for it, but not PBase: nobody who
\* releases a binding holds that.
CallRelease(t) ==
  /\ pc[t] = "call"
  /\ puc[t] \in Parent => readers = {}
  /\ live' = IF hand[t] = puc[t] THEN live \ {<<slot[t], puc[t]>>} ELSE live
  /\ Called(t, hand[t] = puc[t], "count")
  /\ UNCHANGED <<place, class, use, field, owner, app, claimed, lockVars, taskVars, restVars,
                 overlap, wild>>

CountDown(t) ==
  /\ pc[t] = "count"
  /\ CountedDown(t)
  /\ Goto(t, "unlock")
  /\ UNCHANGED <<place, class, bindVars, lockVars, taskVars, restVars, ghosts>>

\* The Owner keeps the lock for its next binding.
UnlockDevice(t) ==
  /\ pc[t] = "unlock"
  /\ lock' = IF t = Owner THEN lock ELSE None
  /\ hand' = [hand EXCEPT ![t] = None] /\ puc' = [puc EXCEPT ![t] = None]
  /\ Back(t)
  /\ UNCHANGED <<place, class, use, bindVars, readers, slot, left, restVars, ghosts>>

Release(t) == \/ Check(t) \/ LockDevice(t) \/ TakeBinding(t) \/ TestFlag(t)
              \/ CallHook(t) \/ Retract(t) \/ CallRelease(t) \/ CountDown(t) \/ UnlockDevice(t)

-----------------------------------------------------------------------------
\* Class scans: psdHubClassScan.
Scanner == IF root THEN User ELSE {Owner}

\* The hub's task does one thing at a time.
HubFree == root \/ (pc[Owner] = "idle" /\ \A u \in User : ~Claiming(u))

ScanStart(t) ==
  /\ t \in Scanner /\ pc[t] = "idle" /\ HubFree /\ place = "live" /\ Call
  /\ readers' = readers \cup {t} /\ Goto(t, "scan")
  /\ UNCHANGED <<place, class, use, bindVars, lock, taskVars, root, target, ghosts>>

ScanLock(t) ==
  /\ pc[t] = "scan" /\ lock = None
  /\ lock' = t
  /\ IF field[Dev] # None THEN Goto(t, "leave") /\ UNCHANGED left
       ELSE Goto(t, "offer") /\ left' = [left EXCEPT ![t] = Iface]
  /\ UNCHANGED <<place, class, use, bindVars, readers, slot, hand, puc, restVars, ghosts>>

\* Class k accepts.
Bound(s, k) == /\ field' = [field EXCEPT ![s] = k] /\ owner' = [owner EXCEPT ![s] = k]
               /\ live' = live \cup {<<s, k>>}
               /\ use' = [use EXCEPT ![k] = @ + 1]

Listed == {k \in Class : class[k] = "listed"}

\* An interface nobody has is offered to the classes.  One that accepts an
\* alternate the device cannot switch to is released again.
OfferInterface(t) ==
  /\ pc[t] = "offer"
  /\ \E i \in left[t] :
       /\ left' = [left EXCEPT ![t] = @ \ {i}]
       /\ \/ field[i] = None /\ (\E k \in Listed \ Parent : Bound(i, k)) /\ OtherWrites(t)
          \/ UNCHANGED <<field, owner, live, use, overlap>>
  /\ UNCHANGED <<place, class, app, claimed, lockVars, pc, slot, hand, puc, restVars, misled, wild>>

\* The device is, once no interface has a binding.
OfferDevice(t) ==
  /\ pc[t] = "offer" /\ left[t] = {}
  /\ \/ /\ \A i \in Iface : field[i] = None
        /\ \E k \in Listed : Bound(Dev, k)
     \/ /\ field' = IF \A i \in Iface : field[i] = None
                      THEN [field EXCEPT ![Dev] = None] ELSE field
        /\ UNCHANGED <<owner, live, use>>
  /\ OtherWrites(t)
  /\ Goto(t, "leave")
  /\ UNCHANGED <<place, class, app, claimed, lockVars, taskVars, restVars, misled, wild>>

ScanEnd(t) ==
  /\ pc[t] = "leave"
  /\ lock' = None /\ readers' = readers \ {t} /\ Goto(t, "idle")
  /\ UNCHANGED <<place, class, use, bindVars, taskVars, restVars, ghosts>>

Scan(t) == ScanLock(t) \/ OfferInterface(t) \/ OfferDevice(t) \/ ScanEnd(t)

-----------------------------------------------------------------------------
\* What a user asks for.
ReleaseBinding(u) ==
  /\ pc[u] = "idle" /\ Call
  /\ \E s \in Slot :
       /\ s \in Iface => place # "gone"
       /\ slot' = [slot EXCEPT ![u] = s]
  /\ Goto(u, "check")
  /\ UNCHANGED <<place, class, use, bindVars, lockVars, hand, puc, left, root, target, ghosts>>

\* psdReleaseAppBinding releases what the device is bound to, without a look.
ReleaseApp(u) ==
  /\ pc[u] = "idle" /\ u \in claimed /\ Call
  /\ slot' = [slot EXCEPT ![u] = Dev]
  /\ Goto(u, "lock")
  /\ UNCHANGED <<place, class, use, bindVars, lockVars, hand, puc, left, root, target, ghosts>>

\* psdClaimAppBindingA, with ABA_ForceRelease or without.  None is what is left
\* when the releases are done.
ClaimStart(u) ==
  /\ pc[u] = "idle" /\ u \notin claimed /\ Call
  /\ \/ left' = [left EXCEPT ![u] = {None}]
     \/ left' = [left EXCEPT ![u] = {None} \cup IF field[Dev] # None THEN {Dev} ELSE Iface]
  /\ Goto(u, "walk")
  /\ UNCHANGED <<place, class, use, bindVars, lockVars, slot, hand, puc, root, target, ghosts>>

\* Mutant: the end of the list is taken for a binding.
RemainingEnd(t) == IF Dev \in left[t] THEN {Dev} ELSE left[t]

\* The bindings a walk may come to next: the device's own first.
Remaining(t) == IF Dev \in left[t] THEN {Dev} ELSE left[t] \ {None}

Walk(t) ==
  /\ pc[t] = "walk"
  /\ \/ /\ Remaining(t) = {}
        /\ IF t = Owner THEN lock' = None /\ Goto(t, "purge")
                        ELSE UNCHANGED lock /\ Goto(t, "claim")
        /\ UNCHANGED <<slot, left>>
     \/ \E s \in Remaining(t) :
          /\ slot' = [slot EXCEPT ![t] = s] /\ left' = [left EXCEPT ![t] = @ \ {s}]
          /\ Goto(t, IF t = Owner THEN "take" ELSE "check")
          /\ UNCHANGED lock
  /\ UNCHANGED <<place, class, use, bindVars, readers, hand, puc, restVars, ghosts>>

\* psdHubClaimAppBindingA, in the task of the hub, or in the caller's for a root,
\* with nothing held: the test of the device's field,
ClaimDevice(u) ==
  /\ pc[u] = "claim" /\ HubFree
  /\ IF field[Dev] # None THEN Goto(u, "idle") /\ left' = [left EXCEPT ![u] = {}]
       ELSE LET is == IF place = "gone" THEN {} ELSE Iface IN
            /\ left' = [left EXCEPT ![u] = is]
            /\ Goto(u, IF is = {} THEN "flag" ELSE "interfaces")
  /\ UNCHANGED <<place, class, use, bindVars, lockVars, slot, hand, puc, restVars, ghosts>>

\* of each interface's,
ClaimInterface(u) ==
  /\ pc[u] = "interfaces"
  /\ \E i \in left[u] :
       IF place = "gone" THEN Goto(u, "lost") /\ wild' = TRUE /\ UNCHANGED left
         ELSE /\ UNCHANGED wild
              /\ left' = [left EXCEPT ![u] = IF field[i] = None THEN @ \ {i} ELSE {}]
              /\ \/ field[i] # None /\ Goto(u, "idle")
                 \/ /\ field[i] = None
                    /\ IF left[u] = {i} THEN Goto(u, "flag") ELSE UNCHANGED pc
  /\ UNCHANGED <<place, class, use, bindVars, lockVars, slot, hand, puc, restVars, overlap, misled>>

\* and the writes of the flag, the binding and the class.
ClaimFlag(u) ==
  /\ pc[u] = "flag" /\ app' = TRUE /\ ClaimWrites(u) /\ Goto(u, "bind")
  /\ UNCHANGED <<place, class, use, field, owner, live, claimed, lockVars, taskVars, restVars,
                 misled, wild>>

ClaimBinding(u) ==
  /\ pc[u] = "bind"
  /\ field' = [field EXCEPT ![Dev] = u] /\ claimed' = claimed \cup {u}
  /\ ClaimWrites(u) /\ Goto(u, "disown")
  /\ UNCHANGED <<place, class, use, owner, app, live, lockVars, taskVars, restVars, misled, wild>>

ClaimClass(u) ==
  /\ pc[u] = "disown"
  /\ owner' = [owner EXCEPT ![Dev] = None]
  /\ ClaimWrites(u) /\ Goto(u, "idle")
  /\ UNCHANGED <<place, class, use, field, app, live, claimed, lockVars, taskVars, restVars,
                 misled, wild>>

ClaimApp(u) == \/ ClaimDevice(u) \/ ClaimInterface(u)
               \/ ClaimFlag(u) \/ ClaimBinding(u) \/ ClaimClass(u)

-----------------------------------------------------------------------------
\* The device goes: psdFreeDevice, or pFreeBindings and pFreeDevice.
FreeStart ==
  /\ pc[Owner] = "idle" /\ HubFree /\ place = "live" /\ readers = {}
  /\ place' = "dead" /\ Goto(Owner, "retire")
  /\ UNCHANGED <<class, use, bindVars, lockVars, taskVars, restVars, ghosts>>

FreeLock ==
  /\ pc[Owner] = "retire" /\ lock = None
  /\ lock' = Owner /\ left' = [left EXCEPT ![Owner] = Slot]
  /\ Goto(Owner, "walk")
  /\ UNCHANGED <<place, class, use, bindVars, readers, slot, hand, puc, restVars, ghosts>>

FreeContents ==
  /\ pc[Owner] = "purge" /\ lock = None
  /\ place' = "gone" /\ Goto(Owner, "idle")
  /\ UNCHANGED <<class, use, bindVars, lockVars, taskVars, restVars, ghosts>>

-----------------------------------------------------------------------------
\* psdRemClass, psdAddClass and psdUnbindAll.
AddClass(k) ==
  /\ class[k] = "absent" /\ readers = {} /\ Call
  /\ class' = [class EXCEPT ![k] = "listed"]
  /\ UNCHANGED <<place, use, bindVars, lockVars, pc, taskVars, root, target, ghosts>>

\* PBase is taken for writing: a scan that could bind the class has ended.
RemClass(k) ==
  /\ pc[Sweep] = "idle" /\ class[k] = "listed" /\ readers = {} /\ Call
  /\ class' = [class EXCEPT ![k] = "removed"]
  /\ target' = k /\ Goto(Sweep, "again")
  /\ UNCHANGED <<place, use, bindVars, lockVars, taskVars, root, ghosts>>

UnbindAll ==
  /\ pc[Sweep] = "idle" /\ Call
  /\ target' = All /\ Goto(Sweep, "again")
  /\ UNCHANGED <<place, class, use, bindVars, lockVars, taskVars, root, ghosts>>

\* Mutant: interfaces are left to the class.
MatchesDevice(s) == s = Dev /\ field[s] # None /\ ~app /\ owner[s] = target

Matches(s) == /\ field[s] # None
              /\ target = All \/ (owner[s] = target /\ (s = Dev => ~app))

\* The sweep releases the first binding it finds on a listed device, with PBase
\* dropped, and begins anew.
SweepLook ==
  LET found == IF place = "live" THEN {s \in Slot : Matches(s)} ELSE {} IN
  /\ pc[Sweep] = "look"
  /\ readers' = readers \ {Sweep}
  /\ IF found = {} THEN Goto(Sweep, "close") /\ UNCHANGED slot
       ELSE /\ \E s \in found : /\ Dev \in found => s = Dev
                                /\ slot' = [slot EXCEPT ![Sweep] = s]
            /\ Goto(Sweep, "check")
  /\ UNCHANGED <<place, class, use, bindVars, lock, hand, puc, left, restVars, ghosts>>

SweepAgain ==
  /\ pc[Sweep] = "again"
  /\ readers' = readers \cup {Sweep} /\ Goto(Sweep, "look")
  /\ UNCHANGED <<place, class, use, bindVars, lock, taskVars, restVars, ghosts>>

\* Mutant: the use count is not asked.
UnusedAlways(k) == TRUE

Unused(k) == use[k] = 0

\* A class still in use is leaked, the others are closed.
CloseClass ==
  /\ pc[Sweep] = "close"
  /\ class' = [k \in Class |-> IF k # target THEN class[k]
                               ELSE IF Unused(k) THEN "absent" ELSE "leaked"]
  /\ target' = None /\ Goto(Sweep, "idle")
  /\ UNCHANGED <<place, use, bindVars, lockVars, taskVars, root, calls, ghosts>>

-----------------------------------------------------------------------------
\* What a task does once it has begun.
Work(t) == \/ Release(t) \/ Walk(t) \/ Scan(t)
           \/ t \in User /\ ClaimApp(t)
           \/ t = Owner /\ (FreeLock \/ FreeContents)
           \/ t = Sweep /\ (SweepLook \/ SweepAgain \/ CloseClass)

Next == \/ \E t \in Task : Work(t) \/ ScanStart(t)
        \/ \E u \in User : ReleaseBinding(u) \/ ReleaseApp(u) \/ ClaimStart(u)
        \/ \E k \in Class : AddClass(k) \/ RemClass(k)
        \/ FreeStart \/ UnbindAll

\* Tasks are scheduled, and a class's task that is told to quit ends.
Fairness == \A t \in Task : WF_vars(Work(t))

Spec == Init /\ [][Next]_vars /\ Fairness

-----------------------------------------------------------------------------
\* The shape of the state.
TypeOK ==
  /\ place \in {"live", "dead", "gone"} /\ {root, app, overlap, misled, wild} \subseteq BOOLEAN
  /\ class \in [Class -> {"listed", "removed", "leaked", "absent"}]
  /\ use \in [Class -> Int]
  /\ field \in [Slot -> Class \cup User \cup {None}]
  /\ owner \in [Slot -> Class \cup {None}]
  /\ live \subseteq Slot \X Class /\ claimed \subseteq User
  /\ readers \subseteq Task /\ lock \in Task \cup {None}
  /\ pc \in [Task -> {"idle", "check", "lock", "take", "test", "hook", "retract", "call", "count",
                      "unlock", "walk", "again", "look", "close", "scan", "offer", "leave",
                      "claim", "interfaces", "flag", "bind", "disown", "retire", "purge", "lost"}]
  /\ slot \in [Task -> Slot] /\ hand \in [Task -> Class \cup User \cup {None}]
  /\ puc \in [Task -> Class \cup {None}]
  /\ left \in [Task -> SUBSET (Slot \cup {None})]
  /\ target \in Class \cup {None, All} /\ calls \in 0..MaxCalls

\* The task that has taken binding b out of slot s and has yet to tell its owner.
InHand(s, b) == {t \in Task : pc[t] \in {"test", "hook", "call"} /\ slot[t] = s /\ hand[t] = b}

\* How many bindings class k has, or has let go of and not counted down yet.
Bindings(k) == Cardinality({s \in Slot : <<s, k>> \in live})
               + Cardinality({t \in Task : pc[t] = "count" /\ puc[t] = k})

\* Each binding is in its field, or in the hand of exactly one task, so that its
\* class, or application, hears of its end once; and a class's use count says
\* how many it has.  A claim that another claim, a release or a scan overlaps breaks
\* this, and only then is anybody handed what is not his; until somebody is, a
\* binding lost to it leaves the count too high, never too low.
BindingsAccounted ==
  /\ misled => overlap
  /\ ~misled => \A k \in Class : use[k] >= Bindings(k)
  /\ ~overlap =>
       /\ \A k \in Class : use[k] = Bindings(k)
       /\ \A s \in Slot, k \in Class :
            (IF field[s] = k /\ owner[s] = k THEN 1 ELSE 0) + Cardinality(InHand(s, k))
              = IF <<s, k>> \in live THEN 1 ELSE 0
       /\ \A u \in User :
            (IF field[Dev] = u THEN 1 ELSE 0) + Cardinality(InHand(Dev, u))
              = IF u \in claimed THEN 1 ELSE 0

\* Until a class or an application is handed what is not its binding, nothing refers
\* to a class that was removed and closed: no field, no binding of its own, no task
\* that calls it or will count its use down.
ClosedUnused ==
  ~misled => \A k \in Class : class[k] = "absent" =>
    /\ \A s \in Slot : owner[s] # k /\ <<s, k>> \notin live
    /\ \A t \in Task : puc[t] # k \/ pc[t] = "unlock"

\* Somebody releases a binding of k, or the device of one is going.
Releasing(k) == \/ \E t \in Task : hand[t] = k
                \/ place # "live" /\ \E s \in Slot : owner[s] = k

\* psdRemClass gives a class up only if another task is just releasing one of its
\* bindings.
LeakedOnlyIfReleased ==
  [][\A k \in Class : class[k] = "removed" /\ class'[k] = "leaked" =>
       Releasing(k) \/ overlap]_vars

\* A scan that holds PBase waits for the device lock of a hub that is being
\* released, whose task waits for PBase.
Ring == \E s, t \in Task : /\ pc[s] = "scan" /\ lock = t
                           /\ pc[t] = "call" /\ puc[t] \in Parent

\* Releases, scans, claims and class removals come to an end, whatever they meet,
\* but for that.
EveryTaskEnds == \A t \in Task : pc[t] # "idle" ~> pc[t] = "idle" \/ Ring \/ wild \/ misled

=============================================================================
