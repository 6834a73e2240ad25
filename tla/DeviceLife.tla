----------------------------- MODULE DeviceLife -----------------------------
(***************************************************************************)
(* The end of a device: psdFreeDevice (the hub task, on unplug),           *)
(* psdRemHardware (the controller goes), psdAllocPipe and psdFreePipe (any *)
(* task), and the stall sweep of the event task, which opens a pipe after  *)
(* it has let go of PBase.  pFreeDevice is a procedure any of them may be  *)
(* in: a device with open pipes is only marked, and the task that frees    *)
(* the last pipe frees it.                                                 *)
(*                                                                         *)
(* One device of one controller.  A step is what happens under one Forbid  *)
(* or one hold of PBase, or between two points where another task can run; *)
(* the device lock is held across several of them.                         *)
(***************************************************************************)
EXTENDS Naturals, FiniteSets

CONSTANTS User,          \* tasks that open pipes on the device
          Hub, Remover, Sweeper,   \* the hub task, a caller of psdRemHardware,
                                   \* the event task
          NoTask

Task == User \cup {Hub, Remover, Sweeper}

ASSUME TasksDistinct == /\ IsFiniteSet(User)
                        /\ {Hub, Remover, Sweeper} \cap User = {}
                        /\ Cardinality({Hub, Remover, Sweeper}) = 3
                        /\ NoTask \notin Task

VARIABLES
  pc,           \* where each task is
  list,         \* the list pd_Node is on: "live", "dead", "none"
  useCnt,       \* pd_UseCnt
  delExpunge,   \* PDFF_DELEXPUNGE
  contents,     \* configurations and descriptors are still there
  handle,       \* the backend still knows the device (pd_Handle)
  bound,        \* classes are bound to it
  devLock,      \* the writer of pd_Lock
  pipes,        \* tasks with a pipe open on the device
  unlinks,      \* how often the device was taken off the lists for good
  nested,       \* pFreeDevice was entered from inside pFreeDevice
  raced,        \* the last pipe went between the test of pd_UseCnt and the mark
  late          \* a pipe was opened on a device marked PDFF_DELEXPUNGE

useVars  == <<useCnt, pipes, raced, late>>
listVars == <<list, unlinks>>
bodyVars == <<contents, handle, bound>>
vars     == <<pc, delExpunge, devLock, nested, useVars, listVars, bodyVars>>

Init == /\ pc = [t \in Task |-> "idle"]
        /\ list = "live"
        /\ useCnt = 0
        /\ delExpunge = FALSE
        /\ contents = TRUE
        /\ handle = TRUE
        /\ bound = TRUE
        /\ devLock = NoTask
        /\ pipes = {}
        /\ unlinks = 0
        /\ nested = FALSE
        /\ raced = FALSE
        /\ late = FALSE

Goto(t, l) == pc' = [pc EXCEPT ![t] = l]

\* Where each task is when pFreeDevice returns.
Return(t) == CASE t = Hub     -> "done"
               [] t = Remover -> "loop"
               [] OTHER       -> "idle"

-----------------------------------------------------------------------------
\* Pipes.  The use count is changed under Forbid; nothing refuses a pipe on a
\* device that is going away, but a class opens its pipes while it is bound.
OpenPipe(t) == /\ useCnt' = useCnt + 1
               /\ pipes' = pipes \cup {t}
               /\ late' = (late \/ delExpunge)
               /\ UNCHANGED raced

AllocPipe(u) ==
  /\ pc[u] = "idle" /\ u \notin pipes /\ bound
  /\ OpenPipe(u)
  /\ UNCHANGED <<pc, delExpunge, devLock, nested, listVars, bodyVars>>

\* Mutant: being on the dead list is taken for being marked.
CollectsDead == useCnt = 1 /\ list = "dead"

\* The count saturates: a late free on an abandoned device must not wrap it.
Collects == useCnt = 1 /\ delExpunge

\* Mutant: the use count is not lowered.
ClosePipeUncounted(t) == /\ pipes' = pipes \ {t}
                         /\ UNCHANGED <<useCnt, raced, late>>

ClosePipe(t) ==
  /\ useCnt' = IF useCnt > 0 THEN useCnt - 1 ELSE 0
  /\ pipes' = pipes \ {t}
  /\ raced' = (raced \/ (useCnt = 1 /\ \E s \in Task : pc[s] = "mark"))
  /\ UNCHANGED late

FreePipe(t) ==
  /\ t \in pipes
  /\ pc[t] = IF t = Sweeper THEN "open" ELSE "idle"
  /\ ClosePipe(t)
  /\ Goto(t, IF Collects THEN "free" ELSE "idle")
  /\ UNCHANGED <<delExpunge, devLock, nested, listVars, bodyVars>>

-----------------------------------------------------------------------------
\* Mutant: the use count is not looked at.
FreeTestNever(t) ==
  /\ pc[t] = "free" /\ devLock = NoTask
  /\ devLock' = t
  /\ Goto(t, "purge")
  /\ UNCHANGED <<delExpunge, nested, useVars, listVars, bodyVars>>

\* pFreeDevice: the device lock, the test of the use count ...
FreeTest(t) ==
  /\ pc[t] = "free" /\ devLock = NoTask
  /\ devLock' = t
  /\ Goto(t, IF useCnt > 0 THEN "mark" ELSE "purge")
  /\ UNCHANGED <<delExpunge, nested, useVars, listVars, bodyVars>>

\* ... which leaves the rest to the last psdFreePipe ...
FreeDefer(t) ==
  /\ pc[t] = "mark"
  /\ delExpunge' = TRUE
  /\ devLock' = NoTask
  /\ Goto(t, Return(t))
  /\ UNCHANGED <<nested, useVars, listVars, bodyVars>>

\* Mutant: the collector stays armed.
FreeContentsArmed(t) ==
  /\ pc[t] = "purge"
  /\ contents' = FALSE
  /\ Goto(t, "destroy")
  /\ UNCHANGED <<delExpunge, handle, bound, devLock, nested, useVars, listVars>>

\* ... or frees what the device has.  The collector is disarmed first ...
FreeContents(t) ==
  /\ pc[t] = "purge"
  /\ delExpunge' = FALSE
  /\ contents' = FALSE
  /\ Goto(t, "destroy")
  /\ UNCHANGED <<handle, bound, devLock, nested, useVars, listVars>>

\* ... because the backend is told through a pipe of its own: its handle is
\* dropped before the pipe is opened, and psdFreePipe runs inside this task.
DestroyDevice(t) ==
  /\ pc[t] = "destroy"
  /\ IF handle THEN OpenPipe(t) /\ Goto(t, "destroying")
               ELSE UNCHANGED useVars /\ Goto(t, "unlink")
  /\ handle' = FALSE
  /\ UNCHANGED <<delExpunge, contents, bound, devLock, nested, listVars>>

Destroyed(t) ==
  /\ pc[t] = "destroying"
  /\ ClosePipe(t)
  /\ nested' = (nested \/ Collects)
  /\ Goto(t, "unlink")
  /\ UNCHANGED <<delExpunge, devLock, listVars, bodyVars>>

\* The device lock is dropped before PBase is taken.
FreeUnlock(t) ==
  /\ pc[t] = "unlink" /\ devLock = t
  /\ devLock' = NoTask
  /\ UNCHANGED <<pc, delExpunge, nested, useVars, listVars, bodyVars>>

FreeUnlink(t) ==
  /\ pc[t] = "unlink" /\ devLock # t
  /\ list' = "none"
  /\ unlinks' = unlinks + 1
  /\ Goto(t, Return(t))
  /\ UNCHANGED <<delExpunge, devLock, nested, useVars, bodyVars>>

FreeDevice(t) == \/ FreeTest(t) \/ FreeDefer(t) \/ FreeContents(t)
                 \/ DestroyDevice(t) \/ Destroyed(t)
                 \/ FreeUnlock(t) \/ FreeUnlink(t)

-----------------------------------------------------------------------------
\* Unplug: psdFreeDevice moves the device to the dead list and disarms the
\* collector, releases its bindings under the device lock, then frees it.
HubRetire ==
  /\ pc[Hub] = "idle" /\ pc[Remover] = "idle"
  /\ list' = "dead"
  /\ delExpunge' = FALSE
  /\ Goto(Hub, "bindings")
  /\ UNCHANGED <<devLock, unlinks, nested, useVars, bodyVars>>

LockBindings(t) ==
  /\ pc[t] = "bindings" /\ devLock = NoTask
  /\ devLock' = t
  /\ Goto(t, "release")
  /\ UNCHANGED <<delExpunge, nested, useVars, listVars, bodyVars>>

\* The classes let go of the device, though not always of every pipe.
ReleaseBindings(t) ==
  /\ pc[t] = "release"
  /\ bound' = FALSE
  /\ devLock' = NoTask
  /\ Goto(t, "free")
  /\ UNCHANGED <<delExpunge, contents, handle, nested, useVars, listVars>>

-----------------------------------------------------------------------------
\* The controller goes: psdRemHardware frees the devices still listed ...
\* The hub tasks of the controller have ended by the time their devices' turn
\* comes: the root device's bindings are released first.
RemStart ==
  /\ pc[Remover] = "idle" /\ pc[Hub] \in {"idle", "done"}
  /\ IF list = "live" THEN list' = "dead" /\ Goto(Remover, "bindings")
                      ELSE UNCHANGED list /\ Goto(Remover, "loop")
  /\ UNCHANGED <<delExpunge, devLock, unlinks, nested, useVars, bodyVars>>

\* ... then looks at each dead device until its pipes are closed ...
RemLook ==
  /\ pc[Remover] = "loop" /\ list = "dead"
  /\ Goto(Remover, "wait")
  /\ UNCHANGED <<delExpunge, devLock, nested, useVars, listVars, bodyVars>>

RemUnused ==
  /\ pc[Remover] = "wait" /\ useCnt = 0
  /\ Goto(Remover, "free")
  /\ UNCHANGED <<delExpunge, devLock, nested, useVars, listVars, bodyVars>>

\* ... for half a minute, after which it gives the device up as it is.
RemTimeout ==
  /\ pc[Remover] = "wait" /\ useCnt > 0
  /\ Goto(Remover, "abandon")
  /\ UNCHANGED <<delExpunge, devLock, nested, useVars, listVars, bodyVars>>

RemAbandon ==
  /\ pc[Remover] = "abandon" /\ devLock = NoTask
  /\ delExpunge' = FALSE
  /\ Goto(Remover, "unlink")
  /\ UNCHANGED <<devLock, nested, useVars, listVars, bodyVars>>

RemDone ==
  /\ pc[Remover] = "loop" /\ list = "none"
  /\ Goto(Remover, "done")
  /\ UNCHANGED <<delExpunge, devLock, nested, useVars, listVars, bodyVars>>

-----------------------------------------------------------------------------
\* The event task picks a connected device from the live list under PBase and
\* opens a pipe on it once PBase is dropped.
SweepPick ==
  /\ pc[Sweeper] = "idle" /\ list = "live" /\ ~delExpunge
  /\ Goto(Sweeper, "picked")
  /\ UNCHANGED <<delExpunge, devLock, nested, useVars, listVars, bodyVars>>

SweepOpen ==
  /\ pc[Sweeper] = "picked"
  /\ OpenPipe(Sweeper)
  /\ Goto(Sweeper, "open")
  /\ UNCHANGED <<delExpunge, devLock, nested, listVars, bodyVars>>

Next == \/ \E u \in User : AllocPipe(u)
        \/ \E t \in Task : FreePipe(t) \/ FreeDevice(t)
        \/ HubRetire
        \/ \E t \in {Hub, Remover} : LockBindings(t) \/ ReleaseBindings(t)
        \/ RemStart \/ RemLook \/ RemUnused \/ RemTimeout \/ RemAbandon \/ RemDone
        \/ SweepPick \/ SweepOpen

Spec == Init /\ [][Next]_vars
-----------------------------------------------------------------------------
\* The shape of the state.
TypeOK == /\ pc \in [Task -> {"idle", "free", "mark", "purge", "destroy",
                              "destroying", "unlink", "bindings", "release",
                              "loop", "wait", "abandon", "picked", "open", "done"}]
          /\ list \in {"live", "dead", "none"}
          /\ useCnt \in 0..Cardinality(Task)
          /\ delExpunge \in BOOLEAN /\ contents \in BOOLEAN /\ handle \in BOOLEAN
          /\ bound \in BOOLEAN /\ nested \in BOOLEAN
          /\ devLock \in Task \cup {NoTask}
          /\ pipes \subseteq Task
          /\ unlinks \in Nat
          /\ raced \in BOOLEAN /\ late \in BOOLEAN

\* No class has a pipe open on endpoints that are gone.
FreeOnlyUnused == ~contents => \A u \in User : u \in pipes => pc[u] # "idle"

\* The pipe the destroy op opens and closes does not start a second free.
NoReentry == ~nested

\* A retired device without pipes that nobody is going to free.
AtRest   == \A t \in Task : pc[t] \in {"idle", "picked", "done"}
Stranded == pc[Hub] = "done" /\ AtRest /\ useCnt = 0 /\ contents

\* The hub task and the classes hand the free of a device over to one another:
\* it is freed once, and the last psdFreePipe does free it.  Twice only if
\* psdRemHardware joins in, or if a pipe is opened on a device that waits for
\* its last pipe to go; never only if the last psdFreePipe falls between the
\* test of the use count and the mark in pFreeDevice.
FreedOnceUnlessRaced ==
  /\ unlinks > 1 => late \/ pc[Remover] # "idle"
  /\ Stranded /\ pc[Remover] = "idle" => raced
=============================================================================
