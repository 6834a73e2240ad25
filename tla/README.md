# Models of the Poseidon/Neptune USB stack

TLA+ modules, TLC configurations and TLAPS proofs about the concurrent core of
this repository: the locks of `neptune.library`, the bindings, transfers,
suspend and end of a device, the recovery of halted endpoints, the hub task and
the unit of the mass storage class. `PROJECT.json` maps every definition to the
lines it models; line numbers below are those of
`src/neptune.library/neptune.library.c` unless another file is named.

To check a module: `tlc -config MCHub.cfg HubTask.tla`. To check the proofs:
`tlapm PsdLockProof.tla` (and the other `*Proof` modules).

## 1. The system

`neptune.library` is a shared library of an Amiga-like system. There is one
address space and one CPU; tasks are preempted anywhere except between
`Forbid()` and `Permit()`, and a `Wait()` inside such a stretch ends it. A step
of a model is therefore what happens under one Forbid or one hold of a lock, or
between two points at which another task can see a difference.

| Component | State it keeps | Operations | Talks to |
|---|---|---|---|
| Reader/writer lock (`PsdLockSem`) | owner, exclusive count, read records, wait queue | lock exclusive, lock shared, unlock | every other component, through `SIGF_SINGLE` |
| Lock lending (`psdBorrowLocksWait`) | lists of borrowed and of to-be-reclaimed holds | lend, wait, take back, reclaim | the lock, any task that waits for another |
| Device lifetime | `pd_UseCnt`, `PDFF_*`, the lists of live and dead devices | alloc, free, deferred free, removal of the controller | hub task (unplug), classes (pipes), event task, controller backend |
| Endpoint halt recovery | `pd_EpHaltMask`, `ps_StallRecoveryReq` | mark at delivery, sweep, class clear | transfers, event task, controller |
| Transfers | pipes, relay, activity counts, dead score | alloc/free pipe, send, do, abort, wait | controllers, classes |
| Suspend and link power | `PDFF_SUSPENDED`, idle timers | suspend, resume, idle sweep, rollback | bindings, hub methods |
| Bindings and class scan | `pd_DevBinding`, `pif_IfBinding`, class list | claim, release, scan | classes, hub task |
| Enumeration | configurations, interfaces, endpoints | descriptor reads, set address, set configuration | hub task, controller |
| Events | handlers and their ports | add, remove, broadcast | everybody, GUI |
| Settings, power budget | IFF forms, current drawn per hub | load, save, recalculate | preferences, hubs |
| Hub classes | `nch_Downstream`, deferred-work flags, the EP1 transfer, a method port | service loop, port configuration, methods, teardown | device lifetime, bindings, other hubs |
| Mass storage | unit queue, transport state, UAS tags | BeginIO, AbortIO, worker loop, task management | bindings, transfers |
| Other classes | a worker task and a device front end each | class protocols | bindings, transfers |
| Boot support, preferences, shell tools | none that outlives a call | start the stack, GUI | library calls |

What makes it hard:

* everything interleaves at every lock boundary, and several decisions are made
  under one protection and acted on under another (a use count tested under the
  device lock, lowered under Forbid; a mark taken out of a mask before its clear
  passes the function that would have cancelled it);
* tasks wait for one another in rings: a class for its hub's answer, the hub for
  the class's end, both with locks held that the other needs; lending of locks
  and the cancelling of requests are the ways out;
* signals are shared. A wait for one thing consumes the signal of another;
* devices go at any moment, and whatever is under way has to end;
* free is a distributed decision: the last user frees.

What has to be true of each component:

* **lock**: a writer is alone; a task can undo what it was given; no queued task
  that could run is left unsignalled; once callers stop asking, each waiter is
  served;
* **lending**: no hold is lost or made up; a borrow returns what its caller had;
* **device lifetime**: nothing is freed under an open pipe; every retired device
  is freed, once;
* **halt recovery**: each mark is looked at, each halt that matters ends, and a
  clear is not sent twice for one halt;
* **hub task**: it never sleeps over work; it submits EP1 once at a time; an
  answer never goes to a caller that left; the table of devices follows the
  ports; its end leaves nothing behind, and nobody waits for ever;
* **transfers**: each is delivered once, aborted or not, and whoever waits for it
  gets it back; the activity count of the device and the relay's in-flight count
  say what is out;
* **suspend**: whatever suspends, resumes, rollbacks and wakeups meet, the flag,
  the port, the rings and the bindings agree in the end;
* **bindings**: each binding is in one place and its owner is told of its end
  once; nothing refers to a class that was closed; scans, releases, claims and
  removals end;
* **mass storage**: a request is held in one place and answered once, through
  abort, reset, removal and a late status; a status is taken for its own command;
  what may not overlap waits for the tags.

## 2. The modules and how they correspond to the code

| Module | Models | Composed of | Run |
|---|---|---|---|
| `RWLock` | what a reader/writer lock promises (abstract) | | refined in `lock` |
| `PsdLock` | `pInitSem`, `pLockSemExcl`, `pLockSemShared`, `pUnlockSem` (412-645) | instantiates `RWLock` | `lock` |
| `BorrowLocks` | `psdBorrowLocksWait` (692-930) | extends `PsdLock` | `borrow`, `borrow_promotion` |
| `DeviceLife` | `pFreeDevice`, `psdFreeDevice`, `psdAllocPipe`/`psdFreePipe` counting, `psdRemHardware` | | `device` |
| `StallRecovery` (`MCStallRecovery`) | `pMarkStalledPipe`, `pSubmitPipe`'s snoop, `pStallRecoverySweep` and below, `psdClearEndpointHalt` | | `stall` |
| `DeviceIO` | `psdSendPipe`, `psdDoPipe`, `psdAbortPipe`, `psdWaitPipe`, `pSubmitPipe`, `pCompletePipe`, the relay's loop, `psdSuspendDevice`, `psdResumeDevice`, `pIdleSuspendSweep` and the suspend side of `hub.class.c` | | `device_io`, `resume_self` |
| `Binding` | `psdHubClassScan`, `psdHubRelease*Binding` and the calls above them, `psdClaimAppBindingA`, `psdAddClass`, `psdRemClass`, `psdUnbindAll` | | `binding`, `binding_ring` |
| `HubTask` | `nHubTask`, `nConfigurePort`, `nHubResetPort`, `nHandleHubMethod`, `nFreeHub`, `nHubMethodWait`, `usbDoMethodA` of `src/classes/hub/hub.class.c` | | `hub` |
| `MassUnit` | `devBeginIO`, `devAbortIO` (`dev.c`), `nMSTask`'s loop, the release and the new bind, and the tag engine of `massstorage_uas.c`, all in `src/classes/massstorage/` | | `unit`, `unit_drain` |
| `PsdLockProof`, `BorrowLocksProof`, `StallRecoveryProof`, `DeviceLifeProof`, `DeviceIOProof`, `MassUnitProof`, `BindingProof`, `HubTaskProof` | proofs (section 5) | extend the module they are about; `BorrowLocksProof` also `PsdLockProof` | |

The components meet at a few points. Where one module uses another's component
it takes what the other shows of it: `Binding` knows the device lock and PBase as
who has them, `DeviceIO` takes a class for a task that sends and agrees to
suspends, `HubTask` takes a device for a slot of its table.

**PsdLock.** Variables are the fields of `struct PsdLockSem`. The list of read
records becomes `readCount`, a count per task: the code searches it by task and
keeps one record each. The wait queue becomes the kind of lock each task waits
for: a release signals every record of the queue, so order does not matter.
`Enqueue` is the stretch from queueing over `SetSignal` to `Wait`;
`WakeExcl`/`WakeShared` the stretch after it. A read record that cannot be
allocated turns the request into an exclusive one, as in the code. `held`
counts what a task was given and has not undone, `closed` states progress.

**BorrowLocks.** One lock. `BorrowLocksWait` is the function up to its
`Wait(signals)`, `TakeBack` what follows it, `Reclaim` one relocking,
`BorrowReturns` the end. `WakePromoted` is the loop of `pLockSemShared` after
another task has set `prl_IsExcl` on the queued request. Lending signals the
borrower alone (`TellTarget`), whoever else could have the lock then.

**DeviceLife.** One device; `pc` is the place of each task, and `pFreeDevice` is
a procedure (`free` to `unlink`) any task may be in. `Forbid`-protected steps of
`psdFreePipe` are single actions; the test of `pd_UseCnt` and the setting of
`PDFF_DELEXPUNGE` are two, because they are not under Forbid. The backend's
destroy op, which opens and frees a pipe of its own, is `DestroyDevice` and
`Destroyed`. The stall sweep is the task that opens a pipe after it let go of
`PBase`. What a device's contents are is one Boolean.

**StallRecovery.** Devices are numbered in the order `psdGetNextDevice` lists
them. `xfer` follows the one transfer of an endpoint's class. `MarkMask` and
`RaiseReq` are separate because the delivery runs outside Forbid between them.
The sweep takes the request back (`SweepStart`), picks the first marked device
(`SweepPick`), then takes and clears one bit at a time. A clear on a suspended
device resumes it first, as `psdDoPipe` does.

**HubTask.** `pc` is the place in the loop, `pass` which loop over the ports it
is in, `num` the port. `LoopTop` and `Wait` are apart because a request may be
left between the test of the flags and the `Wait`. Every control transfer takes
the signal of the shared port (`Transfer`). Other tasks set flags
(`DisableRequest`, `ScanRequest`), queue messages (`ClassAsks`,
`SuspendRequest`) or send CTRL-C (`ReleaseHub`); they stand for any hub method
of those shapes. The port's hardware is `plug` and `change`
(C_PORT_CONNECTION); transfers on a live hub fail `MaxErrors` times, and
plugs, requests and errors together are bounded by `MaxEvents`. `missed`
records ports whose change the code acknowledges without having acted on it,
`off` those the code disabled. A device enumerated after the first pass is bound
by `psdClassScan` (`hub.class.c:1021`), which comes back to the hub task as the
flag of a scan (`Enumerated` sets `scan` at once; for a hub behind another it
comes with the parent's next pass).

**DeviceIO.** One device with a pipe per class. `mode` is how its controller takes
transfers: directly, as quick I/O whose count is raised after `BeginIO` has
returned (`CountDeferred`), or through the relay (`tasks`, `wire` and `replies`
are its ports and what the driver has). `busy` and `act` are `pd_IOBusyCount` and
`PFF_ACTIVITY`; a client in `listens` has an interrupt pipe, whose weight
(`pp_BusyWeight`) is 0. The count is read, changed and written with nothing held
(6004, 6013), as is the relay's `phw_MsgCount` (10655): a task keeps in `reg` what
it has read, and `torn` names the counts of which a write has overwritten another
task's. Two updates of `phw_MsgCount` are one step: the sender's (6137-6139),
which is under Forbid, and the relay's `++` (10648), as a controller whose
transfers the relay forwards has no other task that updates it. A suspend is the
sequence ask the bindings (`SuspendBindings`), arm remote wakeup, stop the rings,
park the port; a failing step rolls back what was done, as `psdSuspendDevice`
does. A resume is the reverse, in the task that sends. The parking of the port,
the noticing of a remote wakeup and the clearing of its change bit are the hub
task's, and wait for one another. `late` records transfers that were sent after
the bindings had agreed; with the listeners of classes that do not support
suspend, which no count shows and "Suspending anyway" (4762) leaves out, they are
what a suspend leaves on the wire (`LeftOut`). `lost` is a resume that failed, or
a wakeup acknowledged after the status had been read.

**Binding.** One device with its interfaces. `field` and `owner` are the pairs
`pd_DevBinding`/`pd_ClsBinding` and `pif_IfBinding`/`pif_ClsBinding`, `app` is
`PDFF_APPBINDING`; `live` and `claimed` are what classes and applications believe
they have. A release is one step per store and call, and so is a claim
(`psdHubClaimAppBindingA`), which takes no lock: `ClaimDevice` and
`ClaimInterface` are its tests (7971-7991), `ClaimFlag`, `ClaimBinding` and
`ClaimClass` its writes (7993-7995). Scans
hold PBase for reading and the device lock; `CallRelease` of a hub class waits
until nobody holds PBase, since the hub's task frees its children before it ends.
`Owner` is the task that frees the device, `Sweep` the one that removes a class
or releases everything; its list walk starts again after every release.
A root device is scanned and claimed by users' tasks, any other by its hub's.
`overlap` records that another claim, a release or a scan wrote between the steps
of a claim, or a claim between theirs; `misled` that a class or an application was
called with a binding that is not its own, after which it may do anything; `wild`
the use of an interface that was freed.

**MassUnit.** `rq` is where a client's request is, `port`, `queue`, `cur`,
`tag[t].req` and `owed` are the places that may hold it. `pc` is the place of
`nMSTask`; `ctx` says whether the tag engine turns for its main loop, for a
barrier's drain, or for a synchronous command that wants a tag. `dev[t]` is what
the device still works on under a tag: `cur` the command the host is waiting for,
`old` one it gave up; so a late answer is a device that answers `old`.
`Finalized` quarantines a tag given up, `nUasIssueTMF`'s ABORT TASK or a reset
empties it. `doubt` is set where the host cannot know: a reset that failed, or a
command IU reported lost. Depth 0 is a bulk-only or CBI unit. A task begins in
`startup`, where it has told the binding's task that it is ready (1610-1613 of
`massstorage.class.c`) and resets the device (`nBulkReset`, 1645-1653), goes on
with its INQUIRY, and takes requests and aborts meanwhile.

## 3. The runs

| Run | Shows | Instance |
|---|---|---|
| `lock` | exclusion, honoured unlocks, no lost wakeup, waiters served, refinement of `RWLock` | 3 tasks, nesting to 3 |
| `borrow` | books balance, loans come back, exclusion and no idle stall up to the gaps of section 6 | 3 tasks, nesting to 2 |
| `device` | contents freed only unused, no re-entry, freed once and always up to the two races below | hub task, remover, sweeper, 2 users |
| `stall` | marks announced and served, halts end, superfluous clears only in the known cases | 2 devices, an endpoint each, 1 upset |
| `hub` | no sleep over work, EP1 single submitter, answers reach callers, table follows ports, nothing left, everyone goes on | 2 ports, 2 plugs, 2 calls, 1 error, 3 events in all |
| `unit` | requests held once, statuses own, idle means quiet but for the startup's reset, stranded only if overtaken, every request answered | 2 clients, 2 tags, 2 sends, 1 release; with and without a task management stream, and bulk-only |
| `device_io` | counts right until an update is lost, never half suspended, every transfer ends unless a suspend left it out | 2 classes (`MCDeviceIO`): both support suspend, one does beside a listener that does not, or none; direct, quick and relayed; 2 sends, 2 suspends, 1 fault |
| `binding` | bindings accounted until a claim is overlapped, closed classes unused until somebody is handed what is not his, classes given up only beside a release, every task ends | a hub class and another, the device and 1 interface, 2 users, 3 calls; root and other device |
| `borrow_promotion`, `unit_drain`, `resume_self`, `binding_ring` | a statement of the documentation or of a comment that the code does not keep (section 6) | as above, reduced |

Why the bounds are enough:

* three tasks: the lock's interesting cases need a holder, a task that waits to
  be promoted and a newcomer; lending needs lender, target and bystander. Nesting
  to 2 or 3 separates "the last unlock" from the others. `PsdLockProof` removes
  both bounds for the lock;
* two pipe users beside hub, remover and sweeper: "last pipe" and "not the last"
  both occur while every free path is in progress;
* two devices with an endpoint each: the sweep serves one device a pass, so two
  show the order; `MaxUpsets` counts suspends, resets, failed clears and failed
  allocations, each of which may meet any step;
* two ports: one being worked on while the other changes. Two plugs give
  unplug-and-replug; two calls give suspend then resume, two disables of a port,
  and a class's request against a release. `Tries` is 3 in the code and 2 here;
* two tags and two requests: one tag in quarantine while the other is in use,
  both in quarantine, and a barrier behind either; a send is also a further chunk
  of a long transfer. One release gives denial, drain and the new bind. The
  proofs remove the bounds for the invariants;
* two classes, two sends and two suspends: a transfer that wakes the device while
  another is late or is being aborted, both suspenders at once, and a suspend
  again after a resume. A listener and a transfer that counts meet, and two
  transfers that count, with their updates in every order. `MaxFaults` counts
  aborts, remote wakeups and failing steps; one of them may meet any step;
* three calls: a scan that binds, a release or claim on one side and a removal of
  the class or a second claim on the other. The going of the device needs no
  call. A hub class and one other give each kind of release; one interface beside
  the device gives both levels of binding. Two claims meet, a claim and a release,
  and a claim between a release and a scan. A use count that is too low takes a
  fourth call, a release that is handed what a claim has mixed up (`misled`); the
  proofs have no such bound.

`CHECK_DEADLOCK FALSE` stands where the system may rest: nobody wants the lock,
the device is gone, nothing is marked, the hub task or the unit has ended, the
calls are made.

## 4. Fairness

* `PsdLock`: a signalled task runs (`Wake`), and once callers stop asking
  (`closed`) each undoes what it holds. Without the second the lock may be kept
  for ever, which is the caller's affair. Two readers that both ask for the
  exclusive lock wait for one another; the code has no remedy, and
  `WaitersServed` excepts that (`UpgradeClash`).
* `StallRecovery`: the event task is woken by its 500 ms timer and looks at the
  request flag each time, so `Sweep` needs no signal; deliveries go on,
  transfers on the wire end, and the class tries a halted endpoint again. The
  last is what the code counts on: a dropped mark is made again by the next
  transfer. Because the sweep picks the first marked device each pass, a device
  that halts as fast as it is cleared keeps later ones waiting; the liveness
  properties except exactly that (`Starved`).
* `HubTask`: the hub task and class tasks run, EP1 ends when it can, a class
  that was told to quit does. No fairness for plugs, requests or errors.
* `MassUnit`: the unit task runs, a request that passed the test of
  `ncm_DenyRequests` is queued, and every transfer ends, by the device or by the
  NAK timeout the code sets on each pipe. A configured timeout of zero switches
  that off (`nSetNakTimeout`, `massstorage.class.c:2956`, 2974-2976); a lost answer
  is then waited for until somebody aborts, so `EveryRequestAnswered` is about a
  timeout that is not zero. None for requests, aborts, late answers or releases.
* `DeviceIO`: the tasks run, the hub's and the relay's among them, and a
  transfer ends on a device that is up (`TransferEnds` needs port and rings).
  None for sends, suspends, wakeups and aborts.
* `Binding`: each task that has begun goes on, and a class's task that is told to
  quit ends. None for calls.
* `BorrowLocks` and `DeviceLife` state safety only.

## 5. Proofs

`PsdLockProof` proves, for any finite set of tasks and any nesting:

* `LockInvariant`: `Spec => []LockInv`, the inductive invariant;
* `TypeCorrect`, `LockExcludes`, `UnlocksHonoured`, `NoWakeupLost`: the four
  invariants of the run `lock`;
* `LockImplementsRWLock`: every step is a step of `RWLock` or a stutter.

Assumptions: `Task` is finite, `NoTask` is no task, `MaxHeld` is a positive
number.

`Exclusion` alone is not inductive. `pLockSemExcl` decides from
`pls_SharedLockCount`, not from the list, so the invariant says that the count
is the number of readers (`SharedCounted`), that owner and exclusive count agree
(`OwnerCounted`), that each task holds as many locks as it was given
(`HeldCounted`), and that a task queued for a lock does not own it, nor has a
record if it queues for a shared one (`WaitersLack`). The proof has a lemma per
kind of effect (a grant, a queueing, an unlock) and one step per action.
`NoLostWakeup` is proved on top of it: a grant makes the lock available to
nobody else, and each release that does signals everybody.

`StallRecoveryProof` proves, for any devices, endpoints and number of upsets,
`StallTypeCorrect`, `NoMarkForgotten` and `OneClearPerHalt` (`TypeOK`,
`MarkAnnounced` and `OneClearUnlessLate` of the run `stall`). The first two are
inductive together: that the event task has a device while it is outside `idle`
and `scan` is part of the type. `OneClearPerHalt` (`OneClearUnlessLate`) needs a
second invariant, `AllOwed`: an endpoint that is marked, in the event task's
hand or has a stalled transfer is halted or known to be late, and a class's own
clear leaves no mark behind but one in hand, which is late from then on.
Assumptions: `DevOf` maps endpoints to devices, `NoDevice` and `NoEp` are
neither.

`BorrowLocksProof` proves, for any finite set of tasks and any nesting,
`LoansBalance`, `LendingExcludes`, `StallsAreKnown` and `BorrowTakesBack`: the
invariants `BooksBalance`, `ExclusionUnlessOvertaken` and `NoIdleStall` and
the action property `TakenBack` of the run `borrow`. None follows from itself,
because a loan is in two books. The invariant `BInv` keeps of the lock what
survives lending (`OwnerCounted`, `SharedCounted`, `WaitersLack`, and `FreeTold`:
if nobody holds the lock, a waiter is signalled), and adds that an exclusive hold
has one lender, whose target is the owner (`WriterLent`); that what a task holds
is what it took and what is lent to it (`Balance`); that a lender holds nothing
of what it lent and notes all it has to take back (`Lenders`), which together
with what it holds is what it had on entry (`Owed`). What is lent to a task is
the cardinality of a set of numbered loans, so the sums are those of unions of
disjoint sets (`TotalWith`, `TotalWithout`). `LendingExcludes` carries its
exception, `overtaken`, through the invariant: the exclusion is needed for it
alone. `StallsAreKnown` is about a lock with obtainable waiters of which none has
been told. It follows from `FreeTold` for a lock nobody has, and for one with
readers from `LastReaderTold`: the last reader, if it waits to write, is told, or a
lender that has released its shared hold is still out. It does not say that every
waiter that could have the lock is told: it says that one is, or who tells them.
Assumptions as for the lock.

`DeviceLifeProof` proves `DeviceTypeCorrect`, `NeverReentered`, `FreedWhenUnused`
and `FreedOnce` (`TypeOK`, `NoReentry`, `FreeOnlyUnused` and
`FreedOnceUnlessRaced` of the run `device`) for any finite set of pipe users. The
invariant says that whoever is between the test of the use count and the
unlinking holds the device lock (`LockHeld`), so that nobody can arm the
collector after `FreeContents` has disarmed it (`Disarmed`); that the use count is
the number of open pipes (`Counted`); that a device with bindings is not about
to be freed (`Bound`) and one seen unused has none, nor a class that still uses a
pipe (`Purged`). That the free happens once is `Once`: without the two races one
task at most is in `pFreeDevice`, and after it nobody; that it happens at all is
`Promise`: a retired device with contents has a task in the free, or is marked
and has a pipe whose `psdFreePipe` will free it. Assumptions: a finite set of
users; the named tasks are distinct.

`HubTaskProof` proves, for any number of ports, of configuration tries and of
events, `HubTypeCorrect`, `NeverSleepsOverWork`, `AnswersReachCallers`,
`SlotsAgree`, `TaskLeavesNothing` and `EP1HasOneSubmitter`: the five invariants of
the run `hub` and `OneSubmitter`. The invariant says which of the loops over the
ports runs which stretch of code (`Passes`); that a message, a report or a flag
has its signal pending unless the loop gets to it before it sleeps (`Signals`),
which is where a control transfer that eats a signal matters; that a class
task's message is in one place and only while it waits (`Mail`); what the
teardown has behind it (`Emptied`). `SlotsFollowPorts` speaks of the idle task
alone and needs at each place of the loop what the task has read of the port in
work and whether that is still so (`Seen`, `Replaced`): each port is in step, or
has a change to be reported, or is the one in work (`Follows`). Assumptions:
ports are numbered from 1, at least one try, the bounds are naturals.

`DeviceIOProof` proves, for any finite set of classes and any number of sends,
suspends and faults, `DeviceIOTypeCorrect`, `CountsAreRight` and
`NeverHalfSuspended` (`TypeOK`, `CountsRight` and `NotHalfSuspended` of the run
`device_io`). The counts follow from where a transfer may be: `Places` says that a
transfer out is on the wire, in one port of the relay or in the hands of its
sender, never in two, and `InHand` that at most one task completes it. Both are
stated until an update has overwritten another (`torn`): before that a task that
writes what it has read and its weight keeps the count right, and `Active` and
`Relayed` are inductive with that exception. `NotHalfSuspended` speaks of quiet
states; the invariant says of every state who will set right what is not: a flag
that differs from the port has a change to be read or a rollback under way
(`FlagFollows`), rings or bindings that are down on a device not flagged have a
task that brings them up (`RingsFollow`, `BindingsFollow`), and after the
bindings' agreement only what the suspend leaves out is out (`LateOnly`): a count
that is right and zero shows that a class that was not asked has no transfer but a
listener's. Assumptions: a finite set of classes, apart from the hub's, the
relay's, the sweep's and the user's task, which are distinct; the bounds are
naturals.

`MassUnitProof` proves `UnitTypeCorrect`, `StatusesOwn`,
`OnlyOvertakenStranded`, `RequestsHeldOnce` and `IdleIsQuiet` (`TypeOK`,
`StatusIsOwn`, `StrandedOnlyIfOvertaken`, `HeldOnce` and `IdleMeansQuiet`, the
five invariants of the run `unit`) for any number of clients and tags. That no
pipe waits for two answers does not follow from itself. The invariant adds what
the engine knows where it decides: a free tag is one the device has finished
with unless in doubt (`DevKnown`); a status pipe is armed for running tags only
(`OffUnlessRunning`); what holds of the tag in hand between the steps of one
command (`InHand`); whose pipe a task management transfer uses and which tag it
is about (`TaskManagement`); and that no tag is in use on a bulk-only unit or
after the end (`TagsGone`). `Stranded` requests need where the loop may leave
the engine turning (`Turning`) and in which order the end denies, drains and
answers (`Ending`).

The requests have an invariant of their own on top of it, `HoldInv`. `HeldOnce`
counts a client in two sequences, the tags, a set and a variable; `Sole` says
the same without counting: the sequences name each element once, and `Placed`
divides the clients that sent among the port, the queue, the tags, the request
in hand and those to be replied. Each move of a request is a lemma about
`Placed` (`PlacedTake`, `PlacedSubmit`, `PlacedFinish`, `PlacedEscalate`, ...),
so the proof for an action is to say which move it makes. It needs that a tag
which does not run has no request (`Idlers`), as one that did would be forgotten
when it is used again. `IdleMeansQuiet` needs for whom the engine is turned
while a request is in hand, and that a command which changes the medium, once
past the barrier, never turns the engine again before its own tag runs
(`Executing`, `Alone`): with every tag free there is always one to claim. The
startup's reset is the one place where a suspend is agreed to beside a transfer,
and the statement says so.
Assumptions: a positive number of tags; the number of clients and the bounds are
naturals.

`BindingProof` proves `BindingTypeCorrect`, `ClosedClassUnused`,
`BindingsAreAccounted` and `LeaksBesideARelease` (`TypeOK`, `ClosedUnused`,
`BindingsAccounted` and `LeakedOnlyIfReleased` of the run `binding`) for any
finite sets of interfaces and users, any classes and any number of calls. Neither
of the two in the middle is inductive: where a binding is, and that a use count
covers the bindings there are, needs who holds the device lock. The invariant
`IInv` says that a task between the steps of a release or a scan holds the lock
(`LockHeld`) and what it has read (`InSteps`); that an owner named by a field or
about to be called has the binding (`OwnerLive`); that the use count is the number
of bindings (`UseExact`), or above it after an overlap until somebody is handed
what is not his (`UseCovers`), and zero for a class that is closed (`AbsentZero`).
Until a claim is overlapped, field, owner and flag agree (`FieldsAgree`), what a
task took out of a field is still what they say (`HandsAgree`), what a claim has
tested still holds (`ClaimsAgree`), and each binding is in a field or a hand
(`NothingLost`); so nobody is handed what is not his before (`MisledLate`). The
part of the argument that survives an overlap is the one `ClosedUnused` rests on.
There is a lemma per action, and four on how a step changes the number of
bindings. `LeaksBesideARelease` (`LeakedOnlyIfReleased`) rests on what the sweep
of `psdRemClass` knows when it closes its class (`Sweeping`): the class is off the
list (`Removed`), no field of a device that is still there names it (`Swept`), and
a task that has told the class and has yet to count it down still has it in hand
(`Handed`). So a use count that is not zero then is that of a binding in a hand.
Assumptions: finite sets of interfaces and users, distinct names for the device,
the owner, the sweep and the rest, parents are classes.

Only model-checked: liveness (`WaitersServed`, `MarksAndHaltsEnd`,
`EveryoneGoesOn`, `EveryRequestAnswered`, `EveryTransferEnds`, `EveryTaskEnds`),
which is beyond the prover, as is the ENABLED in a weak fairness. Every safety
property of a passing run is also proved. No module has a RECURSIVE operator.

## 6. What the code does not keep

Four runs end with a counterexample to what a comment or the documentation says:

1. `borrow_promotion` (543): a queued shared request that was promoted to
   exclusive waits for the owner field only. A reader that gets in between stays
   a reader beside the writer.
2. `unit_drain` (`massstorage_uas.c:604`): without a stream for task management
   `nUasIssueTMF` borrows an idle tag's pipe and does nothing while another tag is
   in use. Two tags in quarantine are each the other's busy tag, so the drain,
   which the comment at 750-753 calls bounded, waits for ever.
3. `resume_self` (4996): a class without support for suspend sends on its parked
   device. The resume releases its binding, and the release waits for the task
   that is resuming.
4. `binding_ring` (7749): a scan has PBase for reading and waits for the device
   lock; the release of a hub's binding has the lock and waits for the hub's task,
   which waits for PBase for writing to free a child (1728). The sweep of
   `psdRemClass` that "terminates" (7298) does not.

The passing runs state what holds beside known gaps; each exception is a gap a
reader of the code should know:

* `FreedOnceUnlessRaced`: the use count is tested and `PDFF_DELEXPUNGE` set in two
  steps (1660); if the last pipe goes between them the device is never freed. A
  device that waits for its last pipe may get another from the stall sweep, and
  then two tasks collect it (1668).
* `NoIdleStall`: a lender that gives up the lock signals its target alone (758,
  807), not the queue. A task queued for the lock that could have it may be untold
  while another that could is told, and takes it first; or, none of them told,
  beside a reader that runs and will tell everybody when it unlocks. In one case
  nobody does: two readers, one of which waits to write and is untold; the other
  lends its record to a third task that is itself queued, and waits. The first
  could have the lock now and sleeps on until the lender is back
  (`UpgradeUntold`). `StallsAreKnown` proves that there is no other case, beside
  the clash of two upgrades.
* `OneClearUnlessLate`: a mark leaves the mask before its clear reaches the wire
  (3556); a class's clear in between finds nothing to cancel.
* `BindingsAccounted` holds until another claim, a release or a scan comes between
  the steps of a claim, or a claim between theirs (`overlap`):
  `psdHubClaimAppBindingA` tests the fields (7971-7991) and writes flag, binding and
  class (7993-7995) without the device lock, on which the comment at 7630-7636
  relies. Two claims on a root device may both pass the test; the second overwrites
  the binding of the first, whose application is never told of its end. A claim
  while another application's release is in its hook loses `PDFF_APPBINDING`
  (8021), and its own hook is never called; a claim between the clearing of the
  field and the test of the flag makes a class's binding be taken for an
  application's. Its class's use count then stays too high. A claim, a release and
  a scan together can leave a field that names one class and an owner that is
  another, or none; whoever releases that calls a class or an application with a
  binding that is not its own (`misled`), and only from then on may a count be too
  low, and a class be closed while it is bound: `ClosedUnused` holds until then. The
  exception `overlap` stands in `LeakedOnlyIfReleased`, too.
* `EveryTaskEnds` excepts the ring above, `misled`, and `wild`: `psdRemClass`,
  `psdUnbindAll` and a forced claim drop PBase, or never had it, with an interface
  in hand (7319, 7701, 7602); the device may be freed meanwhile, which the FIXME
  at 7680 suspects.
* `IdleMeansQuiet`: the task of a unit is ready before it resets the device
  (`massstorage.class.c:1610-1613`, 1645-1653), and `nBulkReset` raises no
  `ncm_CmdBusy`; a suspend of the device is agreed to (1172) with the reset's
  transfers on the wire, against the comment at 1164-1166.
* `StrandedOnlyIfOvertaken`: the test of `ncm_DenyRequests` and the `PutMsg`
  (`dev.c:231`) are not under Forbid. A request queued in between the end's flush
  and the task's end stays in the port, until a new bind serves it.
* `CountsRight` holds until an unguarded update of a count overwrites another
  (`torn`): `pd_IOBusyCount` by callers and whoever completes (6004, 6013), and
  `phw_MsgCount` by the relay (10655), which may write over a sender's. The comment
  at 6119-6120 has the second in mind and guards one side of it.
* `EveryTransferEnds` and `NotHalfSuspended` except what a suspend leaves out on
  the parked device (`LeftOut`): transfers sent between the bindings' agreement
  and the flag (`late`, 4859); the interrupt listener of a class without support
  for suspend, which `pd_IOBusyCount` does not count (5828-5832), so that a
  suspend the user asks for goes on (4762); and any, once the count has lost an
  update. They also except what follows a resume that failed, or a port change
  acknowledged after the status was read (`lost`). `Wedged` also has the hub's
  task that releases a binding after a remote wakeup while that class's task waits
  for the hub's answer.

Seen on the way and not checked by a run: after the release of an interface, the
`pd = NULL; continue` of `pReleaseAfterDOSBindings` (7469) goes on with the inner
list walk, not with the restart its comment announces; `devAbortIO` ends with
"Anything else is a BOT request the unit task is executing" (`dev.c:334`), which
may as well be one still in the unit's port or a synchronous UAS command; and
`docs/neptune.library-architecture.md:516-517` says "a failed suspend is not
retried until fresh IO", while the transfer of `pArmRemoteWakeup` is fresh IO
itself.

`SlotsFollowPorts` excepts the ports in `missed`, where `hub.class.c` loses a
change: `nClearPortStatus` after a reset, on giving up, or after a status read
before the change (907, 1703, 1898); an unplug and replug between two reports,
which leaves the old device in its slot; a status read that fails with another
error than a timeout, after which the change is acknowledged (907); a status
read that times out on a hub that is there, for which a disconnect is made up
(903); a first `GET_STATUS` of `nConfigurePort` that fails (1708). On each, the
device stays out (or in) until the port changes again.

## 7. Abstractions and what is left out

* `BorrowLocks`: a single lock; a lender lends to a task that lends nothing
  itself; both notes of a loan fail to be allocated together
  (`BorrowLocksNoMemory`).
* `DeviceLife`: one device of one controller; what a freed controller still
  holds is not modelled.
* `StallRecovery`: one transfer of a class per endpoint at a time; the wake
  signal is left out as the timer makes up for it.
* `HubTask`: not modelled are `nAllocHub`, `nch_Settling`, over-current and local
  power, port suspend and remote wakeup, the twin ports of a SuperSpeed hub
  (`nPortShadowedByPeer`, `nNotifyPeerTwinEvict`; the eviction itself is a
  `DisableRequest`), what `psdClassScan` does to other devices, a failed
  `psdAllocDevice`, the address-0 semaphore. A read and write of `nch_DisablePort`
  is one step. `hubss.class.c` has the same loop and is not mapped.
* `DeviceIO`: no root hub, no unplugging, no `ForceSuspend` and no application
  bindings, no dead score; the relay does not shut down. The transfers that arm
  remote wakeup are not in `busy`, so their task is not among those whose updates
  may overwrite another's. A caller whose transfer ends inside the submission
  reads the count for its end in the step that counts its begin; an update that
  falls between the two is as one before the begin. A count is an integer: that
  `pd_IOBusyCount` has 16 bits matters to no property, which only ask whether it
  is zero. A class that supports suspend and stops its listener when it is asked
  (`hid.class.c:437-449`, the hub class) is one that was idle. Aborts, wakeups and
  failing steps share one budget.
* `Binding`: one device. A forced binding is an acceptance like any other, and
  what a scan selects (configurations, alternates) is left out; a class whose
  alternate cannot be set is as if it had declined; a scan whose pipe cannot be
  allocated binds nobody. The hub's binding a claim is routed by is there, and
  the claim is made by the hub's task while it does nothing else. The test of a
  claim ends at the first interface with a binding; the device's flags are changed
  one at a time, although `pd_Flags |=` (7993) may undo another task's change of
  another flag. A second device is not there, so the updates of a class's use count
  for it are not either. Not modelled: a claim that cannot allocate its binding,
  `pReleaseAfterDOSBindings`, the device's use count, suspend and resume calls
  into a binding, a class added again after it was given up.
* `MassUnit`: one unit of one LUN. A synchronous request is one command: autosense,
  the retry after a unit attention and the splitting of a flush are left out. A
  bulk-only or CBI command is one step that succeeds or fails. The startup is the
  reset and an INQUIRY that is answered, one step each: its delay and the media
  commands after the INQUIRY are left out, as are an INQUIRY that times out and
  leaves its tag in quarantine, the start/stop of UFI units, and the refusal of a
  suspend while LUN 0's transfer lock is held (1176-1183), which with several LUNs
  covers the startup's reset. Partition detection and the polling of removable
  media are not modelled.
* Components without a module: enumeration and configuration are one task's
  sequence of requests and parsing; events and notification, settings and the
  power budget are planned below. Audio and video are streaming: data and time,
  which these models do not tell apart. The network, serial, HID, printer, PTP
  and other classes repeat the patterns of `MassUnit` (a device front end with a
  unit queue and a worker) and of `HubTask`, beside protocol data. Boot support is
  a bounded polling loop; preferences and shell tools are front ends.

## 8. Plan

1. `HubTask` with suspend of single ports and two hubs for the twin eviction.
2. Power budget and settings as operators against a reference definition.
3. Events: handlers that come and go while a broadcast is under way.
4. The network classes' unit queue as an instance of `MassUnit`'s front end.

Theorems next: each model above with its invariant; and an abstract server of
requests (sent, then answered or aborted, once) that `MassUnit` refines by
`HoldInv` and that the network classes' queue could refine, too.
