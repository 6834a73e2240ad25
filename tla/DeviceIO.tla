------------------------------ MODULE DeviceIO ------------------------------
(***************************************************************************)
(* The transfers of one device and its suspend and resume.                 *)
(*                                                                         *)
(* Each client is a class task with a binding and a pipe.  A transfer goes *)
(* to the controller directly, as quick I/O, or by the relay task; it is   *)
(* replied by pCompletePipe wherever it comes back, and may be aborted.    *)
(* The event task's idle sweep and a user suspend the device, a transfer   *)
(* on a suspended device resumes it in the task that sends it, and the     *)
(* device may wake by itself.  The port is parked and unparked by the      *)
(* parent's hub task, which also notices the remote wakeup.                *)
(*                                                                         *)
(* The counts are read, changed and written back by whatever task submits  *)
(* or completes, and one such update may overwrite another's.              *)
(***************************************************************************)
EXTENDS Integers, Sequences, FiniteSets

CONSTANTS Client,              \* the class tasks
          Sweep, User, Hub,    \* the other tasks
          Relay,               \* the relay, or a direct controller's own task
          NoTask,
          Kinds,               \* the controllers, classes and devices looked at
          MaxSends, MaxSuspends, MaxFaults   \* bounds

ASSUME TaskAssumption == /\ IsFiniteSet(Client)
                         /\ Cardinality({Sweep, User, Hub, Relay, NoTask}) = 5
                         /\ Client \cap {Sweep, User, Hub, Relay, NoTask} = {}
ASSUME KindAssumption ==
  Kinds \subseteq [mode : {"direct", "quick", "relay"}, supports : SUBSET Client,
                  listens : SUBSET Client, canWake : BOOLEAN]
ASSUME BoundAssumption == {MaxSends, MaxSuspends, MaxFaults} \subseteq Nat

Suspender == {Sweep, User}
Task == Client \cup Suspender \cup {Hub, Relay}

VARIABLES
  mode,      \* how the controller takes transfers
  supports,  \* the classes that support suspend
  listens,   \* the classes whose pipe has pp_BusyWeight 0
  canWake,   \* the configuration's remote wakeup attribute
  pc,        \* where each task is
  back,      \* the suspenders that roll back
  msg,       \* pp_Msg: free, pending or replied
  act,       \* PFF_ACTIVITY
  busy,      \* pd_IOBusyCount
  reg,       \* the count as a task that updates it has read it
  torn,      \* the counts of which an update has overwritten another
  stamp,     \* pd_LastActivity is not zero
  tasks,     \* phw_TaskMsgPort
  wire,      \* the transfers the controller has
  taken,     \* the one that task completes
  replies,   \* phw_DevMsgPort
  msgs,      \* phw_MsgCount
  flag,      \* PDFF_SUSPENDED
  rings,     \* the endpoint rings run
  port,      \* the hub's port
  change,    \* C_PORT_SUSPEND
  seen,      \* the port's status as the hub task has read it
  running,   \* the bindings that have not stopped for a suspend
  releaser,  \* the task that releases a binding
  late,      \* transfers sent while a suspend was beyond the bindings' agreement
  lost,      \* a resume has failed, or a wakeup was acknowledged unseen
  sends, suspends, faults   \* aborts, remote wakeups and errors

kinds   == <<mode, supports, listens, canWake>>
pipeVars == <<msg, act, tasks, wire, taken, replies, msgs, late>>
powVars == <<flag, rings, port, change, seen, running, releaser, lost>>
countVars == <<busy, reg, torn>>
actVars == <<countVars, stamp>>
budget  == <<sends, suspends, faults>>
vars == <<kinds, pc, back, pipeVars, powVars, actVars, budget>>

Init == /\ \E k \in Kinds : /\ mode = k.mode /\ canWake = k.canWake
                            /\ supports = k.supports /\ listens = k.listens
        /\ pc = [t \in Task |-> "idle"] /\ back = {}
        /\ msg = [c \in Client |-> "free"] /\ act = {}
        /\ busy = 0 /\ stamp = TRUE /\ reg = [t \in Task |-> 0] /\ torn = {}
        /\ tasks = <<>> /\ wire = {} /\ taken = NoTask /\ replies = <<>> /\ msgs = 0
        /\ flag = FALSE /\ rings = TRUE /\ port = "on" /\ change = FALSE /\ seen = "on"
        /\ running = Client /\ releaser = [c \in Client |-> NoTask]
        /\ late = {} /\ lost = FALSE
        /\ sends = 0 /\ suspends = 0 /\ faults = 0

Goto(t, l) == pc' = [pc EXCEPT ![t] = l]

\* A transfer is aborted, the device wakes, or an operation fails.
Fault == faults < MaxFaults /\ faults' = faults + 1

-----------------------------------------------------------------------------
\* Transfers.

\* pp_BusyWeight: a pending interrupt listener is not busy IO.
Weight(c) == IF c \in listens THEN 0 ELSE 1

\* pd_IOBusyCount is read, changed and written with nothing held.
ReadBusy(t) == reg' = [reg EXCEPT ![t] = busy] /\ UNCHANGED <<busy, torn>>

WriteBusy(t, d) == /\ busy' = reg[t] + d
                   /\ torn' = IF busy = reg[t] THEN torn ELSE torn \cup {"busy"}

\* Mutant: the transfer is not counted.
ActivityBeginToken(c) == act' = act \cup {c} /\ stamp' = TRUE /\ UNCHANGED <<busy, torn>>

\* pActivityBegin, once the count is read.
ActivityBegin(c) == act' = act \cup {c} /\ stamp' = TRUE /\ WriteBusy(c, Weight(c))

\* pCompletePipe in task t, once the count is read: one end for each begin, and the reply.
CompletePipe(t, c) == /\ msg' = [msg EXCEPT ![c] = "replied"]
                      /\ act' = act \ {c}
                      /\ IF c \in act THEN WriteBusy(t, -Weight(c)) /\ stamp' = TRUE
                                      ELSE UNCHANGED <<busy, torn, stamp>>

\* A class task calls psdDoPipe or psdSendPipe: a transfer on a suspended device
\* resumes it first.
Send(c) ==
  /\ pc[c] = "idle" /\ releaser[c] = NoTask
  /\ sends < MaxSends /\ sends' = sends + 1
  /\ Goto(c, IF flag THEN "unpark" ELSE "submit")
  /\ UNCHANGED <<kinds, back, pipeVars, powVars, actVars, suspends, faults>>

\* A suspend has asked the bindings, and goes on or is rolled back.
Parking == flag \/ \E s \in Suspender : pc[s] \notin {"idle", "ask"}

\* pSubmitPipe: the activity's begin reads the count.
SubmitPipe(c) ==
  /\ pc[c] = "submit" /\ ReadBusy(c)
  /\ Goto(c, "begin")
  /\ UNCHANGED <<kinds, back, pipeVars, powVars, stamp, budget>>

\* The controller may complete it, or reject it, at once, and the caller reads the
\* count again (whoever updates it between the two might as well have before); a
\* deferred quick I/O is counted afterwards.
Submit(c) ==
  /\ pc[c] = "begin" /\ ActivityBegin(c)
  /\ late' = IF Parking THEN late \cup {c} ELSE late
  /\ msg' = [msg EXCEPT ![c] = "pending"]
  /\ \/ /\ mode # "relay"
        /\ reg' = [reg EXCEPT ![c] = busy'] /\ Goto(c, "ended")
        /\ UNCHANGED <<tasks, wire>>
     \/ /\ reg' = [reg EXCEPT ![c] = 0]
        /\ IF mode = "relay"
             THEN tasks' = Append(tasks, <<"io", c>>) /\ UNCHANGED wire
             ELSE wire' = wire \cup {c} /\ UNCHANGED tasks
        /\ Goto(c, IF mode = "quick" THEN "count" ELSE "wait")
  /\ UNCHANGED <<kinds, back, taken, replies, msgs, powVars, budget>>

\* The caller completes its own transfer: it was taken back, or ended at once.
EndOwn(c) ==
  /\ pc[c] = "ended"
  /\ CompletePipe(c, c) /\ reg' = [reg EXCEPT ![c] = 0]
  /\ Goto(c, "wait")
  /\ UNCHANGED <<kinds, back, tasks, wire, taken, replies, msgs, late, powVars, budget>>

\* The count of deferred requests, under Forbid().
\* Mutant: the deferred request is not counted.
CountDeferredNot(c) == /\ pc[c] = "count" /\ Goto(c, "wait")
                       /\ UNCHANGED <<kinds, back, pipeVars, powVars, actVars, budget>>

CountDeferred(c) ==
  /\ pc[c] = "count"
  /\ msgs' = msgs + 1
  /\ Goto(c, "wait")
  /\ UNCHANGED <<kinds, back, msg, act, tasks, wire, taken, replies, late, powVars, actVars,
                 budget>>

\* psdWaitPipe.
Collect(c) ==
  /\ pc[c] = "wait" /\ msg[c] = "replied"
  /\ msg' = [msg EXCEPT ![c] = "free"]
  /\ late' = late \ {c}
  /\ Goto(c, "idle")
  /\ UNCHANGED <<kinds, back, act, tasks, wire, taken, replies, msgs, powVars, actVars, budget>>

\* psdAbortPipe: by the controller's abort entry, which completes it in the caller
\* unless it ends already, or by the relay.
AbortPipe(c) ==
  /\ pc[c] = "wait" /\ msg[c] = "pending"
  /\ IF mode = "direct"
       THEN /\ c \in wire /\ wire' = wire \ {c} /\ ReadBusy(c) /\ Goto(c, "ended")
            /\ UNCHANGED tasks
       ELSE /\ tasks' = Append(tasks, <<"abort", c>>) /\ Goto(c, "aborting")
            /\ UNCHANGED <<wire, countVars>>
  /\ UNCHANGED <<kinds, back, msg, act, taken, replies, msgs, late, powVars, stamp,
                 sends, suspends>>

CancelTransfer(c) == Fault /\ AbortPipe(c)

\* A class whose binding is released aborts what its task waits for.
EndTask(c) == releaser[c] # NoTask /\ c \in wire /\ AbortPipe(c) /\ UNCHANGED faults

\* The relay: a transfer goes to the driver, or is aborted there.
RelayTake ==
  /\ pc[Relay] = "idle" /\ tasks # <<>>
  /\ tasks' = Tail(tasks)
  /\ LET c == Head(tasks)[2] IN
     IF Head(tasks)[1] = "io"
       THEN /\ wire' = wire \cup {c} /\ msgs' = msgs + 1
            /\ UNCHANGED <<replies, pc>>
       ELSE /\ wire' = wire \ {c}
            /\ replies' = IF c \in wire THEN Append(replies, c) ELSE replies
            /\ Goto(c, "wait")
            /\ UNCHANGED msgs
  /\ UNCHANGED <<kinds, back, msg, act, taken, late, powVars, actVars, budget>>

RelayReply ==
  /\ pc[Relay] = "idle" /\ replies # <<>>
  /\ replies' = Tail(replies) /\ taken' = Head(replies)
  /\ ReadBusy(Relay) /\ Goto(Relay, "ended")
  /\ UNCHANGED <<kinds, back, msg, act, tasks, wire, msgs, late, powVars, stamp, budget>>

Up == port = "on" /\ (mode = "direct" => rings)

\* The controller completes a transfer: by the done hook, or a reply to the relay.
TransferEnds(c) ==
  /\ c \in wire /\ Up
  /\ wire' = wire \ {c}
  /\ IF mode = "direct"
       THEN /\ pc[Relay] = "idle" /\ taken' = c
            /\ ReadBusy(Relay) /\ Goto(Relay, "ended") /\ UNCHANGED replies
       ELSE replies' = Append(replies, c) /\ UNCHANGED <<pc, taken, countVars>>
  /\ UNCHANGED <<kinds, back, msg, act, tasks, msgs, late, powVars, stamp, budget>>

\* What came back is completed; the relay then updates its count, with nothing held
\* either.
Deliver ==
  /\ pc[Relay] = "ended"
  /\ CompletePipe(Relay, taken) /\ taken' = NoTask
  /\ reg' = [reg EXCEPT ![Relay] = IF mode = "direct" THEN 0 ELSE msgs]
  /\ Goto(Relay, IF mode = "direct" THEN "idle" ELSE "uncount")
  /\ UNCHANGED <<kinds, back, tasks, wire, replies, msgs, late, powVars, budget>>

RelayUncount ==
  /\ pc[Relay] = "uncount"
  /\ msgs' = reg[Relay] - 1 /\ reg' = [reg EXCEPT ![Relay] = 0]
  /\ torn' = IF msgs = reg[Relay] THEN torn ELSE torn \cup {"msgs"}
  /\ Goto(Relay, "idle")
  /\ UNCHANGED <<kinds, back, msg, act, tasks, wire, taken, replies, late, powVars, busy, stamp,
                 budget>>

-----------------------------------------------------------------------------
\* Resume.
HubFree == pc[Hub] = "idle"

\* Where a task goes on after a resume.
Resumed(t) == /\ back' = back \ {t}
              /\ Goto(t, IF t \in Client THEN "submit"
                         ELSE IF t \in Suspender \ back THEN "arm" ELSE "idle")

\* UCM_HubResumeDevice, for psdResumeDevice and for the rollback, which goes on
\* whatever comes of it.
HubResumeDevice(t) ==
  /\ pc[t] = "unpark" /\ HubFree
  /\ \/ /\ port' = "on" /\ flag' = FALSE
        /\ change' = (change \/ port = "parked")
        /\ Goto(t, "ring")
        /\ UNCHANGED <<back, lost, faults>>
     \/ /\ Fault /\ lost' = TRUE
        /\ IF t \in back THEN Goto(t, "ring") /\ UNCHANGED back ELSE Resumed(t)
        /\ UNCHANGED <<port, flag, change>>
  /\ UNCHANGED <<kinds, pipeVars, rings, seen, running, releaser, actVars,
                 sends, suspends>>

\* Mutant: the rings stay where they are.
RestartRingsNot(t) ==
  /\ pc[t] = "ring" /\ Goto(t, "bind")
  /\ UNCHANGED <<kinds, back, pipeVars, powVars, actVars, budget>>

\* psdResumeBindings: SET_SUSPEND(0), whose result nobody reads.
RestartRings(t) ==
  /\ pc[t] = "ring"
  /\ \/ rings' = TRUE /\ UNCHANGED <<lost, faults>>
     \/ mode = "direct" /\ Fault /\ lost' = TRUE /\ UNCHANGED rings
  /\ Goto(t, "bind")
  /\ UNCHANGED <<kinds, back, pipeVars, flag, port, change, seen, running, releaser, actVars,
                 sends, suspends>>

\* Its bindings: a class that does not know the method loses its binding.
ResumeBindings(t) ==
  LET refuse == {c \in Client \ supports : releaser[c] = NoTask} IN
  /\ pc[t] = "bind"
  /\ running' = running \cup supports
  /\ releaser' = [c \in Client |-> IF c \in refuse THEN t ELSE releaser[c]]
  /\ IF refuse = {} THEN Resumed(t) ELSE Goto(t, "release") /\ UNCHANGED back
  /\ UNCHANGED <<kinds, pipeVars, flag, rings, port, change, seen, lost, actVars, budget>>

\* The release waits for the class's task to end; psdClassScan binds anew.
ReleaseIfBinding(t) ==
  /\ pc[t] = "release"
  /\ \A c \in Client : releaser[c] = t => pc[c] = "idle"
  /\ releaser' = [c \in Client |-> IF releaser[c] = t THEN NoTask ELSE releaser[c]]
  /\ Resumed(t)
  /\ UNCHANGED <<kinds, pipeVars, flag, rings, port, change, seen, running, lost, actVars, budget>>

-----------------------------------------------------------------------------
\* Suspend.

\* psdSuspendDevice, which looks at the flag first.
SuspendDevice(s) == /\ suspends < MaxSuspends /\ suspends' = suspends + 1
                    /\ Goto(s, "ask")

UserSuspend ==
  /\ pc[User] = "idle" /\ ~flag
  /\ SuspendDevice(User)
  /\ UNCHANGED <<kinds, back, pipeVars, powVars, actVars, sends, faults>>

\* pIdleSuspendSweep: an idle device whose classes support it, once.
IdleSweep ==
  /\ pc[Sweep] = "idle" /\ ~flag /\ busy = 0 /\ stamp
  /\ stamp' = FALSE
  /\ IF Client \subseteq supports THEN SuspendDevice(Sweep) ELSE UNCHANGED <<pc, suspends>>
  /\ UNCHANGED <<kinds, back, pipeVars, powVars, countVars, sends, faults>>

\* A class says no while it uses the device; for one that does not know the
\* question the device's activity count answers.
Declines(c) == IF c \in supports THEN pc[c] # "idle" ELSE busy # 0

\* psdSuspendBindings, under the device lock.
SuspendBindings(s) ==
  /\ pc[s] = "ask"
  /\ IF \E c \in Client : releaser[c] = NoTask /\ Declines(c)
       THEN /\ \E stopped \in SUBSET {c \in supports : ~Declines(c)} :
                 running' = running \ stopped
            /\ back' = back \cup {s} /\ Goto(s, "unpark")
       ELSE /\ running' = running \ supports
            /\ Goto(s, "arm") /\ UNCHANGED back
  /\ UNCHANGED <<kinds, pipeVars, flag, rings, port, change, seen, releaser, lost, actVars, budget>>

\* pArmRemoteWakeup sends transfers of its own, by psdDoPipe.
ArmRemoteWakeup(s) ==
  /\ pc[s] = "arm"
  /\ Goto(s, IF canWake /\ flag THEN "unpark" ELSE "quiesce")
  /\ stamp' = (stamp \/ (canWake /\ ~flag))
  /\ UNCHANGED <<kinds, back, pipeVars, powVars, countVars, budget>>

\* Mutant: what went before is left as it is.
RollbackNot(s) == Goto(s, "idle") /\ UNCHANGED back

Rollback(s) == Goto(s, "unpark") /\ back' = back \cup {s}

\* SET_SUSPEND(1), on a context controller.
QuiesceRings(s) ==
  /\ pc[s] = "quiesce"
  /\ \/ /\ rings' = (mode # "direct")
        /\ Goto(s, "park") /\ UNCHANGED <<back, faults>>
     \/ /\ mode = "direct" /\ Fault
        /\ Rollback(s) /\ UNCHANGED rings
  /\ UNCHANGED <<kinds, pipeVars, flag, port, change, seen, running, releaser, lost, actVars,
                 sends, suspends>>

\* UCM_HubSuspendDevice: a failed transfer may have parked the port.
HubSuspendDevice(s) ==
  /\ pc[s] = "park" /\ HubFree
  /\ \/ /\ port' = "parked" /\ flag' = TRUE
        /\ Goto(s, "idle") /\ UNCHANGED <<back, faults>>
     \/ /\ Fault
        /\ port' \in {port, "parked"}
        /\ Rollback(s) /\ UNCHANGED flag
  /\ UNCHANGED <<kinds, pipeVars, rings, change, seen, running, releaser, lost, actVars,
                 sends, suspends>>

-----------------------------------------------------------------------------
\* The device wakes the port.
RemoteWakeup ==
  /\ port = "parked" /\ canWake /\ Fault
  /\ port' = "on" /\ change' = TRUE
  /\ UNCHANGED <<kinds, pc, back, pipeVars, flag, rings, seen, running, releaser, lost, actVars,
                 sends, suspends>>

HubStatus ==
  /\ HubFree /\ change
  /\ seen' = port
  /\ Goto(Hub, "clear")
  /\ UNCHANGED <<kinds, back, pipeVars, flag, rings, port, change, running, releaser, lost,
                 actVars, budget>>

\* The hub task acknowledges the change and brings the flag in step; a change
\* since it read the status goes with it.
SuspendChange ==
  /\ pc[Hub] = "clear"
  /\ change' = FALSE
  /\ flag' = (seen = "parked")
  /\ lost' = (lost \/ seen # port)
  /\ Goto(Hub, IF seen = "on" /\ flag THEN "ring" ELSE "idle")
  /\ UNCHANGED <<kinds, back, pipeVars, rings, port, seen, running, releaser, actVars, budget>>

-----------------------------------------------------------------------------
Caller(c) == \/ EndTask(c) \/ SubmitPipe(c) \/ Submit(c) \/ CountDeferred(c) \/ Collect(c)
             \/ EndOwn(c)
Resume(t) == HubResumeDevice(t) \/ RestartRings(t) \/ ResumeBindings(t) \/ ReleaseIfBinding(t)
Suspend(s) == \/ SuspendBindings(s) \/ ArmRemoteWakeup(s)
              \/ QuiesceRings(s) \/ HubSuspendDevice(s)

\* What goes on without anybody asking.
Work == \/ RelayTake \/ RelayReply \/ Deliver \/ RelayUncount
        \/ HubStatus \/ SuspendChange
        \/ \E c \in Client : Caller(c) \/ TransferEnds(c)
        \/ \E t \in Task : Resume(t)
        \/ \E s \in Suspender : Suspend(s)

Next == \/ Work \/ IdleSweep \/ UserSuspend \/ RemoteWakeup
        \/ \E c \in Client : Send(c) \/ CancelTransfer(c)

\* Tasks are scheduled, and a transfer ends on a device that is up.
Fairness == WF_vars(Work)

Spec == Init /\ [][Next]_vars /\ Fairness

-----------------------------------------------------------------------------
\* The variables have their types, and the activity count does not go below zero
\* before one update of it has overwritten another.
TypeOK ==
  /\ mode \in {"direct", "quick", "relay"} /\ supports \subseteq Client /\ canWake \in BOOLEAN
  /\ listens \subseteq Client
  /\ pc \in [Task -> {"idle", "submit", "begin", "count", "wait", "ended", "uncount", "aborting",
                      "unpark", "ring", "bind", "release", "ask", "arm", "quiesce", "park",
                      "clear"}]
  /\ back \subseteq Suspender
  /\ msg \in [Client -> {"free", "pending", "replied"}] /\ act \subseteq Client
  /\ busy \in Int /\ ("busy" \notin torn => busy \in Nat)
  /\ reg \in [Task -> Int] /\ torn \subseteq {"busy", "msgs"} /\ stamp \in BOOLEAN
  /\ tasks \in Seq({"io", "abort"} \X Client) /\ wire \subseteq Client /\ replies \in Seq(Client)
  /\ taken \in Client \cup {NoTask}
  /\ msgs \in Int
  /\ {flag, rings, change, lost} \subseteq BOOLEAN
  /\ port \in {"on", "parked"} /\ seen \in {"on", "parked"}
  /\ running \subseteq Client /\ releaser \in [Client -> Task \cup {NoTask}] /\ late \subseteq Client
  /\ sends \in 0..MaxSends /\ suspends \in 0..MaxSuspends /\ faults \in 0..MaxFaults

InSeq(s) == {s[i] : i \in DOMAIN s}

\* The counts the idle sweep and the relay's shutdown trust, while no update of one
\* has overwritten another: the activity of a device is the number of its transfers
\* that were not replied, those of interrupt pipes aside, and the relay's is what the
\* driver has, but for the deferred ones their callers have yet to count
\* (pActivityBegin, pCompletePipe, pSubmitPipeReq, pDeviceTask).
CountsRight ==
  /\ "busy" \notin torn =>
       busy = Cardinality({c \in Client \ listens : msg[c] = "pending"})
  /\ mode # "direct" /\ "msgs" \notin torn =>
       msgs = Cardinality(wire) + Len(replies) + (IF pc[Relay] = "idle" THEN 0 ELSE 1)
              - Cardinality({c \in Client : pc[c] = "count"})

\* Nobody is about to change the device's power state.
Quiet == /\ HubFree /\ ~change
         /\ \A s \in Suspender : pc[s] = "idle"
         /\ \A c \in Client : pc[c] \notin {"unpark", "ring", "bind", "release"}

\* What a suspend leaves on the wire: transfers sent after the bindings had agreed,
\* the listeners of classes that were not asked ("Suspending anyway"), and anything
\* once the activity count is wrong.
LeftOut(c) == c \in late \/ c \in listens \ supports \/ "busy" \in torn

\* Once suspends, resumes, rollbacks and wakeups have met in any order, a device
\* that is not flagged suspended has its port, its rings and its bindings up; one
\* that is flagged is parked, and a transfer is out on it only if the suspend left
\* it there.
NotHalfSuspended ==
  Quiet /\ ~lost => IF flag THEN port = "parked" /\ \A c \in wire : LeftOut(c)
                            ELSE Up /\ running = Client

\* A class without support for suspend resumes its device, and waits for the
\* end of its own task; or waits for the hub's task, which waits for its end.
Wedged == \E c \in Client : releaser[c] = c \/ (releaser[c] = Hub /\ pc[c] = "unpark")

\* Whoever waits for a transfer gets it back, aborted or not, unless a suspend left
\* it out and the device stays parked.
EveryTransferEnds ==
  \A c \in Client : pc[c] # "idle" ~>
    (pc[c] = "idle" \/ (LeftOut(c) /\ flag) \/ Wedged \/ lost)

\* docs/neptune.library-architecture.md: a transfer on a suspended device resumes
\* it first.
SuspendedTransferEnds ==
  \A c \in Client : pc[c] = "unpark" ~> (pc[c] = "submit" \/ lost)
=============================================================================
