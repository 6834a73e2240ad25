------------------------------- MODULE HubTask -------------------------------
(***************************************************************************)
(* The task of one hub (nHubTask) with what reaches it from elsewhere:     *)
(* the change reports of its interrupt endpoint (EP1), port disables,      *)
(* power cycles and rescans left in flags by other tasks, methods queued   *)
(* as messages by tasks that wait for the answer, and CTRL-C.  The device  *)
(* of a port has one class task, which ends when it is told to and may ask *)
(* the hub task for a reset of its port meanwhile.                         *)
(*                                                                         *)
(* Every request on the hub's control pipe waits on the port EP1 and the   *)
(* flags signal too, so it may consume their signal ("task").              *)
(***************************************************************************)
EXTENDS Naturals, SequencesExt

CONSTANTS NumPorts,
          Tries,        \* port resets before nConfigurePort gives up
          MaxPlugs,     \* bound: connects and disconnects in a run
          MaxCalls,     \* bound: requests of other tasks in a run
          MaxErrors,    \* bound: transfers that fail on a hub that is there
          MaxEvents     \* bound: all of these together

ASSUME PortsAssumption  == NumPorts \in Nat \ {0}
ASSUME TriesAssumption  == Tries \in Nat \ {0}
ASSUME BoundsAssumption == /\ MaxPlugs \in Nat /\ MaxCalls \in Nat
                           /\ MaxErrors \in Nat /\ MaxEvents \in Nat

VARIABLES
  pc,           \* where the hub task is
  num,          \* the port its loops are at
  pass,         \* the loop over the ports it is in
  tries,        \* resets left in nConfigurePort
  seen,         \* the connection change it read: "none", "gone" or "there"
  brk,          \* SIGBREAKF_CTRL_C in sigs
  slot,         \* nch_Downstream: ports with a device
  disable, cycle, scan,           \* nch_DisablePort, nch_PowerCycle, nch_ClassScan
  running, armed,                 \* nch_Running, nch_IOStarted
  ep1, bits,    \* the state of the EP1 transfer, and nch_PortChanges
  queue, serving,                 \* nch_CtrlMsgPort, the message in work
  sig,          \* signals of the hub task
  cls,          \* the class task of each port's device
  told,         \* class tasks with a CTRL-C pending
  answered,     \* class tasks with an answer in their reply port
  suspender,    \* the task that suspends and resumes the hub
  plug, change, \* each port's device, and the ports' C_PORT_CONNECTION
  hubGone,      \* the hub was pulled
  off, missed,  \* ports left disabled, and ports whose change the code loses
  plugs, calls, errors

loopVars  == <<num, pass, tries, seen>>
workVars  == <<disable, cycle, scan>>
ep1Vars   == <<running, armed, ep1, bits>>
msgVars   == <<queue, serving, answered, suspender>>
clsVars   == <<cls, told>>
portVars  == <<plug, change, hubGone, off, missed>>
countVars == <<plugs, calls, errors>>
vars == <<pc, loopVars, brk, slot, workVars, ep1Vars, msgVars, sig, clsVars,
          portVars, countVars>>

Port == 1..NumPorts

Init == /\ pc = "configure" /\ num = 1 /\ pass = "initial" /\ tries = 0
        /\ seen = "none" /\ brk = FALSE
        /\ slot = {}
        /\ disable = {} /\ cycle = {} /\ scan = FALSE
        /\ running = FALSE /\ armed = FALSE /\ ep1 = "idle" /\ bits = {}
        /\ queue = <<>> /\ serving = <<>> /\ answered = {} /\ suspender = "idle"
        /\ sig = {}
        /\ cls = [p \in Port |-> "none"] /\ told = {}
        /\ plug \in [Port -> {"empty", "fresh"}] /\ change = {}
        /\ hubGone = FALSE /\ off = {} /\ missed = {}
        /\ plugs = 0 /\ calls = 0 /\ errors = 0

\* The bounds on what the environment does, each and all together.
Room == plugs + calls + errors < MaxEvents
Error == errors < MaxErrors /\ Room /\ errors' = errors + 1

\* The wait for a control transfer takes the signal of the port it came to.
Transfer == sig' = sig \ {"task"}

\* nClearPortStatus.  The changes in lost are forgotten with it.
Acknowledge(p, lost) == \/ /\ change' = change \ {p}
                           /\ missed' = missed \cup (lost \cap change)
                           /\ UNCHANGED errors
                        \/ ~hubGone /\ Error /\ UNCHANGED <<change, missed>>

\* On to the next port of the pass, or to what follows the pass.
PassEnd == [initial  |-> "bind",
            disable  |-> "scan",
            changes  |-> "bottom",
            teardown |-> "exit"]
PassBody == [initial  |-> "configure",
             disable  |-> "disable",
             changes  |-> "status",
             teardown |-> "teardown"]
NextPort == IF num < NumPorts
              THEN num' = num + 1 /\ pc' = PassBody[pass]
              ELSE num' = 1 /\ pc' = PassEnd[pass]
StartPass(p) == pass' = p /\ num' = 1 /\ pc' = PassBody[p]

\* Offering the devices of ports to the classes; each gets its class task.
Bind(ports) == cls' = [p \in Port |-> IF p \in ports /\ cls[p] = "none"
                                        THEN "run" ELSE cls[p]]

-----------------------------------------------------------------------------
\* The service loop.
InitialBind ==
  /\ pc = "bind"
  /\ Bind(slot)
  /\ running' = TRUE
  /\ pc' = "top"
  /\ UNCHANGED <<loopVars, brk, slot, workVars, armed, ep1, bits, msgVars, sig,
                 told, portVars, countVars>>

\* Mutant: the loop sleeps whatever the flags say.
HasWorkNever == FALSE

\* Work in the flags: their signal may be gone already.
HasWork == disable # {} \/ scan

Arm == IF running /\ ~armed
         THEN armed' = TRUE /\ ep1' = "wire"
         ELSE UNCHANGED <<armed, ep1>>

\* With work in the flags the loop looks for CTRL-C and does not wait.
LoopTop ==
  /\ pc = "top"
  /\ Arm
  /\ IF HasWork THEN pc' = "methods" /\ brk' = ("break" \in sig)
                ELSE pc' = "wait" /\ UNCHANGED brk
  /\ UNCHANGED <<loopVars, slot, workVars, running, bits, msgVars, sig, clsVars,
                 portVars, countVars>>

Wait ==
  /\ pc = "wait" /\ sig # {}
  /\ brk' = ("break" \in sig)
  /\ sig' = {}
  /\ pc' = "methods"
  /\ UNCHANGED <<loopVars, slot, workVars, ep1Vars, msgVars, clsVars, portVars, countVars>>

GetMethod ==
  /\ pc = "methods" /\ queue # <<>>
  /\ serving' = Head(queue) /\ queue' = Tail(queue)
  /\ pc' = "serve"
  /\ UNCHANGED <<loopVars, brk, slot, workVars, ep1Vars, answered, suspender, sig,
                 clsVars, portVars, countVars>>

MethodsDone ==
  /\ pc = "methods" /\ queue = <<>>
  /\ IF disable # {} THEN StartPass("disable") ELSE pc' = "scan" /\ UNCHANGED <<num, pass>>
  /\ UNCHANGED <<tries, seen, brk, slot, workVars, ep1Vars, msgVars, sig, clsVars,
                 portVars, countVars>>

ClassScan ==
  /\ pc = "scan"
  /\ scan' = FALSE
  /\ IF scan THEN Bind(slot) ELSE UNCHANGED cls
  /\ pc' = "changes"
  /\ UNCHANGED <<loopVars, brk, slot, disable, cycle, ep1Vars, msgVars, sig, told,
                 portVars, countVars>>

LoopBottom ==
  /\ pc = "bottom"
  /\ pc' = IF brk THEN "stop" ELSE "top"
  /\ UNCHANGED <<loopVars, brk, slot, workVars, ep1Vars, msgVars, sig, clsVars,
                 portVars, countVars>>

-----------------------------------------------------------------------------
\* nHandleHubMethod.
Reply == /\ serving' = <<>>
         /\ pc' = "methods"
         /\ CASE serving[1] = "reset"  -> /\ answered' = answered \cup {serving[2]}
                                          /\ UNCHANGED suspender
              [] serving[1] # "reset" -> suspender' = "idle" /\ UNCHANGED answered

\* nHubResetPort: the port comes back enabled ...
HubResetPort ==
  /\ pc = "serve" /\ serving[1] = "reset"
  /\ serving[2] \in slot /\ plug[serving[2]] # "empty" /\ ~hubGone
  /\ plug' = [plug EXCEPT ![serving[2]] = "enabled"]
  /\ pc' = "acknowledge"
  /\ Transfer
  /\ UNCHANGED <<loopVars, brk, slot, workVars, ep1Vars, msgVars, clsVars, change, hubGone,
                 off, missed, countVars>>

\* ... or the reset fails ...
HubResetFails ==
  /\ pc = "serve" /\ serving[1] = "reset"
  /\ \/ (serving[2] \notin slot \/ plug[serving[2]] = "empty" \/ hubGone) /\ UNCHANGED errors
     \/ Error
  /\ IF serving[2] \in slot THEN Transfer ELSE UNCHANGED sig
  /\ Reply
  /\ UNCHANGED <<loopVars, brk, slot, workVars, ep1Vars, queue, clsVars, portVars, plugs,
                 calls>>

\* ... and its change bits are cleared, with those of a reconnect among them.
HubResetDone ==
  /\ pc = "acknowledge"
  /\ Acknowledge(serving[2], {serving[2]})
  /\ Reply
  /\ Transfer
  /\ UNCHANGED <<loopVars, brk, slot, workVars, ep1Vars, queue, clsVars, plug, hubGone, off,
                 plugs, calls>>

\* Mutant: the method sends EP1 itself.
AttemptResumeArms ==
  /\ pc = "serve" /\ serving[1] = "resume"
  /\ running' = TRUE /\ armed' = TRUE /\ ep1' = "wire"
  /\ Reply
  /\ UNCHANGED <<loopVars, brk, slot, workVars, bits, queue, sig, clsVars, portVars, countVars>>

\* The children are suspended, then EP1 is aborted; a child may refuse.
AttemptSuspend ==
  /\ pc = "serve" /\ serving[1] = "suspend"
  /\ \/ running' = FALSE /\ ep1' = IF ep1 = "wire" THEN "aborted" ELSE ep1
     \/ slot # {} /\ UNCHANGED <<running, ep1>>
  /\ sig' = (IF slot = {} THEN sig ELSE sig \ {"task"})
               \cup (IF ep1' # ep1 THEN {"task"} ELSE {})
  /\ Reply
  /\ UNCHANGED <<loopVars, brk, slot, workVars, armed, bits, queue, clsVars, portVars, countVars>>

AttemptResume ==
  /\ pc = "serve" /\ serving[1] = "resume"
  /\ running' = TRUE
  /\ Reply
  /\ IF slot = {} THEN UNCHANGED sig ELSE Transfer
  /\ UNCHANGED <<loopVars, brk, slot, workVars, armed, ep1, bits, queue, clsVars, portVars,
                 countVars>>

Methods == \/ GetMethod \/ HubResetPort \/ HubResetFails \/ HubResetDone
           \/ AttemptSuspend \/ AttemptResume

-----------------------------------------------------------------------------
\* psdFreeDevice on the device of a port: its class is told to quit, and the hub
\* task waits for its task to end.
StartFree == told' = told \cup {p \in {num} : cls[p] # "none"} /\ pc' = "free"

\* Mutant: the class task is told and not waited for.
FreeDoneAtOnce ==
  /\ pc = "free"
  /\ slot' = slot \ {num}
  /\ IF pass = "disable" THEN pc' = "freed" /\ UNCHANGED num ELSE NextPort
  /\ UNCHANGED <<pass, tries, seen, brk, workVars, ep1Vars, msgVars, sig, clsVars,
                 portVars, countVars>>

FreeDone ==
  /\ pc = "free" /\ cls[num] = "none"
  /\ slot' = slot \ {num}
  /\ IF pass = "disable" THEN pc' = "freed" /\ UNCHANGED num ELSE NextPort
  /\ UNCHANGED <<pass, tries, seen, brk, workVars, ep1Vars, msgVars, sig, clsVars,
                 portVars, countVars>>

\* Deferred port work.
DisableSkip ==
  /\ pc = "disable" /\ num \notin disable
  /\ NextPort
  /\ UNCHANGED <<pass, tries, seen, brk, slot, workVars, ep1Vars, msgVars, sig, clsVars,
                 portVars, countVars>>

DisableTake ==
  /\ pc = "disable" /\ num \in disable
  /\ disable' = disable \ {num}
  /\ IF num \in slot THEN StartFree ELSE pc' = "cycle" /\ UNCHANGED told
  /\ UNCHANGED <<loopVars, brk, slot, cycle, scan, ep1Vars, msgVars, sig, cls, portVars,
                 countVars>>

\* CLEAR_PORT_ENABLE: a device that is there is left alone from now on.
PortOff == /\ plug' = [plug EXCEPT ![num] = IF plug[num] = "enabled" THEN "fresh"
                                                                     ELSE plug[num]]
           /\ off' = off \cup {p \in {num} : plug[p] # "empty"}

DisablePort ==
  /\ pc = "freed"
  /\ PortOff
  /\ Transfer
  /\ pc' = "cycle"
  /\ UNCHANGED <<loopVars, brk, slot, workVars, ep1Vars, msgVars, clsVars, change, hubGone,
                 missed, countVars>>

PowerCycle ==
  /\ pc = "cycle"
  /\ IF num \in cycle
       THEN cycle' = cycle \ {num} /\ pc' = "configure" /\ UNCHANGED num
       ELSE NextPort /\ UNCHANGED cycle
  /\ UNCHANGED <<pass, tries, seen, brk, slot, disable, scan, ep1Vars, msgVars, sig,
                 clsVars, portVars, countVars>>

-----------------------------------------------------------------------------
\* nConfigurePort.
NothingThere ==
  /\ pc = "configure"
  /\ plug[num] = "empty" \/ hubGone
  /\ Transfer
  /\ NextPort
  /\ UNCHANGED <<pass, tries, seen, brk, slot, workVars, ep1Vars, msgVars, clsVars,
                 portVars, countVars>>

\* The first GET_STATUS fails: the device is left, its connect has been cleared.
NoStatus ==
  /\ pc = "configure"
  /\ ~hubGone /\ Error
  /\ missed' = missed \cup ({num} \ change)
  /\ Transfer
  /\ NextPort
  /\ UNCHANGED <<pass, tries, seen, brk, slot, workVars, ep1Vars, msgVars, clsVars, plug,
                 change, hubGone, off, plugs, calls>>

SomethingThere ==
  /\ pc = "configure"
  /\ plug[num] # "empty" /\ ~hubGone
  /\ plug' = [plug EXCEPT ![num] = "fresh"]
  /\ Transfer
  /\ tries' = Tries
  /\ pc' = "reset"
  /\ UNCHANGED <<num, pass, seen, brk, slot, workVars, ep1Vars, msgVars, clsVars, change,
                 hubGone, off, missed, countVars>>

\* Another reset, or none left.
TryAgain == tries' = tries - 1 /\ pc' = IF tries > 1 THEN "reset" ELSE "giveup"

PortReset ==
  /\ pc = "reset"
  /\ Transfer
  /\ \/ /\ IF hubGone THEN UNCHANGED errors ELSE Error
        /\ pc' = "giveup" /\ UNCHANGED <<tries, plug>>
     \/ /\ ~hubGone /\ plug[num] = "empty"
        /\ TryAgain /\ UNCHANGED <<plug, errors>>
     \/ /\ ~hubGone /\ plug[num] # "empty"
        /\ plug' = [plug EXCEPT ![num] = "enabled"]
        /\ pc' = "clear" /\ UNCHANGED <<tries, errors>>
     \/ /\ ~hubGone /\ Error
        /\ TryAgain /\ UNCHANGED plug
  /\ UNCHANGED <<num, pass, seen, brk, slot, workVars, ep1Vars, msgVars, clsVars, change,
                 hubGone, off, missed, plugs, calls>>

ClearChanges ==
  /\ pc = "clear"
  /\ Acknowledge(num, {})
  /\ Transfer
  /\ pc' = "enumerate"
  /\ UNCHANGED <<loopVars, brk, slot, workVars, ep1Vars, msgVars, clsVars, plug, hubGone,
                 off, plugs, calls>>

\* In the first pass the classes are asked after the last port; later a scan of all
\* devices comes back to the hub task as a scan of its own.
Enumerated ==
  /\ pc = "enumerate" /\ plug[num] = "enabled" /\ ~hubGone
  /\ slot' = slot \cup {num}
  /\ \/ pass = "initial" /\ Transfer /\ UNCHANGED scan
     \/ pass # "initial" /\ scan' = TRUE /\ sig' = sig \cup {"task"}
  /\ off' = off \ {num} /\ missed' = missed \ {num}
  /\ NextPort
  /\ UNCHANGED <<pass, tries, seen, brk, disable, cycle, ep1Vars, msgVars, clsVars, plug,
                 change, hubGone, countVars>>

NotEnumerated ==
  /\ pc = "enumerate"
  /\ \/ (plug[num] # "enabled" \/ hubGone) /\ UNCHANGED errors
     \/ Error
  /\ Transfer
  /\ TryAgain
  /\ UNCHANGED <<num, pass, seen, brk, slot, workVars, ep1Vars, msgVars, clsVars, portVars,
                 plugs, calls>>

\* The port is disabled ...
GiveUp ==
  /\ pc = "giveup"
  /\ PortOff
  /\ Transfer
  /\ pc' = "given up"
  /\ UNCHANGED <<loopVars, brk, slot, workVars, ep1Vars, msgVars, clsVars, change, hubGone,
                 missed, countVars>>

\* ... and its changes are cleared, a connect that came since with them.
GivenUp ==
  /\ pc = "given up"
  /\ Acknowledge(num, {num})
  /\ Transfer
  /\ NextPort
  /\ UNCHANGED <<pass, tries, seen, brk, slot, workVars, ep1Vars, msgVars, clsVars, plug,
                 hubGone, off, plugs, calls>>

Configure == \/ NothingThere \/ NoStatus \/ SomethingThere \/ PortReset \/ ClearChanges
             \/ Enumerated \/ NotEnumerated \/ GiveUp \/ GivenUp

-----------------------------------------------------------------------------
\* The EP1 arm of the loop.
NoChanges ==
  /\ pc = "changes" /\ ep1 \in {"idle", "wire"}
  /\ pc' = "bottom"
  /\ UNCHANGED <<loopVars, brk, slot, workVars, ep1Vars, msgVars, sig, clsVars, portVars,
                 countVars>>

ChangesFailed ==
  /\ pc = "changes" /\ ep1 \in {"aborted", "failed"}
  /\ armed' = FALSE /\ ep1' = "idle"
  /\ pc' = "bottom"
  /\ UNCHANGED <<loopVars, brk, slot, workVars, running, bits, msgVars, sig, clsVars,
                 portVars, countVars>>

ChangesRead ==
  /\ pc = "changes" /\ ep1 = "done"
  /\ armed' = FALSE /\ ep1' = "idle"
  /\ StartPass("changes")
  /\ UNCHANGED <<tries, seen, brk, slot, workVars, running, bits, msgVars, sig, clsVars,
                 portVars, countVars>>

\* A hub that is gone: every port has changed, and the task ends after this.
HubLost ==
  /\ pc = "changes" /\ ep1 = "timeout"
  /\ armed' = FALSE /\ ep1' = "idle"
  /\ bits' = Port
  /\ brk' = TRUE
  /\ StartPass("changes")
  /\ UNCHANGED <<tries, seen, slot, workVars, running, msgVars, sig, clsVars, portVars,
                 countVars>>

NotChanged ==
  /\ pc = "status" /\ num \notin bits
  /\ NextPort
  /\ UNCHANGED <<pass, tries, seen, brk, slot, workVars, ep1Vars, msgVars, sig, clsVars,
                 portVars, countVars>>

\* GET_STATUS of the port, a disconnect made up when the hub does not answer: no
\* change may be left then to bring back a device that is there.  After another
\* error the port is acknowledged and left.
PortStatus ==
  /\ pc = "status" /\ num \in bits
  /\ \/ /\ hubGone
        /\ seen' = "gone" /\ pc' = "act" /\ UNCHANGED <<errors, missed>>
     \/ /\ ~hubGone /\ Error
        /\ \/ /\ seen' = "gone" /\ pc' = "act"
              /\ missed' = missed \cup {p \in {num} : plug[p] # "empty" /\ p \notin change}
           \/ seen' = "none" /\ pc' = "ack" /\ UNCHANGED missed
     \/ /\ ~hubGone
        /\ seen' = CASE num \notin change -> "none"
                     [] num \in change /\ plug[num] = "empty" -> "gone"
                     [] num \in change /\ plug[num] # "empty" -> "there"
        /\ pc' = "ack" /\ UNCHANGED <<errors, missed>>
  /\ Transfer
  /\ UNCHANGED <<num, pass, tries, brk, slot, workVars, ep1Vars, msgVars, clsVars,
                 plug, change, hubGone, off, plugs, calls>>

\* nClearPortStatus: a change since the status was read is cleared with it.
PortAck ==
  /\ pc = "ack"
  /\ Acknowledge(num, IF seen = IF plug[num] = "empty" THEN "gone" ELSE "there"
                         THEN {} ELSE {num})
  /\ Transfer
  /\ pc' = "act"
  /\ UNCHANGED <<loopVars, brk, slot, workVars, ep1Vars, msgVars, clsVars, plug, hubGone,
                 off, plugs, calls>>

\* Mutant: a disconnect is not acted on.
PortActConnectOnly ==
  /\ pc = "act"
  /\ CASE seen = "there" /\ num \notin slot -> pc' = "configure" /\ UNCHANGED num
       [] OTHER                             -> NextPort
  /\ UNCHANGED <<pass, tries, seen, brk, slot, workVars, ep1Vars, msgVars, sig, clsVars,
                 portVars, countVars>>

PortAct ==
  /\ pc = "act"
  /\ CASE seen = "gone" /\ num \in slot     -> StartFree /\ UNCHANGED num
       [] seen = "there" /\ num \notin slot -> pc' = "configure" /\ UNCHANGED <<num, told>>
       [] OTHER                             -> NextPort /\ UNCHANGED told
  /\ UNCHANGED <<pass, tries, seen, brk, slot, workVars, ep1Vars, msgVars, sig, cls,
                 portVars, countVars>>

Changes == \/ NoChanges \/ ChangesFailed \/ ChangesRead \/ HubLost \/ NotChanged
           \/ PortStatus \/ PortAck \/ PortAct

-----------------------------------------------------------------------------
\* The end of the loop, and nFreeHub.
Stop ==
  /\ pc = "stop"
  /\ armed' = FALSE /\ ep1' = "idle"
  /\ StartPass("teardown")
  /\ UNCHANGED <<tries, seen, brk, slot, workVars, running, bits, msgVars, sig, clsVars,
                 portVars, countVars>>

\* Mutant: only the children of a hub that is there are freed.
TeardownPortIfThere ==
  /\ pc = "teardown"
  /\ IF num \in slot /\ ~hubGone THEN StartFree /\ UNCHANGED num
                                 ELSE NextPort /\ UNCHANGED told
  /\ UNCHANGED <<pass, tries, seen, brk, slot, workVars, ep1Vars, msgVars, sig, cls,
                 portVars, countVars>>

TeardownPort ==
  /\ pc = "teardown"
  /\ IF num \in slot THEN StartFree /\ UNCHANGED num
                     ELSE NextPort /\ UNCHANGED told
  /\ UNCHANGED <<pass, tries, seen, brk, slot, workVars, ep1Vars, msgVars, sig, cls,
                 portVars, countVars>>

\* Under Forbid: who waits for an answer gets none, and the task is gone.
Exit ==
  /\ pc = "exit"
  /\ answered' = answered \cup {p \in Port : \E i \in 1..Len(queue) : queue[i] = <<"reset", p>>}
  /\ suspender' = "idle"
  /\ queue' = <<>>
  /\ pc' = "gone"
  /\ UNCHANGED <<loopVars, brk, slot, workVars, ep1Vars, serving, sig, clsVars, portVars,
                 countVars>>

Teardown == Stop \/ TeardownPort \/ Exit

-----------------------------------------------------------------------------
\* Other tasks.  They look at nch_Task under Forbid.
Call == pc # "gone" /\ calls < MaxCalls /\ Room /\ calls' = calls + 1

DisableRequest(p) ==
  /\ Call
  /\ disable' = disable \cup {p}
  /\ cycle' \in {cycle, cycle \cup {p}}
  /\ sig' = sig \cup {"task"}
  /\ UNCHANGED <<pc, loopVars, brk, slot, scan, ep1Vars, msgVars, clsVars, portVars, plugs,
                 errors>>

ScanRequest ==
  /\ Call
  /\ scan' = TRUE
  /\ sig' = sig \cup {"task"}
  /\ UNCHANGED <<pc, loopVars, brk, slot, disable, cycle, ep1Vars, msgVars, clsVars,
                 portVars, plugs, errors>>

Send(msg) == queue' = Append(queue, msg) /\ sig' = sig \cup {"ctrl"}

SuspendRequest ==
  /\ suspender = "idle"
  /\ Call
  /\ suspender' = "waits"
  /\ \E method \in {"suspend", "resume"} : Send(<<method, 0>>)
  /\ UNCHANGED <<pc, loopVars, brk, slot, workVars, ep1Vars, serving, answered, clsVars,
                 portVars, plugs, errors>>

ClassAsks(p) ==
  /\ cls[p] = "run"
  /\ Call
  /\ cls' = [cls EXCEPT ![p] = "waits"]
  /\ Send(<<"reset", p>>)
  /\ UNCHANGED <<pc, loopVars, brk, slot, workVars, ep1Vars, serving, answered, suspender,
                 told, portVars, plugs, errors>>

ClassAnswered(p) ==
  /\ cls[p] = "waits" /\ p \in answered
  /\ answered' = answered \ {p}
  /\ cls' = [cls EXCEPT ![p] = "run"]
  /\ UNCHANGED <<pc, loopVars, brk, slot, workVars, ep1Vars, queue, serving, suspender, sig,
                 told, portVars, countVars>>

Queued(p) == \E i \in 1..Len(queue) : queue[i] = <<"reset", p>>

\* Mutant: the wait for the answer cannot be ended.
TakeBackNever(p) == FALSE /\ UNCHANGED vars

\* Mutant: on CTRL-C the caller leaves, wherever its message is.
TakeBackBlind(p) ==
  /\ cls[p] = "waits" /\ p \in told
  /\ queue' = SelectSeq(queue, LAMBDA msg : msg # <<"reset", p>>)
  /\ cls' = [cls EXCEPT ![p] = "run"]
  /\ UNCHANGED <<pc, loopVars, brk, slot, workVars, ep1Vars, serving, answered, suspender,
                 sig, told, portVars, countVars>>

\* nHubMethodTakeBack, once CTRL-C ended the first wait of nHubMethodWait; a
\* message the hub task has taken is waited for.
TakeBack(p) ==
  /\ cls[p] = "waits" /\ p \in told
  /\ \E i \in DOMAIN queue : queue[i] = <<"reset", p>> /\ queue' = RemoveAt(queue, i)
  /\ cls' = [cls EXCEPT ![p] = "run"]
  /\ UNCHANGED <<pc, loopVars, brk, slot, workVars, ep1Vars, serving, answered, suspender,
                 sig, told, portVars, countVars>>

ClassEnds(p) ==
  /\ cls[p] = "run" /\ p \in told
  /\ cls' = [cls EXCEPT ![p] = "none"]
  /\ told' = told \ {p}
  /\ UNCHANGED <<pc, loopVars, brk, slot, workVars, ep1Vars, msgVars, sig, portVars,
                 countVars>>

\* usbReleaseDeviceBinding of the hub itself.
ReleaseHub ==
  /\ Call
  /\ sig' = sig \cup {"break"}
  /\ UNCHANGED <<pc, loopVars, brk, slot, workVars, ep1Vars, msgVars, clsVars, portVars,
                 plugs, errors>>

-----------------------------------------------------------------------------
\* The wire.
Plug(p) ==
  /\ ~hubGone /\ plug[p] = "empty"
  /\ plugs < MaxPlugs /\ Room /\ plugs' = plugs + 1
  /\ plug' = [plug EXCEPT ![p] = "fresh"]
  /\ change' = change \cup {p}
  /\ off' = off \ {p}
  /\ missed' = missed \cup (slot \cap change \cap {p})
  /\ UNCHANGED <<pc, loopVars, brk, slot, workVars, ep1Vars, msgVars, sig, clsVars, hubGone,
                 calls, errors>>

Unplug(p) ==
  /\ ~hubGone /\ plug[p] # "empty"
  /\ plugs < MaxPlugs /\ Room /\ plugs' = plugs + 1
  /\ plug' = [plug EXCEPT ![p] = "empty"]
  /\ change' = change \cup {p}
  /\ off' = off \ {p}
  /\ UNCHANGED <<pc, loopVars, brk, slot, workVars, ep1Vars, msgVars, sig, clsVars, hubGone,
                 missed, calls, errors>>

UnplugHub ==
  /\ ~hubGone
  /\ plugs < MaxPlugs /\ Room /\ plugs' = plugs + 1
  /\ hubGone' = TRUE
  /\ UNCHANGED <<pc, loopVars, brk, slot, workVars, ep1Vars, msgVars, sig, clsVars, plug,
                 change, off, missed, calls, errors>>

Ep1Completes ==
  /\ ep1 = "wire"
  /\ \/ ~hubGone /\ change # {} /\ ep1' = "done" /\ bits' = change /\ UNCHANGED errors
     \/ ~hubGone /\ Error /\ ep1' = "failed" /\ UNCHANGED bits
     \/ hubGone /\ ep1' = "timeout" /\ UNCHANGED <<bits, errors>>
  /\ sig' = sig \cup {"task"}
  /\ UNCHANGED <<pc, loopVars, brk, slot, workVars, running, armed, msgVars, clsVars,
                 portVars, plugs, calls>>

-----------------------------------------------------------------------------
HubStep == \/ InitialBind \/ LoopTop \/ Wait \/ MethodsDone \/ ClassScan \/ LoopBottom
           \/ Methods \/ FreeDone \/ DisableSkip \/ DisableTake \/ DisablePort \/ PowerCycle
           \/ Configure \/ Changes \/ Teardown

ClassReturns(p) == ClassAnswered(p) \/ TakeBack(p)
Others == \/ \E p \in Port : DisableRequest(p) \/ ClassAsks(p)
          \/ ScanRequest \/ SuspendRequest \/ ReleaseHub
Wire == UnplugHub \/ \E p \in Port : Plug(p) \/ Unplug(p)

Next == \/ HubStep \/ Others \/ Wire \/ Ep1Completes
        \/ \E p \in Port : ClassReturns(p) \/ ClassEnds(p)

\* The hub task and the class tasks run, and a class that was told to quit does.
Fairness == /\ WF_vars(HubStep) /\ WF_vars(Ep1Completes)
            /\ \A p \in Port : WF_vars(ClassReturns(p)) /\ WF_vars(ClassEnds(p))

Spec == Init /\ [][Next]_vars /\ Fairness
-----------------------------------------------------------------------------
\* The shape of the state: class tasks exist with their device only, answers for
\* those that wait, and a message in work while a method is served.
TypeOK ==
  /\ num \in Port /\ tries \in 0..Tries /\ seen \in {"none", "gone", "there"}
  /\ pass \in DOMAIN PassBody
  /\ slot \subseteq Port /\ disable \subseteq Port /\ cycle \subseteq Port
  /\ bits \subseteq Port /\ change \subseteq Port
  /\ plug \in [Port -> {"empty", "fresh", "enabled"}]
  /\ cls \in [Port -> {"none", "run", "waits"}]
  /\ \A p \in Port : cls[p] # "none" => p \in slot
  /\ told \subseteq {p \in Port : cls[p] # "none"}
  /\ serving # <<>> <=> pc \in {"serve", "acknowledge"}
  /\ armed <=> ep1 # "idle"

\* EP1 is not sent again before its last completion was collected.
OneSubmitter == [][ep1' = "wire" => ep1 \in {"idle", "wire"}]_vars

\* The hub task never sleeps with work at hand and no signal to wake it.
NoSleepOverWork ==
  pc = "wait" => /\ queue # <<>> => "ctrl" \in sig
                 /\ ep1 \notin {"idle", "wire"} => "task" \in sig
                 /\ disable # {} \/ scan => "task" \in sig

\* A message is in the hub task's hands only while its sender, on whose stack it
\* lies, waits for it.
AnswerReachesCaller ==
  \A p \in Port : Queued(p) \/ serving = <<"reset", p>> \/ p \in answered => cls[p] = "waits"

\* Idle and with no change to be reported, the table of devices says what is on
\* the ports.  Excepted are ports that were disabled, and those whose change the
\* code clears without having acted on it.
Idle == pc = "wait" /\ sig = {} /\ running /\ ~hubGone /\ change = {}
SlotsFollowPorts ==
  Idle => \A p \in Port \ missed :
            IF p \in slot THEN plug[p] = "enabled"
                          ELSE plug[p] = "empty" \/ p \in off

\* The end of the task leaves no device, class task or caller behind.
NothingLeft ==
  pc = "gone" => /\ slot = {} /\ queue = <<>>
                 /\ \A p \in Port : cls[p] = "none"

\* Nobody waits for ever: neither for a method, nor for the hub task to end, nor
\* the hub task for a class task to end.
EveryoneGoesOn ==
  /\ \A p \in Port : cls[p] = "waits" ~> cls[p] # "waits"
  /\ suspender = "waits" ~> suspender = "idle"
  /\ "break" \in sig ~> pc = "gone"
=============================================================================
