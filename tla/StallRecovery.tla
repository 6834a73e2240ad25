---------------------------- MODULE StallRecovery ----------------------------
(***************************************************************************)
(* Clearing the halts nobody else clears.  The delivery of a transfer that *)
(* ended with a halt marks its endpoint (pMarkStalledPipe, on whatever     *)
(* task delivers it) and raises a request; the event task sends one        *)
(* CLEAR_FEATURE(ENDPOINT_HALT) per mark (pStallRecoverySweep), unless a   *)
(* class has cleared the halt itself, which takes the mark away on its way *)
(* to the wire (pSubmitPipe).                                              *)
(*                                                                         *)
(* A class has one transfer at a time on an endpoint.  The timer of the    *)
(* event task makes it look at the request flag whether its signal came or *)
(* not, so the signal is left out.                                         *)
(***************************************************************************)
EXTENDS Naturals

CONSTANTS Device,        \* the devices, numbered as psdGetNextDevice lists them
          Ep,
          DevOf,         \* the device of each bulk or interrupt endpoint
          NoDevice, NoEp,
          MaxUpsets      \* bound: suspends, resets, failed clears and
                         \* allocations in a run

ASSUME DeviceAssumption == Device \subseteq Nat
ASSUME DevOfAssumption  == DevOf \in [Ep -> Device]
ASSUME NoneAssumption   == NoDevice \notin Device /\ NoEp \notin Ep
ASSUME UpsetsAssumption == MaxUpsets \in Nat

VARIABLES
  context,      \* the backend holds a halted endpoint until its clear is done
  state,        \* PDFF_CONNECTED and PDFF_SUSPENDED of each device
  halted,       \* endpoints that owe a clear, on the wire
  xfer,         \* where the transfer of each endpoint's class is
  mask,         \* pd_EpHaltMask of every device
  req,          \* ps_StallRecoveryReq
  pc,           \* where the event task is
  todo,         \* devices this pass has not looked at
  dev,          \* the device it picked
  bits,         \* bits it has not looked at
  hand,         \* the endpoint it took out of the mask
  late,         \* pending recoveries the code is known to be late for
  upsets

classVars == <<state, halted, xfer>>
sweepVars == <<pc, todo, dev, bits, hand>>
vars      == <<context, classVars, mask, req, sweepVars, late, upsets>>

EpsOf(d) == {e \in Ep : DevOf[e] = d}

\* Dropping the marks of d settles what was late, but for a stall the delivery
\* has yet to mark.
Settled(d) == {e \in EpsOf(d) : xfer[e] # "stalled"}

Init == /\ context \in BOOLEAN
        /\ state = [d \in Device |-> "running"]
        /\ halted = {}
        /\ xfer = [e \in Ep |-> "idle"]
        /\ mask = {}
        /\ req = FALSE
        /\ pc = "idle"
        /\ todo = {}
        /\ dev = NoDevice
        /\ bits = {}
        /\ hand = NoEp
        /\ late = {}
        /\ upsets = 0

Upset == upsets < MaxUpsets /\ upsets' = upsets + 1
Connected(e) == state[DevOf[e]] # "gone"

\* psdDoPipe and psdSendPipe resume a suspended device first.
Resumed(e) == state' = [state EXCEPT ![DevOf[e]] = "running"]

-----------------------------------------------------------------------------
\* The class, its transfer and its device.
Submit(e) ==
  /\ xfer[e] = "idle" /\ Connected(e)
  /\ Resumed(e)
  /\ xfer' = [xfer EXCEPT ![e] = "wire"]
  /\ UNCHANGED <<context, halted, mask, req, sweepVars, late, upsets>>

Complete(e) ==
  /\ xfer[e] = "wire"
  /\ e \notin halted \/ ~Connected(e)
  /\ xfer' = [xfer EXCEPT ![e] = "idle"]
  /\ UNCHANGED <<context, state, halted, mask, req, sweepVars, late, upsets>>

\* The hold of a context backend outlasts a clear that is on the wire.
Clearing(e) == pc = "wire" /\ hand = e
Stall(e) ==
  /\ xfer[e] = "wire" /\ Connected(e)
  /\ ~(context /\ e \in halted /\ Clearing(e))
  /\ halted' = halted \cup {e}
  /\ xfer' = [xfer EXCEPT ![e] = "stalled"]
  /\ UNCHANGED <<context, state, mask, req, sweepVars, late, upsets>>

\* pMarkStalledPipe: first the mask ...
MarkMask(e) ==
  /\ xfer[e] = "stalled"
  /\ IF Connected(e)
       THEN /\ mask' = mask \cup {e}
            /\ xfer' = [xfer EXCEPT ![e] = "marked"]
            /\ late' = IF Clearing(e) THEN late \cup {e} ELSE late
       ELSE /\ xfer' = [xfer EXCEPT ![e] = "idle"]
            /\ UNCHANGED <<mask, late>>
  /\ UNCHANGED <<context, state, halted, req, sweepVars, upsets>>

\* Mutant: the delivery marks and raises no request.
RaiseReqNever(e) ==
  /\ xfer[e] = "marked"
  /\ xfer' = [xfer EXCEPT ![e] = "idle"]
  /\ UNCHANGED <<context, state, halted, mask, req, sweepVars, late, upsets>>

\* ... then the request, then the class gets its answer.
RaiseReq(e) ==
  /\ xfer[e] = "marked"
  /\ req' = TRUE
  /\ xfer' = [xfer EXCEPT ![e] = "idle"]
  /\ UNCHANGED <<context, state, halted, mask, sweepVars, late, upsets>>

\* Mutant: a class's own clear does not cancel the library's.
UnmarkNever(e) == mask' = mask

\* pSubmitPipe: a clear on its way to the wire drops the mark.
Unmark(e) == mask' = mask \ {e}

\* psdClearEndpointHalt: the class clears the endpoint itself.  A mark the event
\* task has in hand already is not in the mask any more.
OwnClear(e) ==
  /\ xfer[e] = "idle" /\ Connected(e)
  /\ Resumed(e)
  /\ Unmark(e)
  /\ late' = IF hand = e THEN late \cup {e} ELSE late \ {e}
  /\ xfer' = [xfer EXCEPT ![e] = "own"]
  /\ UNCHANGED <<context, halted, req, sweepVars, upsets>>

OwnCleared(e) ==
  /\ xfer[e] = "own"
  /\ \/ halted' = halted \ {e} /\ UNCHANGED upsets
     \/ Upset /\ UNCHANGED halted
  /\ xfer' = [xfer EXCEPT ![e] = "idle"]
  /\ UNCHANGED <<context, state, mask, req, sweepVars, late>>

Quiet(d) == \A e \in EpsOf(d) : xfer[e] = "idle"

Suspend(d) ==
  /\ state[d] = "running" /\ Quiet(d)
  /\ Upset
  /\ state' = [state EXCEPT ![d] = "suspended"]
  /\ UNCHANGED <<context, halted, xfer, mask, req, sweepVars, late>>

\* psdResetDevice, of context backends only: the endpoints are set up anew, the
\* marks stay.
ResetDevice(d) ==
  /\ context
  /\ state[d] = "running" /\ Quiet(d)
  /\ Upset
  /\ halted' = halted \ EpsOf(d)
  /\ late' = late \cup {e \in EpsOf(d) : e \in mask \/ hand = e}
  /\ UNCHANGED <<context, state, xfer, mask, req, sweepVars>>

Unplug(d) ==
  /\ state[d] # "gone"
  /\ state' = [state EXCEPT ![d] = "gone"]
  /\ UNCHANGED <<context, halted, xfer, mask, req, sweepVars, late, upsets>>

-----------------------------------------------------------------------------
\* The event task.  The request is taken back before any mask is read.
SweepStart ==
  /\ pc = "idle" /\ req
  /\ req' = FALSE
  /\ pc' = "scan" /\ todo' = Device
  /\ UNCHANGED <<context, classVars, mask, dev, bits, hand, late, upsets>>

First(d) == d \in todo /\ \A c \in todo : d <= c

\* Devices that are suspended or gone lose their marks.
SweepSkip(d) ==
  /\ pc = "scan" /\ First(d)
  /\ mask \cap EpsOf(d) = {} \/ state[d] # "running"
  /\ mask' = mask \ EpsOf(d)
  /\ todo' = todo \ {d}
  /\ late' = late \ Settled(d)
  /\ UNCHANGED <<context, classVars, req, pc, dev, bits, hand, upsets>>

SweepPick(d) ==
  /\ pc = "scan" /\ First(d)
  /\ mask \cap EpsOf(d) # {} /\ state[d] = "running"
  /\ pc' = "picked" /\ dev' = d /\ todo' = {}
  /\ UNCHANGED <<context, classVars, mask, req, bits, hand, late, upsets>>

\* Mutant: the request is taken back after the masks were read.
SweepEmptyTakesBack ==
  /\ pc = "scan" /\ todo = {}
  /\ req' = FALSE
  /\ pc' = "idle"
  /\ UNCHANGED <<context, classVars, mask, todo, dev, bits, hand, late, upsets>>

SweepEmpty ==
  /\ pc = "scan" /\ todo = {}
  /\ pc' = "idle"
  /\ UNCHANGED <<context, classVars, mask, req, todo, dev, bits, hand, late, upsets>>

\* Mutant: the pass looks at endpoints of other devices.
OpenPipeAnyEndpoint ==
  /\ pc = "picked"
  /\ pc' = "bits" /\ bits' = Ep
  /\ UNCHANGED <<context, classVars, mask, req, todo, dev, hand, late, upsets>>

OpenPipe ==
  /\ pc = "picked"
  /\ pc' = "bits" /\ bits' = EpsOf(dev)
  /\ UNCHANGED <<context, classVars, mask, req, todo, dev, hand, late, upsets>>

\* Without a pipe the marks are dropped.
NoPipe ==
  /\ pc = "picked"
  /\ Upset
  /\ mask' = mask \ EpsOf(dev)
  /\ late' = late \ Settled(dev)
  /\ pc' = "bits" /\ bits' = {}
  /\ UNCHANGED <<context, classVars, req, todo, dev, hand>>

\* pTakeEpHalt, one bit at a time.
TakeEpHalt(e) ==
  /\ pc = "bits" /\ e \in bits
  /\ bits' = bits \ {e}
  /\ mask' = mask \ {e}
  /\ IF e \in mask THEN pc' = "taken" /\ hand' = e
                   ELSE UNCHANGED <<pc, hand>>
  /\ UNCHANGED <<context, classVars, req, todo, dev, late, upsets>>

\* pClearEpHalt: the library's own clear passes pSubmitPipe like any other.
ClearSubmit(e) ==
  /\ pc = "taken" /\ hand = e
  /\ IF Connected(e)
       THEN pc' = "wire" /\ Resumed(e) /\ Unmark(e) /\ UNCHANGED hand
       ELSE pc' = "bits" /\ hand' = NoEp /\ UNCHANGED <<state, mask>>
  /\ UNCHANGED <<context, halted, xfer, req, todo, dev, bits, late, upsets>>

ClearDone(e) ==
  /\ Clearing(e) /\ Connected(e)
  /\ halted' = halted \ {e}
  /\ late' = IF e \in mask \/ xfer[e] = "stalled" THEN late \cup {e} ELSE late \ {e}
  /\ pc' = "bits" /\ hand' = NoEp
  /\ UNCHANGED <<context, state, xfer, mask, req, todo, dev, bits, upsets>>

\* A failed clear is not tried again.
ClearFailed(e) ==
  /\ Clearing(e)
  /\ \/ Connected(e) /\ Upset
     \/ ~Connected(e) /\ UNCHANGED upsets
  /\ pc' = "bits" /\ hand' = NoEp
  /\ UNCHANGED <<context, classVars, mask, req, todo, dev, bits, late>>

\* One device a pass; the others are for the next.
SweepReturn ==
  /\ pc = "bits" /\ bits = {}
  /\ req' = TRUE
  /\ pc' = "idle" /\ dev' = NoDevice
  /\ UNCHANGED <<context, classVars, mask, todo, bits, hand, late, upsets>>

Class(e) == Submit(e) \/ OwnClear(e)
Wire(e)  == Complete(e) \/ Stall(e) \/ OwnCleared(e)
Mark(e)  == MarkMask(e) \/ RaiseReq(e)
Sweep    == \/ SweepStart \/ SweepEmpty \/ OpenPipe \/ NoPipe \/ SweepReturn
            \/ \E d \in Device : SweepSkip(d) \/ SweepPick(d)
            \/ \E e \in Ep : \/ TakeEpHalt(e) \/ ClearSubmit(e)
                             \/ ClearDone(e) \/ ClearFailed(e)

Next == \/ \E e \in Ep : Class(e) \/ Wire(e) \/ Mark(e)
        \/ \E d \in Device : Suspend(d) \/ ResetDevice(d) \/ Unplug(d)
        \/ Sweep

\* The timer ticks, tasks that are delivering go on, a transfer on the wire
\* ends, and a class with a halted endpoint tries again.
Fairness == /\ WF_vars(Sweep)
            /\ \A e \in Ep : /\ WF_vars(Mark(e))
                             /\ WF_vars(Wire(e))
                             /\ WF_vars(e \in halted /\ Submit(e))

Spec == Init /\ [][Next]_vars /\ Fairness
-----------------------------------------------------------------------------
\* The shape of the state: the event task has a mark in hand only while it
\* sends its clear, and works on endpoints of the device it picked.
TypeOK == /\ context \in BOOLEAN /\ req \in BOOLEAN
          /\ state \in [Device -> {"running", "suspended", "gone"}]
          /\ halted \subseteq Ep /\ mask \subseteq Ep /\ late \subseteq Ep
          /\ xfer \in [Ep -> {"idle", "wire", "stalled", "marked", "own"}]
          /\ pc \in {"idle", "scan", "picked", "bits", "taken", "wire"}
          /\ todo \subseteq Device
          /\ dev \in Device \cup {NoDevice}
          /\ pc \in {"idle", "scan"} <=> dev = NoDevice
          /\ bits \subseteq EpsOf(dev)
          /\ IF pc \in {"taken", "wire"} THEN hand \in EpsOf(dev) ELSE hand = NoEp
          /\ upsets \in 0..MaxUpsets

\* No mark is forgotten: while there is one, the request is up, or is about to
\* be raised by the task that marked, or the event task is in a pass that will
\* still look at the device or raise the request again itself.
MarkAnnounced ==
  \A e \in mask : \/ req
                  \/ \E f \in Ep : DevOf[f] = DevOf[e] /\ xfer[f] = "marked"
                  \/ pc = "scan" /\ DevOf[e] \in todo
                  \/ pc \notin {"idle", "scan"}

\* The sweep takes the first marked device of the list each time, so a class
\* that never stops submitting to a halted endpoint keeps it from later ones.
Starved(e) == \E f \in Ep : DevOf[f] < DevOf[e] /\ f \in mask

\* A mark goes, whatever fails: the event task serves the next device after one
\* it could not clear, and comes back for marks it passed.  And a halted endpoint
\* its class goes on using comes back to life, unless the device goes: marks that
\* were dropped are made again by the next transfer.  Both unless a device earlier
\* in the list goes on being marked.
MarksAndHaltsEnd ==
  \A e \in Ep : \/ []<>Starved(e)
                \/ /\ e \in mask ~> e \notin mask
                   /\ e \in halted ~> (e \notin halted \/ ~Connected(e))

ClearArrives(e) == Clearing(e) /\ pc' = "bits" /\ Connected(e) /\ upsets' = upsets

\* The library clears an endpoint that is halted; other clears come
\* from three cases only: the class cleared the endpoint
\* while the event task had its mark in hand, the device was reset under a
\* mark, or the transfer stalled again under the clear, or its stall was not
\* marked yet when the clear was done.
OneClearUnlessLate ==
  [][\A e \in Ep : ClearArrives(e) => e \in halted \cup late]_vars
=============================================================================
