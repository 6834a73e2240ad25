------------------------- MODULE StallRecoveryProof -------------------------
(***************************************************************************)
(* Theorems about StallRecovery for any devices, endpoints and number of   *)
(* upsets: type correctness, that no mark is forgotten, and that the       *)
(* library clears an endpoint that is not halted in known cases only.      *)
(***************************************************************************)
EXTENDS StallRecovery, TLAPS

LEMMA TypeInit == Init => TypeOK
<1> SUFFICES ASSUME Init PROVE TypeOK
  OBVIOUS
<1> USE DEF Init
<1>1. context \in BOOLEAN /\ req \in BOOLEAN
  BY Zenon
<1>2. pc \in {"idle", "scan"} <=> dev = NoDevice
  OBVIOUS
<1>3. upsets \in 0..MaxUpsets
  BY UpsetsAssumption
<1> QED
  BY <1>1, <1>2, <1>3 DEF TypeOK, EpsOf

\* A step of a class, of its transfer or of the task that delivers it leaves the
\* sweep alone.
LEMMA TypeTransfer ==
  ASSUME TypeOK, NEW e \in Ep, Class(e) \/ Wire(e) \/ Mark(e)
  PROVE  TypeOK'
<1> USE DevOfAssumption, UpsetsAssumption
    DEF TypeOK, EpsOf, sweepVars, classVars, Upset, Resumed, Unmark
<1>1. CASE Submit(e)
  BY <1>1 DEF Submit
<1>2. CASE OwnClear(e)
  BY <1>2 DEF OwnClear
<1>3. CASE Complete(e)
  BY <1>3 DEF Complete
<1>4. CASE Stall(e)
  BY <1>4 DEF Stall
<1>5. CASE OwnCleared(e)
  BY <1>5 DEF OwnCleared
<1>6. CASE MarkMask(e)
  BY <1>6 DEF MarkMask
<1>7. CASE RaiseReq(e)
  BY <1>7 DEF RaiseReq
<1> QED
  BY <1>1, <1>2, <1>3, <1>4, <1>5, <1>6, <1>7 DEF Class, Wire, Mark

LEMMA TypeDevice ==
  ASSUME TypeOK, NEW d \in Device, Suspend(d) \/ ResetDevice(d) \/ Unplug(d)
  PROVE  TypeOK'
<1> USE UpsetsAssumption DEF TypeOK, EpsOf, sweepVars, Upset
<1>1. CASE Suspend(d)
  BY <1>1 DEF Suspend
<1>2. CASE ResetDevice(d)
  BY <1>2 DEF ResetDevice
<1>3. CASE Unplug(d)
  BY <1>3 DEF Unplug
<1> QED
  BY <1>1, <1>2, <1>3

\* The event task works on endpoints of the device it picked.
LEMMA TypeSweep ==
  ASSUME TypeOK, Sweep
  PROVE  TypeOK'
<1> USE DevOfAssumption, NoneAssumption, UpsetsAssumption
    DEF TypeOK, EpsOf, classVars, Upset
<1>1. CASE SweepStart
  BY <1>1 DEF SweepStart
<1>2. CASE SweepEmpty
  BY <1>2 DEF SweepEmpty
<1>3. CASE OpenPipe
  BY <1>3 DEF OpenPipe
<1>4. CASE NoPipe
  BY <1>4 DEF NoPipe
<1>5. CASE SweepReturn
  BY <1>5 DEF SweepReturn
<1>6. ASSUME NEW d \in Device, SweepSkip(d) PROVE TypeOK'
  BY <1>6 DEF SweepSkip, Settled
<1>7. ASSUME NEW d \in Device, SweepPick(d) PROVE TypeOK'
  BY <1>7 DEF SweepPick
<1>8. ASSUME NEW e \in Ep, TakeEpHalt(e) PROVE TypeOK'
  BY <1>8 DEF TakeEpHalt
<1>9. ASSUME NEW e \in Ep, ClearSubmit(e) PROVE TypeOK'
  BY <1>9 DEF ClearSubmit, Resumed, Unmark
<1>10. ASSUME NEW e \in Ep, ClearDone(e) PROVE TypeOK'
  BY <1>10 DEF ClearDone, Clearing
<1>11. ASSUME NEW e \in Ep, ClearFailed(e) PROVE TypeOK'
  BY <1>11 DEF ClearFailed, Clearing
<1> QED
  BY <1>1, <1>2, <1>3, <1>4, <1>5, <1>6, <1>7, <1>8, <1>9, <1>10, <1>11 DEF Sweep

LEMMA TypeStep ==
  ASSUME TypeOK, [Next]_vars
  PROVE  TypeOK'
<1>1. CASE UNCHANGED vars
  BY <1>1 DEF vars, classVars, sweepVars, TypeOK, EpsOf
<1> QED
  BY <1>1, TypeTransfer, TypeDevice, TypeSweep DEF Next

\* The masks, the request and the event task's place keep their shape.
THEOREM StallTypeCorrect == Spec => []TypeOK
  BY TypeInit, TypeStep, PTL DEF Spec

-----------------------------------------------------------------------------
\* What an endpoint's mark rests on.
Announced(e) == \/ req
                \/ \E f \in Ep : DevOf[f] = DevOf[e] /\ xfer[f] = "marked"
                \/ pc = "scan" /\ DevOf[e] \in todo
                \/ pc \notin {"idle", "scan"}

LEMMA AnnouncedTransfer ==
  ASSUME TypeOK, MarkAnnounced, NEW e \in Ep, Class(e) \/ Wire(e) \/ Mark(e)
  PROVE  MarkAnnounced'
<1> SUFFICES ASSUME NEW m \in mask' PROVE Announced(m)'
  BY DEF MarkAnnounced, Announced
<1> USE DEF TypeOK, sweepVars, Announced
\* Only a delivery that raises the request leaves "marked".
<1>1. CASE MarkMask(e) /\ m = e
  BY <1>1 DEF MarkMask, MarkAnnounced
<1>2. CASE RaiseReq(e)
  BY <1>2 DEF RaiseReq
<1>3. ASSUME ~RaiseReq(e), ~(MarkMask(e) /\ m = e)
      PROVE  /\ m \in mask
             /\ UNCHANGED <<req, pc, todo>>
             /\ \A f \in Ep : xfer[f] = "marked" => xfer'[f] = "marked"
  BY <1>3 DEF Class, Wire, Mark, Submit, OwnClear, Unmark, Complete, Stall,
              OwnCleared, MarkMask
<1>4. CASE ~RaiseReq(e) /\ ~(MarkMask(e) /\ m = e)
  <2>1. Announced(m)
    BY <1>3, <1>4 DEF MarkAnnounced
  <2> QED
    BY <1>3, <1>4, <2>1
<1> QED
  BY <1>1, <1>2, <1>4

LEMMA AnnouncedSweep ==
  ASSUME TypeOK, MarkAnnounced, Sweep
  PROVE  MarkAnnounced'
<1> SUFFICES ASSUME NEW m \in mask' PROVE Announced(m)'
  BY DEF MarkAnnounced, Announced
<1> USE DevOfAssumption DEF TypeOK, classVars, Announced
<1>1. CASE SweepStart
  BY <1>1 DEF SweepStart
\* The pass ends without a device left: what still has a mark was marked in it.
<1>2. CASE SweepEmpty
  BY <1>2 DEF SweepEmpty, MarkAnnounced
<1>3. CASE OpenPipe \/ NoPipe \/ \E d \in Device : SweepPick(d)
  BY <1>3 DEF OpenPipe, NoPipe, SweepPick
<1>4. CASE SweepReturn
  BY <1>4 DEF SweepReturn
<1>5. ASSUME NEW d \in Device, SweepSkip(d) PROVE Announced(m)'
  <2>1. m \in mask /\ DevOf[m] # d
    BY <1>5 DEF SweepSkip, EpsOf
  <2>2. Announced(m)
    BY <2>1 DEF MarkAnnounced
  <2> QED
    BY <1>5, <2>1, <2>2 DEF SweepSkip
<1>6. CASE \E e \in Ep : \/ TakeEpHalt(e) \/ ClearSubmit(e)
                         \/ ClearDone(e) \/ ClearFailed(e)
  BY <1>6 DEF TakeEpHalt, ClearSubmit, ClearDone, ClearFailed, Clearing
<1> QED
  BY <1>1, <1>2, <1>3, <1>4, <1>5, <1>6 DEF Sweep

LEMMA AnnouncedStep ==
  ASSUME TypeOK, MarkAnnounced, [Next]_vars
  PROVE  MarkAnnounced'
<1>1. ASSUME NEW d \in Device, Suspend(d) \/ ResetDevice(d) \/ Unplug(d)
      PROVE  MarkAnnounced'
  BY <1>1 DEF Suspend, ResetDevice, Unplug, sweepVars, MarkAnnounced
<1>2. CASE UNCHANGED vars
  BY <1>2 DEF vars, classVars, sweepVars, MarkAnnounced
<1> QED
  BY <1>1, <1>2, AnnouncedTransfer, AnnouncedSweep DEF Next

\* pStallRecoverySweep takes the request back before it reads the masks, and
\* raises it again after every device: no mark of pMarkStalledPipe is forgotten.
THEOREM NoMarkForgotten == Spec => []MarkAnnounced
<1>1. Init => MarkAnnounced
  BY DEF Init, MarkAnnounced
<1>2. TypeOK /\ MarkAnnounced /\ [Next]_vars => MarkAnnounced'
  BY AnnouncedStep
<1> QED
  BY <1>1, <1>2, StallTypeCorrect, PTL DEF Spec

-----------------------------------------------------------------------------
\* Whoever is still going to be cleared by the event task is halted or known to be
\* late; and a class's own clear, while it is out, has left no mark behind it but
\* one the event task had in hand already.
HaltOwed(e) == /\ e \in mask \/ hand = e \/ xfer[e] = "stalled" => e \in halted \cup late
               /\ xfer[e] = "own" => e \notin mask /\ (hand = e => e \in late)

AllOwed == \A e \in Ep : HaltOwed(e)

LEMMA OwedTransfer ==
  ASSUME TypeOK, AllOwed, NEW f \in Ep, Class(f) \/ Wire(f) \/ Mark(f)
  PROVE  AllOwed'
<1> SUFFICES ASSUME NEW e \in Ep PROVE HaltOwed(e)'
  BY DEF AllOwed
<1>1. HaltOwed(e) /\ HaltOwed(f)
  BY DEF AllOwed
<1> USE <1>1 DEF TypeOK, HaltOwed, sweepVars
<1>2. CASE Submit(f)
  BY <1>2 DEF Submit
\* pSubmitPipe drops the mark of a class's clear; one in hand is late.
<1>3. CASE OwnClear(f)
  BY <1>3 DEF OwnClear, Unmark
<1>4. CASE Complete(f)
  BY <1>4 DEF Complete
<1>5. CASE Stall(f)
  BY <1>5 DEF Stall
<1>6. CASE OwnCleared(f)
  BY <1>6 DEF OwnCleared
<1>7. CASE MarkMask(f)
  BY <1>7 DEF MarkMask
<1>8. CASE RaiseReq(f)
  BY <1>8 DEF RaiseReq
<1> QED
  BY <1>2, <1>3, <1>4, <1>5, <1>6, <1>7, <1>8 DEF Class, Wire, Mark

LEMMA OwedDevice ==
  ASSUME TypeOK, AllOwed, NEW d \in Device, Suspend(d) \/ ResetDevice(d) \/ Unplug(d)
  PROVE  AllOwed'
<1> SUFFICES ASSUME NEW e \in Ep PROVE HaltOwed(e)'
  BY DEF AllOwed
<1>1. HaltOwed(e)
  BY DEF AllOwed
<1> USE <1>1 DEF HaltOwed, sweepVars
<1>2. CASE Suspend(d)
  BY <1>2 DEF Suspend
\* The reset sets up endpoints without a transfer, and the marks left are late.
<1>3. CASE ResetDevice(d)
  BY <1>3 DEF ResetDevice, Quiet, EpsOf
<1>4. CASE Unplug(d)
  BY <1>4 DEF Unplug
<1> QED
  BY <1>2, <1>3, <1>4

LEMMA OwedSweep ==
  ASSUME TypeOK, AllOwed, Sweep
  PROVE  AllOwed'
<1> SUFFICES ASSUME NEW e \in Ep PROVE HaltOwed(e)'
  BY DEF AllOwed
<1>1. HaltOwed(e)
  BY DEF AllOwed
<1> USE <1>1, NoneAssumption DEF TypeOK, HaltOwed, classVars
<1>2. CASE SweepStart \/ SweepEmpty \/ OpenPipe \/ SweepReturn
  BY <1>2 DEF SweepStart, SweepEmpty, OpenPipe, SweepReturn
<1>3. CASE NoPipe
  BY <1>3 DEF NoPipe, Settled, EpsOf
<1>4. ASSUME NEW d \in Device, SweepSkip(d) PROVE HaltOwed(e)'
  BY <1>4 DEF SweepSkip, Settled, EpsOf
<1>5. ASSUME NEW d \in Device, SweepPick(d) PROVE HaltOwed(e)'
  BY <1>5 DEF SweepPick
<1>6. ASSUME NEW f \in Ep, TakeEpHalt(f) PROVE HaltOwed(e)'
  BY <1>6 DEF TakeEpHalt
<1>7. ASSUME NEW f \in Ep, ClearSubmit(f) PROVE HaltOwed(e)'
  BY <1>7 DEF ClearSubmit, Unmark
\* A stall the delivery has yet to mark is late as soon as the clear is done.
<1>8. ASSUME NEW f \in Ep, ClearDone(f) PROVE HaltOwed(e)'
  BY <1>8 DEF ClearDone
<1>9. ASSUME NEW f \in Ep, ClearFailed(f) PROVE HaltOwed(e)'
  BY <1>9 DEF ClearFailed
<1> QED
  BY <1>2, <1>3, <1>4, <1>5, <1>6, <1>7, <1>8, <1>9 DEF Sweep

LEMMA OwedStep ==
  ASSUME TypeOK, AllOwed, [Next]_vars
  PROVE  AllOwed'
<1>1. CASE UNCHANGED vars
  BY <1>1 DEF vars, classVars, sweepVars, AllOwed, HaltOwed
<1> QED
  BY <1>1, OwedTransfer, OwedDevice, OwedSweep DEF Next

\* The event task's CLEAR_FEATURE reaches an endpoint that is halted, unless the
\* class's own clear, a reset or a new stall crossed a mark that had left the mask
\* (pTakeEpHalt, pClearEpHalt, pSubmitPipe).
THEOREM OneClearPerHalt == Spec => OneClearUnlessLate
<1>1. Init => AllOwed
  BY NoneAssumption DEF Init, AllOwed, HaltOwed
<1>2. TypeOK /\ AllOwed /\ [Next]_vars => AllOwed'
  BY OwedStep
<1>3. AllOwed => \A e \in Ep : ClearArrives(e) => e \in halted \cup late
  BY DEF AllOwed, HaltOwed, ClearArrives, Clearing
<1>4. AllOwed /\ [Next]_vars => [\A e \in Ep : ClearArrives(e) => e \in halted \cup late]_vars
  BY <1>3
<1> QED
  BY <1>1, <1>2, <1>4, StallTypeCorrect, PTL DEF Spec, OneClearUnlessLate
=============================================================================
