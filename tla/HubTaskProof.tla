---------------------------- MODULE HubTaskProof ----------------------------
(***************************************************************************)
(* Proofs about HubTask: no sleep over work, no answer to a caller that    *)
(* has left, no device left at the end, the table of devices follows the   *)
(* ports, EP1 has one submitter.  Each follows from where the hub task is  *)
(* in its loops and what it knows there of the port in work.               *)
(***************************************************************************)
EXTENDS HubTask, SequenceTheorems, TLAPS

\* What a message in the hub task's port says.
Msg == ({"reset"} \X Port) \cup ({"suspend", "resume"} \X {0})

\* The stretches of the code that the loops over the ports run.
ConfigurePcs == {"configure", "reset", "clear", "enumerate", "giveup", "given up"}
PassPcs == ConfigurePcs \cup {"status", "ack", "act", "free", "freed", "disable", "cycle", "teardown"}
LoopPcs == {"bind", "top", "wait", "methods", "serve", "acknowledge", "scan", "changes", "bottom",
            "stop", "exit", "gone"}

\* The types of what TypeOK leaves open.
Kinds == /\ pc \in PassPcs \cup LoopPcs
         /\ ep1 \in {"idle", "wire", "done", "failed", "timeout", "aborted"}
         /\ sig \subseteq {"task", "ctrl", "break"}
         /\ off \subseteq Port /\ missed \subseteq Port

\* The messages, and who waits for an answer.
Post == /\ queue \in Seq(Msg) /\ serving \in Msg \cup {<<>>}
        /\ answered \subseteq Port /\ suspender \in {"idle", "waits"}

Shape == TypeOK /\ Kinds /\ Post

\* Which loop runs which stretch.
Passes == /\ pc \in {"disable", "freed", "cycle"} => pass = "disable"
          /\ pc \in {"status", "ack", "act"} => pass = "changes"
          /\ pc \in {"teardown", "exit", "gone"} => pass = "teardown"
          /\ pc = "free" => pass # "initial" /\ num \in slot
          /\ pc \in ConfigurePcs => pass # "teardown"
          /\ pc = "bind" => pass = "initial"
          /\ pass = "teardown" => pc \in {"teardown", "free", "exit", "gone"}
          /\ pc \in {"reset", "clear", "enumerate"} => tries > 0

\* A method is served as what it is.
Serves == pc = "acknowledge" => serving[1] = "reset"

\* A message or a change report that waits has its signal pending, unless the
\* hub task gets to it before it sleeps.
Signals == /\ queue # <<>> => "ctrl" \in sig \/ pc \in {"methods", "serve", "acknowledge", "gone"}
           /\ ep1 \notin {"idle", "wire"} /\ pc \in {"bottom", "top", "wait"} => "task" \in sig
           /\ pc = "wait" /\ (disable # {} \/ scan) => "task" \in sig
           /\ pc \in PassPcs \cup {"bind"} /\ pass # "disable" => ep1 = "idle"

\* A class task's message is in one place, while the class waits.
Mail == /\ \A p \in Port :
             /\ Queued(p) => cls[p] = "waits" /\ serving # <<"reset", p>> /\ p \notin answered
             /\ serving = <<"reset", p>> => cls[p] = "waits" /\ p \notin answered
             /\ p \in answered => cls[p] = "waits"
        /\ \A i, j \in 1..Len(queue) :
             queue[i] = queue[j] /\ queue[i][1] = "reset" => i = j

\* What the teardown has behind it.
Emptied == /\ pass = "teardown" => \A p \in slot : p >= num
           /\ pc \in {"exit", "gone"} => slot = {}
           /\ pc = "gone" => queue = <<>>

\* Ports the first pass has yet to look at have no device, nor has one that is
\* being configured.
Unconfigured == /\ pc \in ConfigurePcs \cup {"freed", "cycle"} => num \notin slot
                /\ pass = "initial" /\ pc \in ConfigurePcs => \A p \in slot : p < num

Changed(p) == p \in change \/ p \in missed

\* What the hub task has read of the port in work holds, or has changed again.
Seen ==
  /\ pc = "ack" /\ seen # "none" => num \in change
  /\ pc = "act" /\ seen = "gone"  => plug[num] = "empty" \/ Changed(num)
  /\ pc = "act" /\ seen = "there" => plug[num] # "empty" \/ Changed(num)
  /\ pc = "free" /\ pass = "changes" => plug[num] = "empty" \/ Changed(num)

\* The device of a slot was replaced unnoticed only if the slot is being freed.
Replaced == \A p \in slot \ missed : plug[p] = "fresh" =>
              num = p /\ (pc = "free" \/ (pc = "act" /\ seen = "gone"))

\* The hub task is about to bring the slot of port p in step.
Busy(p) == \/ num = p /\ pc \in {"configure", "reset", "clear", "enumerate", "giveup", "freed"}
           \/ num = p /\ pc = "free"
           \/ num = p /\ pc = "act" /\ seen = "gone"  /\ p \in slot
           \/ num = p /\ pc = "act" /\ seen = "there" /\ p \notin slot
           \/ pass = "initial" /\ pc \in ConfigurePcs /\ p > num

InStep(p) == IF p \in slot THEN plug[p] = "enabled" ELSE plug[p] = "empty" \/ p \in off

\* Until the end a port's slot agrees with it, or somebody is going to see that
\* it does not, or the code has lost the change.
Follows == \A p \in Port : Changed(p) \/ InStep(p) \/ Busy(p)

Ports == ~hubGone /\ pass # "teardown" => Seen /\ Replaced /\ Follows

IInv == /\ Shape /\ Passes /\ Serves /\ Signals /\ Mail /\ Emptied /\ Unconfigured /\ Ports

-----------------------------------------------------------------------------
\* Where the loops go on.
LEMMA PassesGo ==
  /\ DOMAIN PassBody = {"initial", "disable", "changes", "teardown"}
  /\ PassBody["initial"] = "configure" /\ PassBody["disable"] = "disable"
  /\ PassBody["changes"] = "status" /\ PassBody["teardown"] = "teardown"
  /\ PassEnd["initial"] = "bind" /\ PassEnd["disable"] = "scan"
  /\ PassEnd["changes"] = "bottom" /\ PassEnd["teardown"] = "exit"
  BY DEF PassBody, PassEnd

LEMMA NextPortGoes ==
  ASSUME NextPort, num \in Port, pass \in DOMAIN PassBody
  PROVE  /\ num' \in Port
         /\ \/ /\ num' = num + 1
               /\ pass = "initial"  => pc' = "configure"
               /\ pass = "disable"  => pc' = "disable"
               /\ pass = "changes"  => pc' = "status"
               /\ pass = "teardown" => pc' = "teardown"
            \/ /\ num = NumPorts /\ num' = 1
               /\ pass = "initial"  => pc' = "bind"
               /\ pass = "disable"  => pc' = "scan"
               /\ pass = "changes"  => pc' = "bottom"
               /\ pass = "teardown" => pc' = "exit"
  BY PassesGo, PortsAssumption DEF NextPort, Port

\* From the configuration of a port: to the next one in the first pass only.
LEMMA ConfigureGoesOn ==
  ASSUME pc \in ConfigurePcs, NextPort, num \in Port, pass \in {"initial", "disable", "changes"}
  PROVE  /\ pc' \in {"configure", "bind", "disable", "scan", "status", "bottom"}
         /\ pc' = "configure" => pass = "initial" /\ num' = num + 1
         /\ pass = "initial" => \/ pc' = "configure" /\ num' = num + 1
                                \/ pc' = "bind" /\ num = NumPorts /\ num' = 1
  BY NextPortGoes, PassesGo

LEMMA ReplyGoes ==
  ASSUME Reply
  PROVE  /\ serving' = <<>> /\ pc' = "methods"
         /\ serving[1] = "reset" => answered' = answered \cup {serving[2]} /\ suspender' = suspender
         /\ serving[1] # "reset" => answered' = answered /\ suspender' = "idle"
  BY Zenon DEF Reply

LEMMA PortActs ==
  ASSUME PortAct
  PROVE  \/ seen = "gone" /\ num \in slot /\ StartFree /\ num' = num
         \/ seen = "there" /\ num \notin slot /\ pc' = "configure" /\ num' = num /\ told' = told
         \/ /\ ~(seen = "gone" /\ num \in slot) /\ ~(seen = "there" /\ num \notin slot)
            /\ NextPort /\ told' = told
<1>1. CASE seen = "gone" /\ num \in slot
  BY <1>1, Zenon DEF PortAct
<1>2. CASE seen = "there" /\ num \notin slot
  BY <1>2, Zenon DEF PortAct
<1>3. CASE ~(seen = "gone" /\ num \in slot) /\ ~(seen = "there" /\ num \notin slot)
  BY <1>3, Zenon DEF PortAct
<1> QED BY <1>1, <1>2, <1>3

\* A status that could be read.
LEMMA PortStatusReads ==
  ASSUME PortStatus
  PROVE  \/ hubGone
         \/ seen' = "gone" /\ pc' = "act" /\
            missed' = missed \cup {p \in {num} : plug[p] # "empty" /\ p \notin change}
         \/ seen' = "none" /\ pc' = "ack" /\ missed' = missed
         \/ /\ pc' = "ack" /\ missed' = missed
            /\ num \in change /\ (seen' = "gone" \/ seen' = "there")
  BY Zenon DEF PortStatus

-----------------------------------------------------------------------------
\* The hub task's message port.
LEMMA Appended ==
  ASSUME queue \in Seq(Msg), NEW m \in Msg, queue' = Append(queue, m)
  PROVE  /\ queue' \in Seq(Msg) /\ queue' # <<>> /\ Len(queue') = Len(queue) + 1
         /\ \A i \in 1..Len(queue) : queue'[i] = queue[i]
         /\ queue'[Len(queue) + 1] = m
  BY AppendProperties

LEMMA Taken ==
  ASSUME queue \in Seq(Msg), queue # <<>>, queue' = Tail(queue)
  PROVE  /\ queue' \in Seq(Msg) /\ Len(queue') = Len(queue) - 1
         /\ Head(queue) = queue[1] /\ queue[1] \in Msg /\ 1 \in 1..Len(queue)
         /\ \A i \in 1..Len(queue') : queue'[i] = queue[i + 1]
  BY HeadTailProperties

LEMMA Removed ==
  ASSUME queue \in Seq(Msg), NEW i \in 1..Len(queue), queue' = RemoveAt(queue, i)
  PROVE  /\ queue' \in Seq(Msg) /\ Len(queue') = Len(queue) - 1
         /\ \A j \in 1..Len(queue') : queue'[j] = IF j < i THEN queue[j] ELSE queue[j + 1]
<1> DEFINE s == SubSeq(queue, 1, i - 1)
           t == SubSeq(queue, i + 1, Len(queue))
<1>1. s \in Seq(Msg) /\ Len(s) = i - 1 /\ \A j \in 1..(i - 1) : s[j] = queue[j]
  BY SubSeqProperties
<1>2. t \in Seq(Msg) /\ Len(t) = Len(queue) - i /\ \A j \in 1..(Len(queue) - i) : t[j] = queue[i + j]
  BY SubSeqProperties
<1> HIDE DEF s, t
<1>3. queue' = s \o t
  BY DEF RemoveAt, s, t
<1>4. queue' \in Seq(Msg) /\ Len(queue') = Len(s) + Len(t)
  BY <1>1, <1>2, <1>3, ConcatProperties
<1>5. \A j \in 1..Len(queue') : queue'[j] = IF j <= Len(s) THEN s[j] ELSE t[j - Len(s)]
  BY <1>1, <1>2, <1>3, <1>4, ConcatProperties
<1>6. ASSUME NEW j \in 1..Len(queue')
      PROVE  queue'[j] = IF j < i THEN queue[j] ELSE queue[j + 1]
  <2>1. CASE j < i
    BY <1>1, <1>5, <1>6, <2>1
  <2>2. CASE j >= i
    <3>1. j - (i - 1) \in 1..(Len(queue) - i) /\ i + (j - (i - 1)) = j + 1
      BY <1>1, <1>2, <1>4, <1>6, <2>2
    <3> QED BY <1>1, <1>2, <1>5, <1>6, <2>2, <3>1
  <2> QED BY <1>6, <2>1, <2>2
<1>7. Len(queue') = Len(queue) - 1
  <2>1. Len(queue) \in Nat /\ i \in Nat
    OBVIOUS
  <2>2. Len(s) + Len(t) = Len(queue) - 1
    BY <1>1, <1>2, <2>1
  <2> QED BY <1>4, <2>2
<1> QED BY <1>4, <1>6, <1>7

-----------------------------------------------------------------------------
LEMMA InitialBindStep ==
  ASSUME IInv, InitialBind
  PROVE  IInv'
<1>1. TypeOK'
  BY DEF IInv, Shape, TypeOK, InitialBind, Bind, loopVars, workVars, msgVars, portVars
<1>2. Kinds'
  BY DEF IInv, Shape, Kinds, LoopPcs, InitialBind, Bind, portVars
<1>3. Post'
  BY DEF IInv, Shape, Post, InitialBind, Bind, msgVars
<1>4. Passes' /\ Serves'
  BY DEF IInv, Passes, Serves, InitialBind, Bind, loopVars
<1>5. Signals'
  BY DEF IInv, Signals, Passes, InitialBind, Bind, msgVars
<1>6. Mail'
  BY DEF IInv, Mail, Queued, InitialBind, Bind, msgVars
<1>7. Emptied'
  BY DEF IInv, Emptied, InitialBind, Bind, loopVars
<1>8. Unconfigured'
  BY DEF Unconfigured, ConfigurePcs, InitialBind, Bind
<1>9. Ports'
  BY DEF IInv, Ports, Seen, Replaced, Follows, Changed, InStep, Busy, ConfigurePcs,
     InitialBind, Bind, loopVars, portVars
<1> QED BY <1>1, <1>2, <1>3, <1>4, <1>5, <1>6, <1>7, <1>8, <1>9 DEF IInv, Shape

LEMMA LoopTopStep ==
  ASSUME IInv, LoopTop
  PROVE  IInv'
<1>1. TypeOK'
  BY DEF IInv, Shape, TypeOK, LoopTop, HasWork, Arm, loopVars, workVars, msgVars, clsVars,
     portVars
<1>2. Kinds'
  BY DEF IInv, Shape, Kinds, LoopPcs, LoopTop, HasWork, Arm, portVars
<1>3. Post'
  BY DEF IInv, Shape, Post, LoopTop, HasWork, Arm, msgVars
<1>4. Passes' /\ Serves'
  BY DEF IInv, Passes, Serves, LoopTop, HasWork, Arm, loopVars
<1>5. Signals'
  BY DEF IInv, Signals, PassPcs, ConfigurePcs, LoopTop, HasWork, Arm, workVars, msgVars
<1>6. Mail'
  BY DEF IInv, Mail, Queued, LoopTop, HasWork, Arm, msgVars, clsVars
<1>7. Emptied'
  BY DEF IInv, Emptied, LoopTop, HasWork, Arm, loopVars
<1>8. Unconfigured'
  BY DEF Unconfigured, ConfigurePcs, LoopTop, HasWork, Arm
<1>9. Ports'
  BY DEF IInv, Ports, Seen, Replaced, Follows, Changed, InStep, Busy, ConfigurePcs,
     LoopTop, HasWork, Arm, loopVars, portVars
<1> QED BY <1>1, <1>2, <1>3, <1>4, <1>5, <1>6, <1>7, <1>8, <1>9 DEF IInv, Shape

LEMMA WaitStep ==
  ASSUME IInv, Wait
  PROVE  IInv'
<1>1. TypeOK'
  BY DEF IInv, Shape, TypeOK, Wait, loopVars, workVars, ep1Vars, msgVars, clsVars,
     portVars
<1>2. Kinds'
  BY DEF IInv, Shape, Kinds, LoopPcs, Wait, ep1Vars, portVars
<1>3. Post'
  BY DEF IInv, Shape, Post, Wait, msgVars
<1>4. Passes' /\ Serves'
  BY DEF IInv, Passes, Serves, Wait, loopVars
<1>5. Signals'
  BY DEF Signals, PassPcs, ConfigurePcs, Wait
<1>6. Mail'
  BY DEF IInv, Mail, Queued, Wait, msgVars, clsVars
<1>7. Emptied'
  BY DEF IInv, Emptied, Wait, loopVars
<1>8. Unconfigured'
  BY DEF Unconfigured, ConfigurePcs, Wait
<1>9. Ports'
  BY DEF IInv, Ports, Seen, Replaced, Follows, Changed, InStep, Busy, ConfigurePcs, Wait,
     loopVars, portVars
<1> QED BY <1>1, <1>2, <1>3, <1>4, <1>5, <1>6, <1>7, <1>8, <1>9 DEF IInv, Shape

LEMMA GetMethodStep ==
  ASSUME IInv, GetMethod
  PROVE  IInv'
<1>1. TypeOK'
  <2>1. serving' \in Msg
    BY Taken DEF IInv, Shape, Post, GetMethod
  <2>2. \A m \in Msg : m # <<>>
    BY DEF Msg
  <2> QED BY <2>1, <2>2 DEF IInv, Shape, TypeOK, GetMethod, loopVars, workVars, ep1Vars,
             clsVars, portVars, countVars
<1>2. Kinds'
  BY DEF IInv, Shape, Kinds, LoopPcs, GetMethod, ep1Vars, portVars
<1>3. Post'
  BY Taken DEF IInv, Shape, Post, GetMethod
<1>4. Passes' /\ Serves'
  BY DEF IInv, Passes, Serves, GetMethod, loopVars
<1>5. Signals'
  BY DEF Signals, PassPcs, ConfigurePcs, GetMethod
<1>6. Mail'
  <2>1. /\ serving' = queue[1] /\ queue[1] \in Msg /\ Len(queue') = Len(queue) - 1
        /\ Len(queue) \in Nat \ {0} /\ \A i \in 1..Len(queue') : queue'[i] = queue[i + 1]
    BY Taken DEF IInv, Shape, Post, GetMethod
  <2>2. cls' = cls /\ answered' = answered
    BY DEF GetMethod, clsVars
  <2>3. Mail
    BY DEF IInv
  <2>4. ASSUME NEW p \in Port, Queued(p)'
        PROVE  Queued(p) /\ serving' # <<"reset", p>>
    <3>1. PICK i \in 1..Len(queue') : queue'[i] = <<"reset", p>>
      BY <2>4 DEF Queued
    <3>2. i + 1 \in 1..Len(queue) /\ i + 1 # 1 /\ 1 \in 1..Len(queue) /\ queue[i + 1] = <<"reset", p>>
      BY <2>1, <3>1
    <3>3. queue[i + 1][1] = "reset"
      BY <3>2
    <3>4. queue[i + 1] # queue[1]
      BY <2>3, <3>2, <3>3 DEF Mail
    <3> QED BY <2>1, <3>2, <3>4 DEF Queued
  <2>5. ASSUME NEW p \in Port, serving' = <<"reset", p>>
        PROVE  Queued(p)
    <3>1. 1 \in 1..Len(queue) /\ queue[1] = <<"reset", p>>
      BY <2>1, <2>5
    <3> QED BY <3>1 DEF Queued
  <2>6. ASSUME NEW i \in 1..Len(queue'), NEW j \in 1..Len(queue'), queue'[i] = queue'[j], queue'[i][1] = "reset"
        PROVE  i = j
    <3>1. i + 1 \in 1..Len(queue) /\ j + 1 \in 1..Len(queue)
      BY <2>1
    <3>2. i + 1 = j + 1
      BY <2>1, <2>3, <2>6, <3>1 DEF Mail
    <3> QED BY <3>2
  <2> QED BY <2>2, <2>3, <2>4, <2>5, <2>6 DEF Mail
<1>7. Emptied'
  BY DEF IInv, Emptied, GetMethod, loopVars
<1>8. Unconfigured'
  BY DEF Unconfigured, ConfigurePcs, GetMethod
<1>9. Ports'
  BY DEF IInv, Ports, Seen, Replaced, Follows, Changed, InStep, Busy, ConfigurePcs,
     GetMethod, loopVars, portVars
<1> QED BY <1>1, <1>2, <1>3, <1>4, <1>5, <1>6, <1>7, <1>8, <1>9 DEF IInv, Shape

LEMMA HubResetPortStep ==
  ASSUME IInv, HubResetPort
  PROVE  IInv'
<1>1. TypeOK'
  BY DEF IInv, Shape, TypeOK, HubResetPort, loopVars, workVars, ep1Vars, msgVars, clsVars
<1>2. Kinds'
  BY DEF IInv, Shape, Kinds, LoopPcs, HubResetPort, Transfer, ep1Vars
<1>3. Post'
  BY DEF IInv, Shape, Post, HubResetPort, msgVars
<1>4. Passes' /\ Serves'
  BY DEF IInv, Passes, Serves, HubResetPort, loopVars, msgVars
<1>5. Signals'
  BY DEF Signals, PassPcs, ConfigurePcs, HubResetPort
<1>6. Mail'
  BY DEF IInv, Mail, Queued, HubResetPort, msgVars, clsVars
<1>7. Emptied'
  BY DEF IInv, Emptied, HubResetPort, loopVars
<1>8. Unconfigured'
  BY DEF Unconfigured, ConfigurePcs, HubResetPort
<1>9. Ports'
  BY DEF IInv, Ports, Seen, Replaced, Follows, Changed, InStep, Busy, ConfigurePcs,
     HubResetPort, loopVars
<1> QED BY <1>1, <1>2, <1>3, <1>4, <1>5, <1>6, <1>7, <1>8, <1>9 DEF IInv, Shape

LEMMA HubResetFailsStep ==
  ASSUME IInv, HubResetFails
  PROVE  IInv'
<1>1. TypeOK'
  BY ReplyGoes DEF IInv, Shape, TypeOK, HubResetFails, loopVars, workVars, ep1Vars,
     clsVars, portVars
<1>2. Kinds'
  BY ReplyGoes DEF IInv, Shape, Kinds, LoopPcs, HubResetFails, Transfer, ep1Vars, portVars
<1>3. Post'
  BY ReplyGoes DEF IInv, Shape, TypeOK, Post, HubResetFails, Msg
<1>4. Passes' /\ Serves'
  BY ReplyGoes DEF IInv, Passes, Serves, HubResetFails, loopVars
<1>5. Signals'
  BY ReplyGoes DEF Signals, PassPcs, ConfigurePcs, HubResetFails
<1>6. Mail'
  BY ReplyGoes DEF IInv, Shape, TypeOK, Post, Mail, Queued, HubResetFails, clsVars, Msg
<1>7. Emptied'
  BY ReplyGoes DEF IInv, Emptied, HubResetFails, loopVars
<1>8. Unconfigured'
  BY ReplyGoes DEF Unconfigured, ConfigurePcs, HubResetFails
<1>9. Ports'
  BY ReplyGoes DEF IInv, Ports, Seen, Replaced, Follows, Changed, InStep, Busy,
     ConfigurePcs, HubResetFails, loopVars, portVars
<1> QED BY <1>1, <1>2, <1>3, <1>4, <1>5, <1>6, <1>7, <1>8, <1>9 DEF IInv, Shape

LEMMA HubResetDoneStep ==
  ASSUME IInv, HubResetDone
  PROVE  IInv'
<1>1. TypeOK'
  BY ReplyGoes DEF IInv, Shape, TypeOK, HubResetDone, Acknowledge, loopVars, workVars,
     ep1Vars, clsVars
<1>2. Kinds'
  BY ReplyGoes DEF IInv, Shape, TypeOK, Kinds, LoopPcs, HubResetDone, Transfer,
     Acknowledge, ep1Vars
<1>3. Post'
  BY ReplyGoes DEF IInv, Shape, TypeOK, Post, HubResetDone, Msg
<1>4. Passes' /\ Serves'
  BY ReplyGoes DEF IInv, Passes, Serves, HubResetDone, loopVars
<1>5. Signals'
  BY ReplyGoes DEF Signals, PassPcs, ConfigurePcs, HubResetDone
<1>6. Mail'
  BY ReplyGoes DEF IInv, Shape, TypeOK, Post, Mail, Queued, HubResetDone, clsVars, Msg
<1>7. Emptied'
  BY ReplyGoes DEF IInv, Emptied, HubResetDone, loopVars
<1>8. Unconfigured'
  BY ReplyGoes DEF Unconfigured, ConfigurePcs, HubResetDone
<1>9. Ports'
  BY ReplyGoes DEF IInv, Ports, Seen, Replaced, Follows, Changed, InStep, Busy,
     ConfigurePcs, HubResetDone, Acknowledge, loopVars
<1> QED BY <1>1, <1>2, <1>3, <1>4, <1>5, <1>6, <1>7, <1>8, <1>9 DEF IInv, Shape

LEMMA AttemptSuspendStep ==
  ASSUME IInv, AttemptSuspend
  PROVE  IInv'
<1>1. TypeOK'
  BY ReplyGoes DEF IInv, Shape, TypeOK, AttemptSuspend, loopVars, workVars, clsVars,
     portVars
<1>2. Kinds'
  BY ReplyGoes DEF IInv, Shape, Kinds, LoopPcs, AttemptSuspend, portVars
<1>3. Post'
  BY ReplyGoes DEF IInv, Shape, Post, AttemptSuspend
<1>4. Passes' /\ Serves'
  BY ReplyGoes DEF IInv, Passes, Serves, AttemptSuspend, loopVars
<1>5. Signals'
  BY ReplyGoes DEF Signals, PassPcs, ConfigurePcs, AttemptSuspend
<1>6. Mail'
  BY ReplyGoes DEF IInv, Mail, Queued, AttemptSuspend, clsVars
<1>7. Emptied'
  BY ReplyGoes DEF IInv, Emptied, AttemptSuspend, loopVars
<1>8. Unconfigured'
  BY ReplyGoes DEF Unconfigured, ConfigurePcs, AttemptSuspend
<1>9. Ports'
  BY ReplyGoes DEF IInv, Ports, Seen, Replaced, Follows, Changed, InStep, Busy,
     ConfigurePcs, AttemptSuspend, loopVars, portVars
<1> QED BY <1>1, <1>2, <1>3, <1>4, <1>5, <1>6, <1>7, <1>8, <1>9 DEF IInv, Shape

LEMMA AttemptResumeStep ==
  ASSUME IInv, AttemptResume
  PROVE  IInv'
<1>1. TypeOK'
  BY ReplyGoes DEF IInv, Shape, TypeOK, AttemptResume, loopVars, workVars, clsVars,
     portVars
<1>2. Kinds'
  BY ReplyGoes DEF IInv, Shape, Kinds, LoopPcs, AttemptResume, Transfer, portVars
<1>3. Post'
  BY ReplyGoes DEF IInv, Shape, Post, AttemptResume
<1>4. Passes' /\ Serves'
  BY ReplyGoes DEF IInv, Passes, Serves, AttemptResume, loopVars
<1>5. Signals'
  BY ReplyGoes DEF Signals, PassPcs, ConfigurePcs, AttemptResume
<1>6. Mail'
  BY ReplyGoes DEF IInv, Mail, Queued, AttemptResume, clsVars
<1>7. Emptied'
  BY ReplyGoes DEF IInv, Emptied, AttemptResume, loopVars
<1>8. Unconfigured'
  BY ReplyGoes DEF Unconfigured, ConfigurePcs, AttemptResume
<1>9. Ports'
  BY ReplyGoes DEF IInv, Ports, Seen, Replaced, Follows, Changed, InStep, Busy,
     ConfigurePcs, AttemptResume, loopVars, portVars
<1> QED BY <1>1, <1>2, <1>3, <1>4, <1>5, <1>6, <1>7, <1>8, <1>9 DEF IInv, Shape

LEMMA MethodsDoneStep ==
  ASSUME IInv, MethodsDone
  PROVE  IInv'
<1>1. TypeOK'
  BY PassesGo DEF IInv, Shape, TypeOK, MethodsDone, StartPass, workVars, ep1Vars, msgVars,
     clsVars, portVars, countVars
<1>2. Kinds'
  BY PassesGo DEF IInv, Shape, Kinds, PassPcs, LoopPcs, MethodsDone, StartPass, ep1Vars,
     portVars
<1>3. Post'
  BY DEF IInv, Shape, Post, MethodsDone, StartPass, msgVars
<1>4. Passes' /\ Serves'
  BY PassesGo DEF IInv, Passes, Serves, MethodsDone, StartPass
<1>5. Signals'
  BY PassesGo DEF Signals, PassPcs, ConfigurePcs, MethodsDone, StartPass, msgVars
<1>6. Mail'
  BY DEF IInv, Mail, Queued, MethodsDone, StartPass, msgVars, clsVars
<1>7. Emptied'
  BY PassesGo DEF IInv, Emptied, MethodsDone, StartPass
<1>8. Unconfigured'
  BY PassesGo DEF Unconfigured, ConfigurePcs, MethodsDone, StartPass
<1>9. Ports'
  BY PassesGo DEF IInv, Ports, Seen, Replaced, Follows, Changed, InStep, Busy, Passes,
     ConfigurePcs, MethodsDone, StartPass, portVars
<1> QED BY <1>1, <1>2, <1>3, <1>4, <1>5, <1>6, <1>7, <1>8, <1>9 DEF IInv, Shape

LEMMA ClassScanStep ==
  ASSUME IInv, ClassScan
  PROVE  IInv'
<1>1. TypeOK'
  BY DEF IInv, Shape, TypeOK, ClassScan, Bind, loopVars, ep1Vars, msgVars, portVars
<1>2. Kinds'
  BY DEF IInv, Shape, Kinds, LoopPcs, ClassScan, Bind, ep1Vars, portVars
<1>3. Post'
  BY DEF IInv, Shape, Post, ClassScan, Bind, msgVars
<1>4. Passes' /\ Serves'
  BY DEF IInv, Passes, Serves, ClassScan, Bind, loopVars
<1>5. Signals'
  BY DEF IInv, Signals, PassPcs, ConfigurePcs, ClassScan, Bind, msgVars
<1>6. Mail'
  BY DEF IInv, Mail, Queued, ClassScan, Bind, msgVars
<1>7. Emptied'
  BY DEF IInv, Emptied, ClassScan, Bind, loopVars
<1>8. Unconfigured'
  BY DEF Unconfigured, ConfigurePcs, ClassScan, Bind
<1>9. Ports'
  BY DEF IInv, Ports, Seen, Replaced, Follows, Changed, InStep, Busy, ConfigurePcs,
     ClassScan, Bind, loopVars, portVars
<1> QED BY <1>1, <1>2, <1>3, <1>4, <1>5, <1>6, <1>7, <1>8, <1>9 DEF IInv, Shape

LEMMA LoopBottomStep ==
  ASSUME IInv, LoopBottom
  PROVE  IInv'
<1>1. TypeOK'
  BY DEF IInv, Shape, TypeOK, LoopBottom, loopVars, workVars, ep1Vars, msgVars, clsVars,
     portVars
<1>2. Kinds'
  BY DEF IInv, Shape, Kinds, LoopPcs, LoopBottom, ep1Vars, portVars
<1>3. Post'
  BY DEF IInv, Shape, Post, LoopBottom, msgVars
<1>4. Passes' /\ Serves'
  BY DEF IInv, Passes, Serves, LoopBottom, loopVars
<1>5. Signals'
  BY DEF IInv, Signals, PassPcs, ConfigurePcs, LoopBottom, ep1Vars, msgVars
<1>6. Mail'
  BY DEF IInv, Mail, Queued, LoopBottom, msgVars, clsVars
<1>7. Emptied'
  BY DEF IInv, Emptied, LoopBottom, loopVars
<1>8. Unconfigured'
  BY DEF Unconfigured, ConfigurePcs, LoopBottom
<1>9. Ports'
  BY DEF IInv, Ports, Seen, Replaced, Follows, Changed, InStep, Busy, ConfigurePcs,
     LoopBottom, loopVars, portVars
<1> QED BY <1>1, <1>2, <1>3, <1>4, <1>5, <1>6, <1>7, <1>8, <1>9 DEF IInv, Shape

LEMMA FreeDoneStep ==
  ASSUME IInv, FreeDone
  PROVE  IInv'
<1>1. TypeOK'
  BY NextPortGoes, PassesGo DEF IInv, Shape, TypeOK, FreeDone, workVars, ep1Vars, msgVars,
     clsVars, portVars
<1>2. Kinds'
  BY NextPortGoes, PassesGo DEF IInv, Shape, TypeOK, Kinds, PassPcs, ConfigurePcs,
     LoopPcs, FreeDone, ep1Vars, portVars
<1>3. Post'
  BY DEF IInv, Shape, Post, FreeDone, msgVars
<1>4. Passes' /\ Serves'
  BY NextPortGoes, PassesGo DEF IInv, Shape, TypeOK, Passes, Serves, ConfigurePcs,
     FreeDone
<1>5. Signals'
  BY NextPortGoes, PassesGo DEF IInv, Shape, TypeOK, Signals, PassPcs, FreeDone, ep1Vars,
     msgVars
<1>6. Mail'
  BY DEF IInv, Mail, Queued, FreeDone, msgVars, clsVars
<1>7. Emptied'
  BY NextPortGoes, PassesGo DEF IInv, Shape, TypeOK, Emptied, FreeDone, Port
<1>8. Unconfigured'
  BY NextPortGoes, PassesGo DEF IInv, Shape, TypeOK, Unconfigured, Passes, ConfigurePcs,
     FreeDone
<1>9. Ports'
  BY NextPortGoes, PassesGo DEF IInv, Shape, TypeOK, Ports, Seen, Replaced, Follows,
     Changed, InStep, Busy, Passes, FreeDone, portVars
<1> QED BY <1>1, <1>2, <1>3, <1>4, <1>5, <1>6, <1>7, <1>8, <1>9 DEF IInv, Shape

LEMMA DisableSkipStep ==
  ASSUME IInv, DisableSkip
  PROVE  IInv'
<1>1. TypeOK'
  BY NextPortGoes, PassesGo DEF IInv, Shape, TypeOK, DisableSkip, workVars, ep1Vars,
     msgVars, clsVars, portVars
<1>2. Kinds'
  BY NextPortGoes, PassesGo DEF IInv, Shape, TypeOK, Kinds, PassPcs, ConfigurePcs,
     LoopPcs, DisableSkip, ep1Vars, portVars
<1>3. Post'
  BY DEF IInv, Shape, Post, DisableSkip, msgVars
<1>4. Passes' /\ Serves'
  BY NextPortGoes DEF IInv, Shape, TypeOK, Passes, Serves, DisableSkip
<1>5. Signals'
  BY NextPortGoes, PassesGo DEF IInv, Shape, TypeOK, Signals, PassPcs, DisableSkip,
     ep1Vars, msgVars
<1>6. Mail'
  BY DEF IInv, Mail, Queued, DisableSkip, msgVars, clsVars
<1>7. Emptied'
  BY NextPortGoes DEF IInv, Shape, TypeOK, Emptied, Passes, DisableSkip
<1>8. Unconfigured'
  BY NextPortGoes DEF IInv, Shape, TypeOK, Unconfigured, Passes, ConfigurePcs, DisableSkip
<1>9. Ports'
  BY NextPortGoes, PassesGo DEF IInv, Shape, TypeOK, Ports, Seen, Replaced, Follows,
     Changed, InStep, Busy, ConfigurePcs, DisableSkip, portVars
<1> QED BY <1>1, <1>2, <1>3, <1>4, <1>5, <1>6, <1>7, <1>8, <1>9 DEF IInv, Shape

LEMMA DisableTakeStep ==
  ASSUME IInv, DisableTake
  PROVE  IInv'
<1>1. TypeOK'
  BY DEF IInv, Shape, TypeOK, DisableTake, StartFree, loopVars, ep1Vars, msgVars, portVars
<1>2. Kinds'
  BY DEF IInv, Shape, Kinds, PassPcs, DisableTake, StartFree, ep1Vars, portVars
<1>3. Post'
  BY DEF IInv, Shape, Post, DisableTake, StartFree, msgVars
<1>4. Passes' /\ Serves'
  BY DEF IInv, Passes, Serves, DisableTake, StartFree, loopVars
<1>5. Signals'
  BY DEF IInv, Signals, PassPcs, DisableTake, StartFree, loopVars, ep1Vars, msgVars
<1>6. Mail'
  BY DEF IInv, Mail, Queued, DisableTake, StartFree, msgVars
<1>7. Emptied'
  BY DEF IInv, Emptied, DisableTake, StartFree, loopVars
<1>8. Unconfigured'
  BY DEF Unconfigured, ConfigurePcs, DisableTake, StartFree, loopVars
<1>9. Ports'
  BY DEF IInv, Ports, Seen, Replaced, Follows, Changed, InStep, Busy, Passes, DisableTake,
     StartFree, loopVars, portVars
<1> QED BY <1>1, <1>2, <1>3, <1>4, <1>5, <1>6, <1>7, <1>8, <1>9 DEF IInv, Shape

LEMMA DisablePortStep ==
  ASSUME IInv, DisablePort
  PROVE  IInv'
<1>1. TypeOK'
  BY DEF IInv, Shape, TypeOK, DisablePort, PortOff, loopVars, workVars, ep1Vars, msgVars,
     clsVars
<1>2. Kinds'
  BY DEF IInv, Shape, TypeOK, Kinds, PassPcs, DisablePort, Transfer, PortOff, ep1Vars
<1>3. Post'
  BY DEF IInv, Shape, Post, DisablePort, PortOff, msgVars
<1>4. Passes' /\ Serves'
  BY DEF IInv, Passes, Serves, DisablePort, PortOff, loopVars
<1>5. Signals'
  BY DEF IInv, Signals, PassPcs, DisablePort, Transfer, PortOff, loopVars, ep1Vars,
     msgVars
<1>6. Mail'
  BY DEF IInv, Mail, Queued, DisablePort, PortOff, msgVars, clsVars
<1>7. Emptied'
  BY DEF IInv, Emptied, DisablePort, PortOff, loopVars
<1>8. Unconfigured'
  BY DEF IInv, Unconfigured, ConfigurePcs, DisablePort, PortOff, loopVars
<1>9. Ports'
  BY DEF IInv, Ports, Seen, Replaced, Follows, Changed, InStep, Busy, Unconfigured,
     ConfigurePcs, DisablePort, PortOff, loopVars
<1> QED BY <1>1, <1>2, <1>3, <1>4, <1>5, <1>6, <1>7, <1>8, <1>9 DEF IInv, Shape

LEMMA PowerCycleStep ==
  ASSUME IInv, PowerCycle
  PROVE  IInv'
<1>1. TypeOK'
  BY NextPortGoes, PassesGo DEF IInv, Shape, TypeOK, PowerCycle, ep1Vars, msgVars,
     clsVars, portVars
<1>2. Kinds'
  BY NextPortGoes, PassesGo DEF IInv, Shape, TypeOK, Kinds, PassPcs, ConfigurePcs,
     LoopPcs, PowerCycle, ep1Vars, portVars
<1>3. Post'
  BY DEF IInv, Shape, Post, PowerCycle, msgVars
<1>4. Passes' /\ Serves'
  BY NextPortGoes DEF IInv, Shape, TypeOK, Passes, Serves, PowerCycle
<1>5. Signals'
  BY NextPortGoes, PassesGo DEF IInv, Shape, TypeOK, Signals, PassPcs, PowerCycle,
     ep1Vars, msgVars
<1>6. Mail'
  BY DEF IInv, Mail, Queued, PowerCycle, msgVars, clsVars
<1>7. Emptied'
  BY NextPortGoes DEF IInv, Shape, TypeOK, Emptied, Passes, PowerCycle
<1>8. Unconfigured'
  BY NextPortGoes DEF IInv, Shape, TypeOK, Unconfigured, Passes, ConfigurePcs, PowerCycle
<1>9. Ports'
  BY NextPortGoes, PassesGo DEF IInv, Shape, TypeOK, Ports, Seen, Replaced, Follows,
     Changed, InStep, Busy, ConfigurePcs, PowerCycle, portVars
<1> QED BY <1>1, <1>2, <1>3, <1>4, <1>5, <1>6, <1>7, <1>8, <1>9 DEF IInv, Shape

LEMMA NothingThereStep ==
  ASSUME IInv, NothingThere
  PROVE  IInv'
<1>1. TypeOK'
  BY NextPortGoes, PassesGo DEF IInv, Shape, TypeOK, NothingThere, workVars, ep1Vars,
     msgVars, clsVars, portVars
<1>2. Kinds'
  BY NextPortGoes, PassesGo DEF IInv, Shape, TypeOK, Kinds, PassPcs, LoopPcs,
     NothingThere, Transfer, ep1Vars, portVars
<1>3. Post'
  BY DEF IInv, Shape, Post, NothingThere, msgVars
<1>4. Passes' /\ Serves'
  BY NextPortGoes, PassesGo DEF IInv, Shape, TypeOK, Passes, Serves, NothingThere
<1>5. Signals'
  BY NextPortGoes, PassesGo DEF IInv, Shape, TypeOK, Signals, PassPcs, ConfigurePcs,
     NothingThere, Transfer, ep1Vars, msgVars
<1>6. Mail'
  BY DEF IInv, Mail, Queued, NothingThere, msgVars, clsVars
<1>7. Emptied'
  BY NextPortGoes, PassesGo DEF IInv, Shape, TypeOK, Emptied, Passes, NothingThere
<1>8. Unconfigured'
  <2>1. pc \in ConfigurePcs /\ pass \in {"initial", "disable", "changes"} /\ num \in Port
    BY PassesGo DEF IInv, Shape, TypeOK, Passes, ConfigurePcs, NothingThere
  <2>2. pass' = pass /\ slot' \subseteq slot \cup {num} /\ slot \subseteq Port
    BY DEF IInv, Shape, TypeOK, NothingThere, workVars, ep1Vars, msgVars, clsVars, portVars,
       countVars
  <2>3. NextPort
    BY DEF NothingThere
  <2>4. \A p \in Port : p \in Nat
    BY PortsAssumption DEF Port
  <2>5. /\ pc' \in {"configure", "bind", "disable", "scan", "status", "bottom"}
        /\ pc' = "configure" => pass = "initial" /\ num' = num + 1
    BY <2>1, <2>3, ConfigureGoesOn
  <2>6. ASSUME pc' = "configure", NEW p \in slot'
        PROVE  p < num'
    <3>1. p < num \/ p = num
      BY <2>1, <2>2, <2>5, <2>6 DEF IInv, Unconfigured
    <3> QED BY <2>1, <2>2, <2>4, <2>5, <2>6, <3>1
  <2>7. num' \in Nat
    BY <2>1, <2>3, <2>4, NextPortGoes, PassesGo
  <2>8. pc' = "configure" => num' \notin slot'
    BY <2>6, <2>7
  <2> QED BY <2>5, <2>6, <2>8 DEF Unconfigured, ConfigurePcs
<1>9. Ports'
  <2>1. pc \in ConfigurePcs /\ pass \in {"initial", "disable", "changes"} /\ num \in Port
    BY PassesGo DEF IInv, Shape, TypeOK, Passes, ConfigurePcs, NothingThere
  <2>2. NextPort /\ pass' = pass /\ hubGone' = hubGone /\ plug' = plug
    BY DEF NothingThere, workVars, ep1Vars, msgVars, clsVars, portVars, countVars
  <2>3. SUFFICES ASSUME ~hubGone, pass # "teardown"
        PROVE  Seen' /\ Replaced' /\ Follows'
    BY <2>2 DEF Ports
  <2>4. Seen /\ Replaced /\ Follows
    BY <2>3 DEF IInv, Ports
  <2>5. Seen'
    BY <2>1, <2>2, ConfigureGoesOn DEF Seen
  <2>6. Replaced'
    BY <2>1, <2>2, <2>4, ConfigureGoesOn DEF IInv, Shape, Kinds, Replaced, ConfigurePcs,
       NothingThere, workVars, ep1Vars, msgVars, clsVars, portVars, countVars
  <2>7. ASSUME NEW p \in Port, p # num, Busy(p)
        PROVE  Busy(p)'
    <3>1. pass = "initial" /\ p > num /\ p \in Nat /\ num \in Nat /\ p <= NumPorts
      BY <2>1, <2>7, PortsAssumption DEF Busy, Port
    <3>2. pc' = "configure" /\ num' = num + 1
      BY <2>1, <2>2, <3>1, ConfigureGoesOn
    <3> QED BY <2>2, <3>1, <3>2 DEF Busy, ConfigurePcs
  <2>8. ASSUME NEW p \in Port, p # num
        PROVE  Changed(p)' \/ InStep(p)' \/ Busy(p)'
    BY <2>2, <2>3, <2>4, <2>7, <2>8 DEF Follows, Changed, InStep, NothingThere, workVars,
       ep1Vars, msgVars, clsVars, portVars, countVars
  <2>9. ASSUME NEW p \in Port, p = num
        PROVE  Changed(p)' \/ InStep(p)'
    <3>1. Changed(p) \/ InStep(p) \/ Busy(p)
      BY <2>4 DEF Follows
    <3>2. p \notin slot
      BY <2>1, <2>9 DEF IInv, Unconfigured
    <3>3. num \in Nat
      BY <2>1, PortsAssumption DEF Port
    <3>4. ~(p > num)
      BY <2>9, <3>3
    <3> QED BY <2>1, <2>2, <2>3, <2>9, <3>1, <3>2, <3>4
               DEF Changed, InStep, Busy, NothingThere, workVars, ep1Vars, msgVars, clsVars,
               portVars, countVars
  <2> QED BY <2>1, <2>5, <2>6, <2>8, <2>9 DEF Follows
<1> QED BY <1>1, <1>2, <1>3, <1>4, <1>5, <1>6, <1>7, <1>8, <1>9 DEF IInv, Shape

LEMMA NoStatusStep ==
  ASSUME IInv, NoStatus
  PROVE  IInv'
<1>1. TypeOK'
  BY NextPortGoes, PassesGo DEF IInv, Shape, TypeOK, NoStatus, workVars, ep1Vars, msgVars,
     clsVars
<1>2. Kinds'
  BY NextPortGoes, PassesGo DEF IInv, Shape, TypeOK, Kinds, PassPcs, LoopPcs, NoStatus,
     Transfer, ep1Vars
<1>3. Post'
  BY DEF IInv, Shape, Post, NoStatus, msgVars
<1>4. Passes' /\ Serves'
  BY NextPortGoes, PassesGo DEF IInv, Shape, TypeOK, Passes, Serves, NoStatus
<1>5. Signals'
  BY NextPortGoes, PassesGo DEF IInv, Shape, TypeOK, Signals, PassPcs, ConfigurePcs,
     NoStatus, Transfer, ep1Vars, msgVars
<1>6. Mail'
  BY DEF IInv, Mail, Queued, NoStatus, msgVars, clsVars
<1>7. Emptied'
  BY NextPortGoes, PassesGo DEF IInv, Shape, TypeOK, Emptied, Passes, NoStatus
<1>8. Unconfigured'
  <2>1. pc \in ConfigurePcs /\ pass \in {"initial", "disable", "changes"} /\ num \in Port
    BY PassesGo DEF IInv, Shape, TypeOK, Passes, ConfigurePcs, NoStatus
  <2>2. pass' = pass /\ slot' \subseteq slot \cup {num} /\ slot \subseteq Port
    BY DEF IInv, Shape, TypeOK, NoStatus, workVars, ep1Vars, msgVars, clsVars
  <2>3. NextPort
    BY DEF NoStatus
  <2>4. \A p \in Port : p \in Nat
    BY PortsAssumption DEF Port
  <2>5. /\ pc' \in {"configure", "bind", "disable", "scan", "status", "bottom"}
        /\ pc' = "configure" => pass = "initial" /\ num' = num + 1
    BY <2>1, <2>3, ConfigureGoesOn
  <2>6. ASSUME pc' = "configure", NEW p \in slot'
        PROVE  p < num'
    <3>1. p < num \/ p = num
      BY <2>1, <2>2, <2>5, <2>6 DEF IInv, Unconfigured
    <3> QED BY <2>1, <2>2, <2>4, <2>5, <2>6, <3>1
  <2>7. num' \in Nat
    BY <2>1, <2>3, <2>4, NextPortGoes, PassesGo
  <2>8. pc' = "configure" => num' \notin slot'
    BY <2>6, <2>7
  <2> QED BY <2>5, <2>6, <2>8 DEF Unconfigured, ConfigurePcs
<1>9. Ports'
  <2>1. pc \in ConfigurePcs /\ pass \in {"initial", "disable", "changes"} /\ num \in Port
    BY PassesGo DEF IInv, Shape, TypeOK, Passes, ConfigurePcs, NoStatus
  <2>2. NextPort /\ pass' = pass /\ hubGone' = hubGone /\ plug' = plug
    BY DEF NoStatus, workVars, ep1Vars, msgVars, clsVars
  <2>3. SUFFICES ASSUME ~hubGone, pass # "teardown"
        PROVE  Seen' /\ Replaced' /\ Follows'
    BY <2>2 DEF Ports
  <2>4. Seen /\ Replaced /\ Follows
    BY <2>3 DEF IInv, Ports
  <2>5. Seen'
    BY <2>1, <2>2, ConfigureGoesOn DEF Seen
  <2>6. Replaced'
    BY <2>1, <2>2, <2>4, ConfigureGoesOn DEF IInv, Shape, Kinds, Replaced, ConfigurePcs, Error,
       Room, NoStatus, workVars, ep1Vars, msgVars, clsVars
  <2>7. ASSUME NEW p \in Port, p # num, Busy(p)
        PROVE  Busy(p)'
    <3>1. pass = "initial" /\ p > num /\ p \in Nat /\ num \in Nat /\ p <= NumPorts
      BY <2>1, <2>7, PortsAssumption DEF Busy, Port
    <3>2. pc' = "configure" /\ num' = num + 1
      BY <2>1, <2>2, <3>1, ConfigureGoesOn
    <3> QED BY <2>2, <3>1, <3>2 DEF Busy, ConfigurePcs
  <2>8. ASSUME NEW p \in Port, p # num
        PROVE  Changed(p)' \/ InStep(p)' \/ Busy(p)'
    BY <2>2, <2>3, <2>4, <2>7, <2>8 DEF Follows, Changed, InStep, Error, Room, NoStatus,
       workVars, ep1Vars, msgVars, clsVars
  <2>9. ASSUME NEW p \in Port, p = num
        PROVE  Changed(p)' \/ InStep(p)'
    <3>1. Changed(p) \/ InStep(p) \/ Busy(p)
      BY <2>4 DEF Follows
    <3>2. p \notin slot
      BY <2>1, <2>9 DEF IInv, Unconfigured
    <3>3. num \in Nat
      BY <2>1, PortsAssumption DEF Port
    <3>4. ~(p > num)
      BY <2>9, <3>3
    <3> QED BY <2>1, <2>2, <2>3, <2>9, <3>1, <3>2, <3>4
               DEF Changed, InStep, Busy, Error, Room, NoStatus, workVars, ep1Vars, msgVars,
               clsVars
  <2> QED BY <2>1, <2>5, <2>6, <2>8, <2>9 DEF Follows
<1> QED BY <1>1, <1>2, <1>3, <1>4, <1>5, <1>6, <1>7, <1>8, <1>9 DEF IInv, Shape

LEMMA SomethingThereStep ==
  ASSUME IInv, SomethingThere
  PROVE  IInv'
<1>1. TypeOK'
  BY TriesAssumption DEF IInv, Shape, TypeOK, SomethingThere, workVars, ep1Vars, msgVars,
     clsVars
<1>2. Kinds'
  BY DEF IInv, Shape, Kinds, PassPcs, ConfigurePcs, SomethingThere, Transfer, ep1Vars
<1>3. Post'
  BY DEF IInv, Shape, Post, SomethingThere, msgVars
<1>4. Passes' /\ Serves'
  BY TriesAssumption DEF IInv, Passes, Serves, SomethingThere
<1>5. Signals'
  BY DEF IInv, Signals, PassPcs, ConfigurePcs, SomethingThere, Transfer, ep1Vars, msgVars
<1>6. Mail'
  BY DEF IInv, Mail, Queued, SomethingThere, msgVars, clsVars
<1>7. Emptied'
  BY DEF IInv, Emptied, SomethingThere
<1>8. Unconfigured'
  BY DEF IInv, Unconfigured, ConfigurePcs, SomethingThere
<1>9. Ports'
  BY DEF IInv, Ports, Seen, Replaced, Follows, Changed, InStep, Busy, Unconfigured,
     ConfigurePcs, SomethingThere
<1> QED BY <1>1, <1>2, <1>3, <1>4, <1>5, <1>6, <1>7, <1>8, <1>9 DEF IInv, Shape

LEMMA PortResetStep ==
  ASSUME IInv, PortReset
  PROVE  IInv'
<1>1. TypeOK'
  BY TriesAssumption DEF IInv, Shape, TypeOK, Passes, PortReset, TryAgain, workVars,
     ep1Vars, msgVars, clsVars
<1>2. Kinds'
  BY DEF IInv, Shape, Kinds, PassPcs, ConfigurePcs, PortReset, Transfer, TryAgain, ep1Vars
<1>3. Post'
  BY DEF IInv, Shape, Post, PortReset, TryAgain, msgVars
<1>4. Passes' /\ Serves'
  <2>1. tries \in Nat /\ tries > 0 /\ pass # "teardown" /\ pc = "reset"
    BY TriesAssumption DEF IInv, Shape, TypeOK, Passes, ConfigurePcs, PortReset
  <2>2. pass' = pass /\ num' = num /\ slot' = slot
    BY DEF PortReset
  <2>3. \/ pc' = "giveup"
        \/ pc' = "clear" /\ tries' = tries
        \/ pc' = "reset" /\ tries' = tries - 1 /\ tries > 1
    <3>1. \/ pc' = "giveup"
          \/ pc' = "clear" /\ tries' = tries
          \/ TryAgain
      BY Zenon DEF PortReset
    <3> QED BY <3>1 DEF TryAgain
  <2>4. pc' \in {"giveup", "clear", "reset"} /\ (pc' # "giveup" => tries' > 0)
    BY <2>1, <2>3
  <2> QED BY <2>1, <2>2, <2>4 DEF Passes, Serves, ConfigurePcs
<1>5. Signals'
  BY DEF IInv, Signals, PassPcs, ConfigurePcs, PortReset, Transfer, TryAgain, ep1Vars,
     msgVars
<1>6. Mail'
  BY DEF IInv, Mail, Queued, PortReset, TryAgain, msgVars, clsVars
<1>7. Emptied'
  BY DEF IInv, Emptied, PortReset, TryAgain
<1>8. Unconfigured'
  BY DEF IInv, Unconfigured, ConfigurePcs, PortReset, TryAgain
<1>9. Ports'
  BY DEF IInv, Shape, TypeOK, Ports, Seen, Replaced, Follows, Changed, InStep, Busy,
     ConfigurePcs, PortReset, TryAgain
<1> QED BY <1>1, <1>2, <1>3, <1>4, <1>5, <1>6, <1>7, <1>8, <1>9 DEF IInv, Shape

LEMMA ClearChangesStep ==
  ASSUME IInv, ClearChanges
  PROVE  IInv'
<1>1. TypeOK'
  BY DEF IInv, Shape, TypeOK, ClearChanges, Acknowledge, loopVars, workVars, ep1Vars,
     msgVars, clsVars
<1>2. Kinds'
  BY DEF IInv, Shape, Kinds, PassPcs, ConfigurePcs, ClearChanges, Transfer, Acknowledge,
     ep1Vars
<1>3. Post'
  BY DEF IInv, Shape, Post, ClearChanges, msgVars
<1>4. Passes' /\ Serves'
  BY DEF IInv, Passes, Serves, ClearChanges, loopVars
<1>5. Signals'
  BY DEF IInv, Signals, PassPcs, ConfigurePcs, ClearChanges, Transfer, loopVars, ep1Vars,
     msgVars
<1>6. Mail'
  BY DEF IInv, Mail, Queued, ClearChanges, msgVars, clsVars
<1>7. Emptied'
  BY DEF IInv, Emptied, ClearChanges, loopVars
<1>8. Unconfigured'
  BY DEF IInv, Unconfigured, ConfigurePcs, ClearChanges, loopVars
<1>9. Ports'
  BY DEF IInv, Ports, Seen, Replaced, Follows, Changed, InStep, Busy, ConfigurePcs,
     ClearChanges, Acknowledge, loopVars
<1> QED BY <1>1, <1>2, <1>3, <1>4, <1>5, <1>6, <1>7, <1>8, <1>9 DEF IInv, Shape

LEMMA EnumeratedStep ==
  ASSUME IInv, Enumerated
  PROVE  IInv'
<1>1. TypeOK'
  BY NextPortGoes, PassesGo DEF IInv, Shape, TypeOK, Enumerated, Transfer, ep1Vars,
     msgVars, clsVars
<1>2. Kinds'
  BY NextPortGoes, PassesGo DEF IInv, Shape, TypeOK, Kinds, PassPcs, ConfigurePcs,
     LoopPcs, Enumerated, Transfer, ep1Vars
<1>3. Post'
  BY DEF IInv, Shape, Post, Enumerated, msgVars, clsVars
<1>4. Passes' /\ Serves'
  BY NextPortGoes, PassesGo DEF IInv, Shape, TypeOK, Passes, Serves, Enumerated
<1>5. Signals'
  BY NextPortGoes, PassesGo DEF IInv, Shape, TypeOK, Signals, PassPcs, ConfigurePcs,
     Enumerated, Transfer, ep1Vars, msgVars
<1>6. Mail'
  BY DEF IInv, Mail, Queued, Enumerated, msgVars, clsVars
<1>7. Emptied'
  BY NextPortGoes, PassesGo DEF IInv, Shape, TypeOK, Emptied, Passes, Enumerated
<1>8. Unconfigured'
  <2>1. pc \in ConfigurePcs /\ pass \in {"initial", "disable", "changes"} /\ num \in Port
    BY PassesGo DEF IInv, Shape, TypeOK, Passes, ConfigurePcs, Enumerated
  <2>2. pass' = pass /\ slot' \subseteq slot \cup {num} /\ slot \subseteq Port
    BY DEF IInv, Shape, TypeOK, Enumerated, workVars, ep1Vars, msgVars, countVars
  <2>3. NextPort
    BY DEF Enumerated
  <2>4. \A p \in Port : p \in Nat
    BY PortsAssumption DEF Port
  <2>5. /\ pc' \in {"configure", "bind", "disable", "scan", "status", "bottom"}
        /\ pc' = "configure" => pass = "initial" /\ num' = num + 1
    BY <2>1, <2>3, ConfigureGoesOn
  <2>6. ASSUME pc' = "configure", NEW p \in slot'
        PROVE  p < num'
    <3>1. p < num \/ p = num
      BY <2>1, <2>2, <2>5, <2>6 DEF IInv, Unconfigured
    <3> QED BY <2>1, <2>2, <2>4, <2>5, <2>6, <3>1
  <2>7. num' \in Nat
    BY <2>1, <2>3, <2>4, NextPortGoes, PassesGo
  <2>8. pc' = "configure" => num' \notin slot'
    BY <2>6, <2>7
  <2> QED BY <2>5, <2>6, <2>8 DEF Unconfigured, ConfigurePcs
<1>9. Ports'
  <2>1. pc \in ConfigurePcs /\ pass \in {"initial", "disable", "changes"} /\ num \in Port
    BY PassesGo DEF IInv, Shape, TypeOK, Passes, ConfigurePcs, Enumerated
  <2>2. NextPort /\ pass' = pass /\ hubGone' = hubGone /\ plug' = plug
    BY DEF Enumerated, workVars, ep1Vars, msgVars, countVars
  <2>3. SUFFICES ASSUME ~hubGone, pass # "teardown"
        PROVE  Seen' /\ Replaced' /\ Follows'
    BY <2>2 DEF Ports
  <2>4. Seen /\ Replaced /\ Follows
    BY <2>3 DEF IInv, Ports
  <2>5. Seen'
    BY <2>1, <2>2, ConfigureGoesOn DEF Seen
  <2>6. Replaced'
    BY <2>1, <2>2, <2>4, ConfigureGoesOn DEF IInv, Shape, Kinds, Replaced, ConfigurePcs,
       Enumerated, workVars, ep1Vars, msgVars, countVars
  <2>7. ASSUME NEW p \in Port, p # num, Busy(p)
        PROVE  Busy(p)'
    <3>1. pass = "initial" /\ p > num /\ p \in Nat /\ num \in Nat /\ p <= NumPorts
      BY <2>1, <2>7, PortsAssumption DEF Busy, Port
    <3>2. pc' = "configure" /\ num' = num + 1
      BY <2>1, <2>2, <3>1, ConfigureGoesOn
    <3> QED BY <2>2, <3>1, <3>2 DEF Busy, ConfigurePcs
  <2>8. ASSUME NEW p \in Port, p # num
        PROVE  Changed(p)' \/ InStep(p)' \/ Busy(p)'
    BY <2>2, <2>3, <2>4, <2>7, <2>8 DEF Follows, Changed, InStep, Enumerated, workVars,
       ep1Vars, msgVars, countVars
  <2>9. ASSUME NEW p \in Port, p = num
        PROVE  Changed(p)' \/ InStep(p)'
    <3>1. Changed(p) \/ InStep(p) \/ Busy(p)
      BY <2>4 DEF Follows
    <3>2. p \notin slot
      BY <2>1, <2>9 DEF IInv, Unconfigured
    <3>3. num \in Nat
      BY <2>1, PortsAssumption DEF Port
    <3>4. ~(p > num)
      BY <2>9, <3>3
    <3> QED BY <2>1, <2>2, <2>3, <2>9, <3>1, <3>2, <3>4
               DEF Changed, InStep, Busy, Enumerated, workVars, ep1Vars, msgVars,
               countVars
  <2> QED BY <2>1, <2>5, <2>6, <2>8, <2>9 DEF Follows
<1> QED BY <1>1, <1>2, <1>3, <1>4, <1>5, <1>6, <1>7, <1>8, <1>9 DEF IInv, Shape

LEMMA NotEnumeratedStep ==
  ASSUME IInv, NotEnumerated
  PROVE  IInv'
<1>1. TypeOK'
  BY TriesAssumption DEF IInv, Shape, TypeOK, Passes, NotEnumerated, TryAgain, workVars,
     ep1Vars, msgVars, clsVars, portVars
<1>2. Kinds'
  BY DEF IInv, Shape, Kinds, PassPcs, ConfigurePcs, NotEnumerated, Transfer, TryAgain,
     ep1Vars, portVars
<1>3. Post'
  BY DEF IInv, Shape, Post, NotEnumerated, TryAgain, msgVars
<1>4. Passes' /\ Serves'
  BY DEF IInv, Shape, TypeOK, Passes, Serves, NotEnumerated, TryAgain
<1>5. Signals'
  BY DEF IInv, Signals, PassPcs, ConfigurePcs, NotEnumerated, Transfer, TryAgain, ep1Vars,
     msgVars
<1>6. Mail'
  BY DEF IInv, Mail, Queued, NotEnumerated, TryAgain, msgVars, clsVars
<1>7. Emptied'
  BY DEF IInv, Emptied, NotEnumerated, TryAgain
<1>8. Unconfigured'
  BY DEF IInv, Unconfigured, ConfigurePcs, NotEnumerated, TryAgain
<1>9. Ports'
  BY DEF IInv, Ports, Seen, Replaced, Follows, Changed, InStep, Busy, ConfigurePcs,
     NotEnumerated, TryAgain, portVars
<1> QED BY <1>1, <1>2, <1>3, <1>4, <1>5, <1>6, <1>7, <1>8, <1>9 DEF IInv, Shape

LEMMA GiveUpStep ==
  ASSUME IInv, GiveUp
  PROVE  IInv'
<1>1. TypeOK'
  BY DEF IInv, Shape, TypeOK, GiveUp, PortOff, loopVars, workVars, ep1Vars, msgVars,
     clsVars
<1>2. Kinds'
  BY DEF IInv, Shape, TypeOK, Kinds, PassPcs, ConfigurePcs, GiveUp, Transfer, PortOff,
     ep1Vars
<1>3. Post'
  BY DEF IInv, Shape, Post, GiveUp, PortOff, msgVars
<1>4. Passes' /\ Serves'
  BY DEF IInv, Passes, Serves, GiveUp, PortOff, loopVars
<1>5. Signals'
  BY DEF IInv, Signals, PassPcs, ConfigurePcs, GiveUp, Transfer, PortOff, loopVars,
     ep1Vars, msgVars
<1>6. Mail'
  BY DEF IInv, Mail, Queued, GiveUp, PortOff, msgVars, clsVars
<1>7. Emptied'
  BY DEF IInv, Emptied, GiveUp, PortOff, loopVars
<1>8. Unconfigured'
  BY DEF IInv, Unconfigured, ConfigurePcs, GiveUp, PortOff, loopVars
<1>9. Ports'
  BY DEF IInv, Shape, TypeOK, Ports, Seen, Replaced, Follows, Changed, InStep, Busy,
     Unconfigured, ConfigurePcs, GiveUp, PortOff, loopVars
<1> QED BY <1>1, <1>2, <1>3, <1>4, <1>5, <1>6, <1>7, <1>8, <1>9 DEF IInv, Shape

LEMMA GivenUpStep ==
  ASSUME IInv, GivenUp
  PROVE  IInv'
<1>1. TypeOK'
  BY NextPortGoes, PassesGo DEF IInv, Shape, TypeOK, GivenUp, Acknowledge, workVars,
     ep1Vars, msgVars, clsVars
<1>2. Kinds'
  BY NextPortGoes, PassesGo DEF IInv, Shape, TypeOK, Kinds, PassPcs, ConfigurePcs,
     LoopPcs, GivenUp, Transfer, Acknowledge, ep1Vars
<1>3. Post'
  BY DEF IInv, Shape, Post, GivenUp, msgVars
<1>4. Passes' /\ Serves'
  BY NextPortGoes, PassesGo DEF IInv, Shape, TypeOK, Passes, Serves, GivenUp
<1>5. Signals'
  BY NextPortGoes, PassesGo DEF IInv, Shape, TypeOK, Signals, PassPcs, ConfigurePcs,
     GivenUp, Transfer, ep1Vars, msgVars
<1>6. Mail'
  <2>1. queue' = queue /\ serving' = serving /\ cls' = cls /\ answered' = answered
    BY DEF GivenUp, msgVars, clsVars
  <2> QED BY <2>1 DEF IInv, Mail, Queued
<1>7. Emptied'
  BY NextPortGoes, PassesGo DEF IInv, Shape, TypeOK, Emptied, Passes, GivenUp
<1>8. Unconfigured'
  <2>1. pc \in ConfigurePcs /\ pass \in {"initial", "disable", "changes"} /\ num \in Port
    BY PassesGo DEF IInv, Shape, TypeOK, Passes, ConfigurePcs, GivenUp
  <2>2. pass' = pass /\ slot' \subseteq slot \cup {num} /\ slot \subseteq Port
    BY DEF IInv, Shape, TypeOK, GivenUp, workVars, ep1Vars, msgVars, clsVars
  <2>3. NextPort
    BY DEF GivenUp
  <2>4. \A p \in Port : p \in Nat
    BY PortsAssumption DEF Port
  <2>5. /\ pc' \in {"configure", "bind", "disable", "scan", "status", "bottom"}
        /\ pc' = "configure" => pass = "initial" /\ num' = num + 1
    BY <2>1, <2>3, ConfigureGoesOn
  <2>6. ASSUME pc' = "configure", NEW p \in slot'
        PROVE  p < num'
    <3>1. p < num \/ p = num
      BY <2>1, <2>2, <2>5, <2>6 DEF IInv, Unconfigured
    <3> QED BY <2>1, <2>2, <2>4, <2>5, <2>6, <3>1
  <2>7. num' \in Nat
    BY <2>1, <2>3, <2>4, NextPortGoes, PassesGo
  <2>8. pc' = "configure" => num' \notin slot'
    BY <2>6, <2>7
  <2> QED BY <2>5, <2>6, <2>8 DEF Unconfigured, ConfigurePcs
<1>9. Ports'
  <2>1. pc \in ConfigurePcs /\ pass \in {"initial", "disable", "changes"} /\ num \in Port
    BY PassesGo DEF IInv, Shape, TypeOK, Passes, ConfigurePcs, GivenUp
  <2>2. NextPort /\ pass' = pass /\ hubGone' = hubGone /\ plug' = plug
    BY DEF GivenUp, workVars, ep1Vars, msgVars, clsVars
  <2>3. SUFFICES ASSUME ~hubGone, pass # "teardown"
        PROVE  Seen' /\ Replaced' /\ Follows'
    BY <2>2 DEF Ports
  <2>4. Seen /\ Replaced /\ Follows
    BY <2>3 DEF IInv, Ports
  <2>5. Seen'
    BY <2>1, <2>2, ConfigureGoesOn DEF Seen
  <2>6. Replaced'
    BY <2>1, <2>2, <2>4, ConfigureGoesOn DEF IInv, Shape, Kinds, Replaced, ConfigurePcs,
       Acknowledge, Error, Room, GivenUp, workVars, ep1Vars, msgVars, clsVars
  <2>7. ASSUME NEW p \in Port, p # num, Busy(p)
        PROVE  Busy(p)'
    <3>1. pass = "initial" /\ p > num /\ p \in Nat /\ num \in Nat /\ p <= NumPorts
      BY <2>1, <2>7, PortsAssumption DEF Busy, Port
    <3>2. pc' = "configure" /\ num' = num + 1
      BY <2>1, <2>2, <3>1, ConfigureGoesOn
    <3> QED BY <2>2, <3>1, <3>2 DEF Busy, ConfigurePcs
  <2>8. ASSUME NEW p \in Port, p # num
        PROVE  Changed(p)' \/ InStep(p)' \/ Busy(p)'
    BY <2>2, <2>3, <2>4, <2>7, <2>8 DEF Follows, Changed, InStep, Acknowledge, Error, Room,
       GivenUp, workVars, ep1Vars, msgVars, clsVars
  <2>9. ASSUME NEW p \in Port, p = num
        PROVE  Changed(p)' \/ InStep(p)'
    <3>1. Changed(p) \/ InStep(p) \/ Busy(p)
      BY <2>4 DEF Follows
    <3>2. p \notin slot
      BY <2>1, <2>9 DEF IInv, Unconfigured
    <3>3. num \in Nat
      BY <2>1, PortsAssumption DEF Port
    <3>4. ~(p > num)
      BY <2>9, <3>3
    <3> QED BY <2>1, <2>2, <2>3, <2>9, <3>1, <3>2, <3>4
               DEF Changed, InStep, Busy, Acknowledge, Error, Room, GivenUp, workVars, ep1Vars,
               msgVars, clsVars
  <2> QED BY <2>1, <2>5, <2>6, <2>8, <2>9 DEF Follows
<1> QED BY <1>1, <1>2, <1>3, <1>4, <1>5, <1>6, <1>7, <1>8, <1>9 DEF IInv, Shape

LEMMA NoChangesStep ==
  ASSUME IInv, NoChanges
  PROVE  IInv'
<1>1. TypeOK'
  BY DEF IInv, Shape, TypeOK, NoChanges, loopVars, workVars, ep1Vars, msgVars, clsVars,
     portVars
<1>2. Kinds'
  BY DEF IInv, Shape, Kinds, LoopPcs, NoChanges, ep1Vars, portVars
<1>3. Post'
  BY DEF IInv, Shape, Post, NoChanges, msgVars
<1>4. Passes' /\ Serves'
  BY DEF IInv, Passes, Serves, NoChanges, loopVars
<1>5. Signals'
  BY DEF IInv, Signals, PassPcs, ConfigurePcs, NoChanges, ep1Vars, msgVars
<1>6. Mail'
  BY DEF IInv, Mail, Queued, NoChanges, msgVars, clsVars
<1>7. Emptied'
  BY DEF IInv, Emptied, NoChanges, loopVars
<1>8. Unconfigured'
  BY DEF Unconfigured, ConfigurePcs, NoChanges
<1>9. Ports'
  BY DEF IInv, Ports, Seen, Replaced, Follows, Changed, InStep, Busy, ConfigurePcs,
     NoChanges, loopVars, portVars
<1> QED BY <1>1, <1>2, <1>3, <1>4, <1>5, <1>6, <1>7, <1>8, <1>9 DEF IInv, Shape

LEMMA ChangesFailedStep ==
  ASSUME IInv, ChangesFailed
  PROVE  IInv'
<1>1. TypeOK'
  BY DEF IInv, Shape, TypeOK, ChangesFailed, loopVars, workVars, msgVars, clsVars,
     portVars
<1>2. Kinds'
  BY DEF IInv, Shape, Kinds, LoopPcs, ChangesFailed, portVars
<1>3. Post'
  BY DEF IInv, Shape, Post, ChangesFailed, msgVars
<1>4. Passes' /\ Serves'
  BY DEF IInv, Passes, Serves, ChangesFailed, loopVars
<1>5. Signals'
  BY DEF IInv, Signals, ChangesFailed, msgVars
<1>6. Mail'
  BY DEF IInv, Mail, Queued, ChangesFailed, msgVars, clsVars
<1>7. Emptied'
  BY DEF IInv, Emptied, ChangesFailed, loopVars
<1>8. Unconfigured'
  BY DEF Unconfigured, ConfigurePcs, ChangesFailed
<1>9. Ports'
  BY DEF IInv, Ports, Seen, Replaced, Follows, Changed, InStep, Busy, ConfigurePcs,
     ChangesFailed, loopVars, portVars
<1> QED BY <1>1, <1>2, <1>3, <1>4, <1>5, <1>6, <1>7, <1>8, <1>9 DEF IInv, Shape

LEMMA ChangesReadStep ==
  ASSUME IInv, ChangesRead
  PROVE  IInv'
<1>1. TypeOK'
  BY PassesGo DEF IInv, Shape, TypeOK, ChangesRead, StartPass, workVars, msgVars, clsVars,
     portVars
<1>2. Kinds'
  BY PassesGo DEF IInv, Shape, Kinds, PassPcs, ChangesRead, StartPass, portVars
<1>3. Post'
  BY DEF IInv, Shape, Post, ChangesRead, StartPass, msgVars
<1>4. Passes' /\ Serves'
  BY PassesGo DEF Passes, Serves, ChangesRead, StartPass
<1>5. Signals'
  BY PassesGo DEF IInv, Signals, ChangesRead, StartPass, msgVars
<1>6. Mail'
  BY DEF IInv, Mail, Queued, ChangesRead, StartPass, msgVars, clsVars
<1>7. Emptied'
  BY PassesGo DEF Emptied, ChangesRead, StartPass
<1>8. Unconfigured'
  BY PassesGo DEF Unconfigured, ConfigurePcs, ChangesRead, StartPass
<1>9. Ports'
  BY PassesGo DEF IInv, Ports, Seen, Replaced, Follows, Changed, InStep, Busy, Passes,
     ConfigurePcs, ChangesRead, StartPass, portVars
<1> QED BY <1>1, <1>2, <1>3, <1>4, <1>5, <1>6, <1>7, <1>8, <1>9 DEF IInv, Shape

LEMMA HubLostStep ==
  ASSUME IInv, HubLost
  PROVE  IInv'
<1>1. TypeOK'
  BY PassesGo DEF IInv, Shape, TypeOK, HubLost, StartPass, workVars, msgVars, clsVars,
     portVars
<1>2. Kinds'
  BY PassesGo DEF IInv, Shape, Kinds, PassPcs, HubLost, StartPass, portVars
<1>3. Post'
  BY DEF IInv, Shape, Post, HubLost, StartPass, msgVars
<1>4. Passes' /\ Serves'
  BY PassesGo DEF Passes, Serves, HubLost, StartPass
<1>5. Signals'
  BY PassesGo DEF IInv, Signals, HubLost, StartPass, msgVars
<1>6. Mail'
  BY DEF IInv, Mail, Queued, HubLost, StartPass, msgVars, clsVars
<1>7. Emptied'
  BY PassesGo DEF Emptied, HubLost, StartPass
<1>8. Unconfigured'
  BY PassesGo DEF Unconfigured, ConfigurePcs, HubLost, StartPass
<1>9. Ports'
  BY PassesGo DEF IInv, Ports, Seen, Replaced, Follows, Changed, InStep, Busy, Passes,
     ConfigurePcs, HubLost, StartPass, portVars
<1> QED BY <1>1, <1>2, <1>3, <1>4, <1>5, <1>6, <1>7, <1>8, <1>9 DEF IInv, Shape

LEMMA NotChangedStep ==
  ASSUME IInv, NotChanged
  PROVE  IInv'
<1>1. TypeOK'
  BY NextPortGoes, PassesGo DEF IInv, Shape, TypeOK, NotChanged, workVars, ep1Vars,
     msgVars, clsVars, portVars
<1>2. Kinds'
  BY NextPortGoes, PassesGo DEF IInv, Shape, TypeOK, Kinds, PassPcs, ConfigurePcs,
     LoopPcs, NotChanged, ep1Vars, portVars
<1>3. Post'
  BY DEF IInv, Shape, Post, NotChanged, msgVars
<1>4. Passes' /\ Serves'
  BY NextPortGoes DEF IInv, Shape, TypeOK, Passes, Serves, NotChanged
<1>5. Signals'
  BY NextPortGoes, PassesGo DEF IInv, Shape, TypeOK, Signals, PassPcs, NotChanged,
     ep1Vars, msgVars
<1>6. Mail'
  BY DEF IInv, Mail, Queued, NotChanged, msgVars, clsVars
<1>7. Emptied'
  BY NextPortGoes DEF IInv, Shape, TypeOK, Emptied, Passes, NotChanged
<1>8. Unconfigured'
  BY NextPortGoes DEF IInv, Shape, TypeOK, Unconfigured, Passes, ConfigurePcs, NotChanged
<1>9. Ports'
  BY NextPortGoes, PassesGo DEF IInv, Shape, TypeOK, Ports, Seen, Replaced, Follows,
     Changed, InStep, Busy, ConfigurePcs, NotChanged, portVars
<1> QED BY <1>1, <1>2, <1>3, <1>4, <1>5, <1>6, <1>7, <1>8, <1>9 DEF IInv, Shape

LEMMA PortStatusStep ==
  ASSUME IInv, PortStatus
  PROVE  IInv'
<1>1. TypeOK'
  BY PortStatusReads DEF IInv, Shape, TypeOK, PortStatus, workVars, ep1Vars, msgVars,
     clsVars
<1>2. Kinds'
  BY PortStatusReads DEF IInv, Shape, TypeOK, Kinds, PassPcs, PortStatus, Transfer,
     ep1Vars
<1>3. Post'
  BY PortStatusReads DEF IInv, Shape, Post, PortStatus, msgVars
<1>4. Passes' /\ Serves'
  BY PortStatusReads DEF IInv, Passes, Serves, PortStatus
<1>5. Signals'
  BY PortStatusReads DEF IInv, Signals, PassPcs, PortStatus, Transfer, ep1Vars, msgVars
<1>6. Mail'
  BY PortStatusReads DEF IInv, Mail, Queued, PortStatus, msgVars, clsVars
<1>7. Emptied'
  BY PortStatusReads DEF IInv, Emptied, PortStatus
<1>8. Unconfigured'
  BY PortStatusReads DEF Unconfigured, ConfigurePcs, PortStatus
<1>9. Ports'
  BY PortStatusReads DEF IInv, Ports, Seen, Replaced, Follows, Changed, InStep, Busy,
     ConfigurePcs, PortStatus
<1> QED BY <1>1, <1>2, <1>3, <1>4, <1>5, <1>6, <1>7, <1>8, <1>9 DEF IInv, Shape

LEMMA PortAckStep ==
  ASSUME IInv, PortAck
  PROVE  IInv'
<1>1. TypeOK'
  BY DEF IInv, Shape, TypeOK, PortAck, Acknowledge, loopVars, workVars, ep1Vars, msgVars,
     clsVars
<1>2. Kinds'
  BY DEF IInv, Shape, TypeOK, Kinds, PassPcs, PortAck, Transfer, Acknowledge, ep1Vars
<1>3. Post'
  BY DEF IInv, Shape, Post, PortAck, msgVars
<1>4. Passes' /\ Serves'
  BY DEF IInv, Passes, Serves, PortAck, loopVars
<1>5. Signals'
  BY DEF IInv, Signals, PassPcs, PortAck, Transfer, loopVars, ep1Vars, msgVars
<1>6. Mail'
  BY DEF IInv, Mail, Queued, PortAck, msgVars, clsVars
<1>7. Emptied'
  BY DEF IInv, Emptied, PortAck, loopVars
<1>8. Unconfigured'
  BY DEF Unconfigured, ConfigurePcs, PortAck
<1>9. Ports'
  BY DEF IInv, Shape, TypeOK, Ports, Seen, Replaced, Follows, Changed, InStep, Busy,
     ConfigurePcs, PortAck, Acknowledge, loopVars
<1> QED BY <1>1, <1>2, <1>3, <1>4, <1>5, <1>6, <1>7, <1>8, <1>9 DEF IInv, Shape

LEMMA PortActStep ==
  ASSUME IInv, PortAct
  PROVE  IInv'
<1>1. TypeOK'
  BY NextPortGoes, PassesGo, PortActs DEF IInv, Shape, TypeOK, PortAct, StartFree,
     workVars, ep1Vars, msgVars, portVars
<1>2. Kinds'
  BY NextPortGoes, PassesGo, PortActs DEF IInv, Shape, TypeOK, Kinds, PassPcs,
     ConfigurePcs, LoopPcs, PortAct, StartFree, ep1Vars, portVars
<1>3. Post'
  BY PortActs DEF IInv, Shape, Post, PortAct, StartFree, msgVars
<1>4. Passes' /\ Serves'
  BY NextPortGoes, PortActs DEF IInv, Shape, TypeOK, Passes, Serves, PortAct, StartFree
<1>5. Signals'
  BY NextPortGoes, PassesGo, PortActs DEF IInv, Shape, TypeOK, Signals, PassPcs, PortAct,
     StartFree, ep1Vars, msgVars
<1>6. Mail'
  BY PortActs DEF IInv, Mail, Queued, PortAct, StartFree, msgVars
<1>7. Emptied'
  BY NextPortGoes, PortActs DEF IInv, Shape, TypeOK, Emptied, Passes, PortAct, StartFree
<1>8. Unconfigured'
  BY NextPortGoes, PortActs DEF IInv, Shape, TypeOK, Unconfigured, Passes, ConfigurePcs,
     PortAct, StartFree
<1>9. Ports'
  BY NextPortGoes, PassesGo, PortActs DEF IInv, Shape, TypeOK, Ports, Seen, Replaced,
     Follows, Changed, InStep, Busy, ConfigurePcs, PortAct, StartFree, portVars
<1> QED BY <1>1, <1>2, <1>3, <1>4, <1>5, <1>6, <1>7, <1>8, <1>9 DEF IInv, Shape

LEMMA StopStep ==
  ASSUME IInv, Stop
  PROVE  IInv'
<1>1. TypeOK'
  <2>1. num' \in Port /\ pass' \in DOMAIN PassBody /\ pc' = "teardown"
    BY PassesGo, PortsAssumption DEF Stop, StartPass, Port
  <2>2. armed' = FALSE /\ ep1' = "idle"
    BY DEF Stop
  <2> QED BY <2>1, <2>2 DEF IInv, Shape, TypeOK, Stop, workVars, msgVars, clsVars, portVars,
             countVars
<1>2. Kinds'
  BY PassesGo DEF IInv, Shape, Kinds, PassPcs, Stop, StartPass, portVars
<1>3. Post'
  BY DEF IInv, Shape, Post, Stop, StartPass, msgVars
<1>4. Passes' /\ Serves'
  BY PassesGo DEF Passes, Serves, ConfigurePcs, Stop, StartPass
<1>5. Signals'
  BY PassesGo DEF IInv, Signals, Stop, StartPass, msgVars
<1>6. Mail'
  BY DEF IInv, Mail, Queued, Stop, StartPass, msgVars, clsVars
<1>7. Emptied'
  BY PassesGo DEF IInv, Shape, TypeOK, Emptied, Stop, StartPass
<1>8. Unconfigured'
  BY PassesGo DEF Unconfigured, ConfigurePcs, Stop, StartPass
<1>9. Ports'
  BY DEF Ports, Seen, Replaced, Follows, Changed, InStep, Busy, Stop, StartPass
<1> QED BY <1>1, <1>2, <1>3, <1>4, <1>5, <1>6, <1>7, <1>8, <1>9 DEF IInv, Shape

LEMMA TeardownPortStep ==
  ASSUME IInv, TeardownPort
  PROVE  IInv'
<1>1. TypeOK'
  BY NextPortGoes, PassesGo DEF IInv, Shape, TypeOK, TeardownPort, StartFree, workVars,
     ep1Vars, msgVars, portVars
<1>2. Kinds'
  BY NextPortGoes, PassesGo DEF IInv, Shape, TypeOK, Kinds, PassPcs, ConfigurePcs,
     LoopPcs, TeardownPort, StartFree, ep1Vars, portVars
<1>3. Post'
  BY DEF IInv, Shape, Post, TeardownPort, StartFree, msgVars
<1>4. Passes' /\ Serves'
  BY NextPortGoes DEF IInv, Shape, TypeOK, Passes, Serves, ConfigurePcs, TeardownPort,
     StartFree
<1>5. Signals'
  BY NextPortGoes, PassesGo DEF IInv, Shape, TypeOK, Signals, PassPcs, TeardownPort,
     StartFree, ep1Vars, msgVars
<1>6. Mail'
  BY DEF IInv, Mail, Queued, TeardownPort, StartFree, msgVars
<1>7. Emptied'
  BY NextPortGoes, PassesGo DEF IInv, Shape, TypeOK, Emptied, TeardownPort, StartFree,
     Port
<1>8. Unconfigured'
  BY NextPortGoes DEF IInv, Shape, TypeOK, Unconfigured, Passes, ConfigurePcs,
     TeardownPort, StartFree
<1>9. Ports'
  BY DEF IInv, Ports, Seen, Replaced, Follows, Changed, InStep, Busy, Passes,
     TeardownPort, StartFree
<1> QED BY <1>1, <1>2, <1>3, <1>4, <1>5, <1>6, <1>7, <1>8, <1>9 DEF IInv, Shape

LEMMA ExitStep ==
  ASSUME IInv, Exit
  PROVE  IInv'
<1>1. TypeOK'
  BY DEF IInv, Shape, TypeOK, Exit, loopVars, workVars, ep1Vars, clsVars, portVars
<1>2. Kinds'
  BY DEF IInv, Shape, Kinds, LoopPcs, Exit, ep1Vars, portVars
<1>3. Post'
  BY DEF IInv, Shape, Post, Exit
<1>4. Passes' /\ Serves'
  BY DEF IInv, Passes, Serves, ConfigurePcs, Exit, loopVars
<1>5. Signals'
  BY DEF Signals, PassPcs, ConfigurePcs, Exit
<1>6. Mail'
  BY DEF IInv, Mail, Queued, Exit, clsVars
<1>7. Emptied'
  BY DEF IInv, Emptied, Exit
<1>8. Unconfigured'
  BY DEF Unconfigured, ConfigurePcs, Exit
<1>9. Ports'
  BY DEF IInv, Ports, Seen, Replaced, Follows, Changed, InStep, Busy, ConfigurePcs, Exit,
     loopVars, portVars
<1> QED BY <1>1, <1>2, <1>3, <1>4, <1>5, <1>6, <1>7, <1>8, <1>9 DEF IInv, Shape

LEMMA DisableRequestStep ==
  ASSUME NEW p \in Port, IInv, DisableRequest(p)
  PROVE  IInv'
<1>1. TypeOK'
  BY DEF IInv, Shape, TypeOK, DisableRequest, Call, loopVars, ep1Vars, msgVars, clsVars,
     portVars
<1>2. Kinds'
  BY DEF IInv, Shape, Kinds, DisableRequest, Call, ep1Vars, portVars
<1>3. Post'
  BY DEF IInv, Shape, Post, DisableRequest, Call, msgVars
<1>4. Passes' /\ Serves'
  BY DEF IInv, Passes, Serves, DisableRequest, Call, loopVars, msgVars
<1>5. Signals'
  BY DEF IInv, Signals, DisableRequest, Call, loopVars, ep1Vars, msgVars
<1>6. Mail'
  BY DEF IInv, Mail, Queued, DisableRequest, Call, msgVars, clsVars
<1>7. Emptied'
  BY DEF IInv, Emptied, DisableRequest, Call, loopVars
<1>8. Unconfigured'
  BY DEF IInv, Unconfigured, DisableRequest, Call, loopVars
<1>9. Ports'
  BY DEF IInv, Ports, Seen, Replaced, Follows, Changed, InStep, Busy, DisableRequest,
     Call, loopVars, portVars
<1> QED BY <1>1, <1>2, <1>3, <1>4, <1>5, <1>6, <1>7, <1>8, <1>9 DEF IInv, Shape

LEMMA ClassAsksStep ==
  ASSUME NEW p \in Port, IInv, ClassAsks(p)
  PROVE  IInv'
<1>1. TypeOK'
  BY DEF IInv, Shape, TypeOK, ClassAsks, Call, Send, loopVars, workVars, ep1Vars, portVars
<1>2. Kinds'
  BY DEF IInv, Shape, Kinds, ClassAsks, Call, Send, ep1Vars, portVars
<1>3. Post'
  <2>1. queue' = Append(queue, <<"reset", p>>) /\ <<"reset", p>> \in Msg
    BY DEF ClassAsks, Send, Msg
  <2> QED BY <2>1, Appended DEF IInv, Shape, Post, ClassAsks
<1>4. Passes' /\ Serves'
  BY DEF IInv, Passes, Serves, ClassAsks, Call, Send, loopVars
<1>5. Signals'
  BY DEF IInv, Signals, ClassAsks, Call, Send, loopVars, workVars, ep1Vars
<1>6. Mail'
  <2> DEFINE m == <<"reset", p>>
  <2>1. /\ Len(queue') = Len(queue) + 1 /\ Len(queue) \in Nat /\ queue'[Len(queue) + 1] = m
        /\ \A i \in 1..Len(queue) : queue'[i] = queue[i]
    <3>1. queue \in Seq(Msg) /\ m \in Msg /\ queue' = Append(queue, m)
      BY DEF IInv, Shape, Post, ClassAsks, Send, Msg
    <3>2. Len(queue) \in Nat
      BY <3>1
    <3> HIDE DEF m
    <3> QED BY <3>1, <3>2, Appended
  <2> HIDE DEF m
  <2>2. cls' = [cls EXCEPT ![p] = "waits"] /\ answered' = answered /\ serving' = serving /\ cls[p] = "run"
    BY DEF ClassAsks
  <2>3. Mail /\ cls \in [Port -> {"none", "run", "waits"}]
    BY DEF IInv, Shape, TypeOK
  <2>4. ~Queued(p) /\ serving # m /\ p \notin answered
    BY <2>2, <2>3 DEF Mail, m
  <2>5. ASSUME NEW i \in 1..Len(queue')
        PROVE  \/ i \in 1..Len(queue) /\ queue'[i] = queue[i]
               \/ i = Len(queue) + 1 /\ queue'[i] = m
    BY <2>1, <2>5
  <2>6. ASSUME NEW r \in Port, r # p, Queued(r)'
        PROVE  Queued(r)
    BY <2>5, <2>6 DEF Queued, m
  <2>7. ASSUME NEW i \in 1..Len(queue'), NEW j \in 1..Len(queue'), queue'[i] = queue'[j], queue'[i][1] = "reset"
        PROVE  i = j
    BY <2>3, <2>4, <2>5, <2>7 DEF Mail, Queued, m
  <2> QED BY <2>2, <2>3, <2>4, <2>6, <2>7 DEF Mail, m
<1>7. Emptied'
  BY DEF IInv, Emptied, ClassAsks, Call, Send, loopVars
<1>8. Unconfigured'
  BY DEF IInv, Unconfigured, ClassAsks, Call, Send, loopVars
<1>9. Ports'
  BY DEF IInv, Ports, Seen, Replaced, Follows, Changed, InStep, Busy, ClassAsks, Call,
     Send, loopVars, portVars
<1> QED BY <1>1, <1>2, <1>3, <1>4, <1>5, <1>6, <1>7, <1>8, <1>9 DEF IInv, Shape

LEMMA ClassAnsweredStep ==
  ASSUME NEW p \in Port, IInv, ClassAnswered(p)
  PROVE  IInv'
<1>1. TypeOK'
  BY DEF IInv, Shape, TypeOK, ClassAnswered, loopVars, workVars, ep1Vars, portVars
<1>2. Kinds'
  BY DEF IInv, Shape, Kinds, ClassAnswered, ep1Vars, portVars
<1>3. Post'
  BY DEF IInv, Shape, Post, ClassAnswered
<1>4. Passes' /\ Serves'
  BY DEF IInv, Passes, Serves, ClassAnswered, loopVars
<1>5. Signals'
  BY DEF IInv, Signals, ClassAnswered, loopVars, workVars, ep1Vars
<1>6. Mail'
  BY DEF IInv, Mail, Queued, ClassAnswered
<1>7. Emptied'
  BY DEF IInv, Emptied, ClassAnswered, loopVars
<1>8. Unconfigured'
  BY DEF IInv, Unconfigured, ClassAnswered, loopVars
<1>9. Ports'
  BY DEF IInv, Ports, Seen, Replaced, Follows, Changed, InStep, Busy, ClassAnswered,
     loopVars, portVars
<1> QED BY <1>1, <1>2, <1>3, <1>4, <1>5, <1>6, <1>7, <1>8, <1>9 DEF IInv, Shape

LEMMA TakeBackStep ==
  ASSUME NEW p \in Port, IInv, TakeBack(p)
  PROVE  IInv'
<1>1. TypeOK'
  BY DEF IInv, Shape, TypeOK, TakeBack, loopVars, workVars, ep1Vars, portVars
<1>2. Kinds'
  BY DEF IInv, Shape, Kinds, TakeBack, ep1Vars, portVars
<1>3. Post'
  <2>1. PICK i \in 1..Len(queue) : queue[i] = <<"reset", p>> /\ queue' = RemoveAt(queue, i)
    BY DEF IInv, Shape, Post, TakeBack
  <2>2. /\ queue' \in Seq(Msg) /\ Len(queue') = Len(queue) - 1
        /\ \A j \in 1..Len(queue') : queue'[j] = IF j < i THEN queue[j] ELSE queue[j + 1]
    BY <2>1, Removed DEF IInv, Shape, Post
  <2> QED BY <2>2 DEF IInv, Shape, Post, TakeBack
<1>4. Passes' /\ Serves'
  BY DEF IInv, Passes, Serves, TakeBack, loopVars
<1>5. Signals'
  <2>1. PICK i \in 1..Len(queue) : queue[i] = <<"reset", p>> /\ queue' = RemoveAt(queue, i)
    BY DEF IInv, Shape, Post, TakeBack
  <2>2. /\ queue' \in Seq(Msg) /\ Len(queue') = Len(queue) - 1
        /\ \A j \in 1..Len(queue') : queue'[j] = IF j < i THEN queue[j] ELSE queue[j + 1]
    BY <2>1, Removed DEF IInv, Shape, Post
  <2>3. queue # <<>>
    BY <2>1
  <2> QED BY <2>3 DEF IInv, Signals, PassPcs, ConfigurePcs, TakeBack, ep1Vars, workVars, loopVars
<1>6. Mail'
  <2>1. PICK i \in 1..Len(queue) : queue[i] = <<"reset", p>> /\ queue' = RemoveAt(queue, i)
    BY DEF IInv, Shape, Post, TakeBack
  <2>2. /\ queue' \in Seq(Msg) /\ Len(queue') = Len(queue) - 1
        /\ \A j \in 1..Len(queue') : queue'[j] = IF j < i THEN queue[j] ELSE queue[j + 1]
    BY <2>1, Removed DEF IInv, Shape, Post
  <2>3. Len(queue) \in Nat
    BY DEF IInv, Shape, Post
  <2>4. cls' = [cls EXCEPT ![p] = "run"] /\ answered' = answered /\ serving' = serving
    BY DEF TakeBack
  <2>5. Mail /\ cls \in [Port -> {"none", "run", "waits"}]
    BY DEF IInv, Shape, TypeOK
  <2>6. Queued(p)
    BY <2>1 DEF Queued
  <2>7. serving # <<"reset", p>> /\ p \notin answered
    BY <2>5, <2>6 DEF Mail
  <2> DEFINE was(j) == IF j < i THEN j ELSE j + 1
  <2>8. ASSUME NEW j \in 1..Len(queue')
        PROVE  was(j) \in 1..Len(queue) /\ was(j) # i /\ queue'[j] = queue[was(j)]
    BY <2>2, <2>3
  <2>9. ASSUME NEW j \in 1..Len(queue'), NEW k \in 1..Len(queue'), was(j) = was(k)
        PROVE  j = k
    BY <2>2, <2>3, <2>9
  <2> HIDE DEF was
  <2>10. ASSUME NEW r \in Port, Queued(r)'
         PROVE  Queued(r) /\ r # p
    <3>1. PICK j \in 1..Len(queue') : queue'[j] = <<"reset", r>>
      BY <2>10 DEF Queued
    <3>2. was(j) \in 1..Len(queue) /\ was(j) # i /\ queue[was(j)] = <<"reset", r>>
      BY <2>8, <3>1
    <3>3. queue[was(j)] # queue[i]
      BY <2>5, <3>2 DEF Mail
    <3> QED BY <2>1, <3>2, <3>3 DEF Queued
  <2>11. ASSUME NEW j \in 1..Len(queue'), NEW k \in 1..Len(queue'),
                queue'[j] = queue'[k], queue'[j][1] = "reset"
         PROVE  j = k
    <3>1. queue[was(j)] = queue[was(k)] /\ queue[was(j)][1] = "reset"
      BY <2>8, <2>11
    <3>2. was(j) = was(k)
      BY <2>5, <2>8, <3>1 DEF Mail
    <3> QED BY <2>9, <3>2
  <2> QED BY <2>4, <2>5, <2>7, <2>10, <2>11 DEF Mail
<1>7. Emptied'
  BY DEF IInv, Emptied, TakeBack, loopVars
<1>8. Unconfigured'
  BY DEF IInv, Unconfigured, TakeBack, loopVars
<1>9. Ports'
  BY DEF IInv, Ports, Seen, Replaced, Follows, Changed, InStep, Busy, TakeBack, loopVars,
     portVars
<1> QED BY <1>1, <1>2, <1>3, <1>4, <1>5, <1>6, <1>7, <1>8, <1>9 DEF IInv, Shape

LEMMA ClassEndsStep ==
  ASSUME NEW p \in Port, IInv, ClassEnds(p)
  PROVE  IInv'
<1>1. TypeOK'
  BY DEF IInv, Shape, TypeOK, ClassEnds, loopVars, workVars, ep1Vars, msgVars, portVars
<1>2. Kinds'
  BY DEF IInv, Shape, Kinds, ClassEnds, ep1Vars, portVars
<1>3. Post'
  BY DEF IInv, Shape, Post, ClassEnds, msgVars
<1>4. Passes' /\ Serves'
  BY DEF IInv, Passes, Serves, ClassEnds, loopVars, msgVars
<1>5. Signals'
  BY DEF IInv, Signals, ClassEnds, loopVars, workVars, ep1Vars, msgVars
<1>6. Mail'
  BY DEF IInv, Mail, Queued, ClassEnds, msgVars
<1>7. Emptied'
  BY DEF IInv, Emptied, ClassEnds, loopVars, msgVars
<1>8. Unconfigured'
  BY DEF IInv, Unconfigured, ClassEnds, loopVars
<1>9. Ports'
  BY DEF IInv, Ports, Seen, Replaced, Follows, Changed, InStep, Busy, ClassEnds, loopVars,
     portVars
<1> QED BY <1>1, <1>2, <1>3, <1>4, <1>5, <1>6, <1>7, <1>8, <1>9 DEF IInv, Shape

LEMMA PlugStep ==
  ASSUME NEW p \in Port, IInv, Plug(p)
  PROVE  IInv'
<1>1. TypeOK'
  BY DEF IInv, Shape, TypeOK, Plug, loopVars, workVars, ep1Vars, msgVars, clsVars
<1>2. Kinds'
  BY DEF IInv, Shape, Kinds, Plug, ep1Vars
<1>3. Post'
  BY DEF IInv, Shape, Post, Plug, msgVars
<1>4. Passes' /\ Serves'
  BY DEF IInv, Passes, Serves, Plug, loopVars, msgVars
<1>5. Signals'
  BY DEF IInv, Signals, Plug, loopVars, workVars, ep1Vars, msgVars
<1>6. Mail'
  BY DEF IInv, Mail, Queued, Plug, msgVars, clsVars
<1>7. Emptied'
  BY DEF IInv, Emptied, Plug, loopVars, msgVars
<1>8. Unconfigured'
  BY DEF IInv, Unconfigured, Plug, loopVars
<1>9. Ports'
  <2>1. /\ hubGone' = hubGone /\ pass' = pass /\ pc' = pc /\ num' = num /\ seen' = seen /\ slot' = slot
        /\ plug[p] = "empty" /\ plug' = [plug EXCEPT ![p] = "fresh"] /\ change' = change \cup {p}
        /\ off' = off \ {p} /\ missed' = missed \cup (slot \cap change \cap {p})
    BY DEF Plug, loopVars
  <2>2. SUFFICES ASSUME ~hubGone, pass # "teardown"
        PROVE  Seen' /\ Replaced' /\ Follows'
    BY <2>1 DEF Ports
  <2>3. Seen /\ Replaced /\ Follows
    BY <2>2 DEF IInv, Ports
  <2>4. plug \in [Port -> {"empty", "fresh", "enabled"}] /\ slot \subseteq Port /\ num \in Port
    BY DEF IInv, Shape, TypeOK
  <2>5. Seen'
    BY <2>1, <2>3, <2>4 DEF Seen, Changed
  <2>6. ASSUME NEW r \in Port
        PROVE  Changed(r)' \/ InStep(r)' \/ Busy(r)'
    BY <2>1, <2>3, <2>4 DEF Follows, Changed, InStep, Busy
  <2>7. ASSUME NEW r \in slot \ missed', plug'[r] = "fresh", r # p
        PROVE  num = r /\ (pc = "free" \/ (pc = "act" /\ seen = "gone"))
    BY <2>1, <2>3, <2>4, <2>7 DEF Replaced
  <2>8. ASSUME p \in slot, p \notin missed'
        PROVE  num = p /\ (pc = "free" \/ (pc = "act" /\ seen = "gone"))
    <3>1. Busy(p)
      BY <2>1, <2>3, <2>8 DEF Follows, Changed, InStep
    <3>2. ~(pass = "initial" /\ pc \in ConfigurePcs /\ p > num)
      <4>1. p \in Nat /\ num \in Nat
        BY <2>4, PortsAssumption DEF Port
      <4> QED BY <2>8, <4>1 DEF IInv, Unconfigured
    <3> QED BY <2>8, <3>1, <3>2 DEF IInv, Unconfigured, Busy, ConfigurePcs
  <2>9. Replaced'
    BY <2>1, <2>7, <2>8 DEF Replaced
  <2> QED BY <2>5, <2>6, <2>9 DEF Follows
<1> QED BY <1>1, <1>2, <1>3, <1>4, <1>5, <1>6, <1>7, <1>8, <1>9 DEF IInv, Shape

LEMMA UnplugStep ==
  ASSUME NEW p \in Port, IInv, Unplug(p)
  PROVE  IInv'
<1>1. TypeOK'
  BY DEF IInv, Shape, TypeOK, Unplug, loopVars, workVars, ep1Vars, msgVars, clsVars
<1>2. Kinds'
  BY DEF IInv, Shape, Kinds, Unplug, ep1Vars
<1>3. Post'
  BY DEF IInv, Shape, Post, Unplug, msgVars
<1>4. Passes' /\ Serves'
  BY DEF IInv, Passes, Serves, Unplug, loopVars, msgVars
<1>5. Signals'
  BY DEF IInv, Signals, Unplug, loopVars, workVars, ep1Vars, msgVars
<1>6. Mail'
  BY DEF IInv, Mail, Queued, Unplug, msgVars, clsVars
<1>7. Emptied'
  BY DEF IInv, Emptied, Unplug, loopVars, msgVars
<1>8. Unconfigured'
  BY DEF IInv, Unconfigured, Unplug, loopVars
<1>9. Ports'
  BY DEF IInv, Ports, Seen, Replaced, Follows, Changed, InStep, Busy, Unplug, loopVars
<1> QED BY <1>1, <1>2, <1>3, <1>4, <1>5, <1>6, <1>7, <1>8, <1>9 DEF IInv, Shape

LEMMA ScanRequestStep ==
  ASSUME IInv, ScanRequest
  PROVE  IInv'
<1>1. TypeOK'
  BY DEF IInv, Shape, TypeOK, ScanRequest, Call, loopVars, ep1Vars, msgVars, clsVars,
     portVars
<1>2. Kinds'
  BY DEF IInv, Shape, Kinds, ScanRequest, Call, ep1Vars, portVars
<1>3. Post'
  BY DEF IInv, Shape, Post, ScanRequest, Call, msgVars
<1>4. Passes' /\ Serves'
  BY DEF IInv, Passes, Serves, ScanRequest, Call, loopVars, msgVars
<1>5. Signals'
  BY DEF IInv, Signals, ScanRequest, Call, loopVars, ep1Vars, msgVars
<1>6. Mail'
  BY DEF IInv, Mail, Queued, ScanRequest, Call, msgVars, clsVars
<1>7. Emptied'
  BY DEF IInv, Emptied, ScanRequest, Call, loopVars
<1>8. Unconfigured'
  BY DEF IInv, Unconfigured, ScanRequest, Call, loopVars
<1>9. Ports'
  BY DEF IInv, Ports, Seen, Replaced, Follows, Changed, InStep, Busy, ScanRequest, Call,
     loopVars, portVars
<1> QED BY <1>1, <1>2, <1>3, <1>4, <1>5, <1>6, <1>7, <1>8, <1>9 DEF IInv, Shape

LEMMA SuspendRequestStep ==
  ASSUME IInv, SuspendRequest
  PROVE  IInv'
<1>1. TypeOK'
  BY DEF IInv, Shape, TypeOK, SuspendRequest, Call, Send, loopVars, workVars, ep1Vars,
     clsVars, portVars
<1>2. Kinds'
  BY DEF IInv, Shape, Kinds, SuspendRequest, Call, Send, ep1Vars, portVars
<1>3. Post'
  <2>1. PICK m \in Msg : queue' = Append(queue, m)
    BY DEF SuspendRequest, Send, Msg
  <2> QED BY <2>1, Appended DEF IInv, Shape, Post, SuspendRequest, Call
<1>4. Passes' /\ Serves'
  BY DEF IInv, Passes, Serves, SuspendRequest, Call, Send, loopVars
<1>5. Signals'
  BY DEF IInv, Signals, SuspendRequest, Call, Send, loopVars, workVars, ep1Vars
<1>6. Mail'
  <2>1. PICK m \in Msg : queue' = Append(queue, m) /\ m[1] # "reset"
    <3>1. PICK m \in {"suspend", "resume"} : Send(<<m, 0>>)
      BY DEF SuspendRequest
    <3>2. <<m, 0>> \in Msg /\ <<m, 0>>[1] # "reset"
      BY DEF Msg
    <3> QED BY <3>1, <3>2 DEF Send
  <2>2. /\ Len(queue') = Len(queue) + 1 /\ Len(queue) \in Nat /\ queue'[Len(queue) + 1] = m
        /\ \A i \in 1..Len(queue) : queue'[i] = queue[i]
    BY <2>1, Appended DEF IInv, Shape, Post
  <2>3. cls' = cls /\ answered' = answered /\ serving' = serving
    BY DEF SuspendRequest, clsVars
  <2>4. Mail
    BY DEF IInv
  <2>5. ASSUME NEW i \in 1..Len(queue'), queue'[i][1] = "reset"
        PROVE  i \in 1..Len(queue) /\ queue'[i] = queue[i]
    BY <2>1, <2>2, <2>5
  <2>6. ASSUME NEW p \in Port, Queued(p)'
        PROVE  Queued(p)
    BY <2>5, <2>6 DEF Queued
  <2>7. ASSUME NEW i \in 1..Len(queue'), NEW j \in 1..Len(queue'), queue'[i] = queue'[j], queue'[i][1] = "reset"
        PROVE  i = j
    BY <2>4, <2>5, <2>7 DEF Mail
  <2> QED BY <2>3, <2>4, <2>6, <2>7 DEF Mail
<1>7. Emptied'
  BY DEF IInv, Emptied, SuspendRequest, Call, Send, loopVars
<1>8. Unconfigured'
  BY DEF IInv, Unconfigured, SuspendRequest, Call, Send, loopVars
<1>9. Ports'
  BY DEF IInv, Ports, Seen, Replaced, Follows, Changed, InStep, Busy, SuspendRequest,
     Call, Send, loopVars, portVars
<1> QED BY <1>1, <1>2, <1>3, <1>4, <1>5, <1>6, <1>7, <1>8, <1>9 DEF IInv, Shape

LEMMA ReleaseHubStep ==
  ASSUME IInv, ReleaseHub
  PROVE  IInv'
<1>1. TypeOK'
  BY DEF IInv, Shape, TypeOK, ReleaseHub, Call, loopVars, workVars, ep1Vars, msgVars,
     clsVars, portVars
<1>2. Kinds'
  BY DEF IInv, Shape, Kinds, ReleaseHub, Call, ep1Vars, portVars
<1>3. Post'
  BY DEF IInv, Shape, Post, ReleaseHub, Call, msgVars
<1>4. Passes' /\ Serves'
  BY DEF IInv, Passes, Serves, ReleaseHub, Call, loopVars, msgVars
<1>5. Signals'
  BY DEF IInv, Signals, ReleaseHub, Call, loopVars, workVars, ep1Vars, msgVars
<1>6. Mail'
  BY DEF IInv, Mail, Queued, ReleaseHub, Call, msgVars, clsVars
<1>7. Emptied'
  BY DEF IInv, Emptied, ReleaseHub, Call, loopVars
<1>8. Unconfigured'
  BY DEF IInv, Unconfigured, ReleaseHub, Call, loopVars
<1>9. Ports'
  BY DEF IInv, Ports, Seen, Replaced, Follows, Changed, InStep, Busy, ReleaseHub, Call,
     loopVars, portVars
<1> QED BY <1>1, <1>2, <1>3, <1>4, <1>5, <1>6, <1>7, <1>8, <1>9 DEF IInv, Shape

LEMMA UnplugHubStep ==
  ASSUME IInv, UnplugHub
  PROVE  IInv'
<1>1. TypeOK'
  BY DEF IInv, Shape, TypeOK, UnplugHub, loopVars, workVars, ep1Vars, msgVars, clsVars
<1>2. Kinds'
  BY DEF IInv, Shape, Kinds, UnplugHub, ep1Vars
<1>3. Post'
  BY DEF IInv, Shape, Post, UnplugHub, msgVars
<1>4. Passes' /\ Serves'
  BY DEF IInv, Passes, Serves, UnplugHub, loopVars, msgVars
<1>5. Signals'
  BY DEF IInv, Signals, UnplugHub, loopVars, workVars, ep1Vars, msgVars
<1>6. Mail'
  BY DEF IInv, Mail, Queued, UnplugHub, msgVars, clsVars
<1>7. Emptied'
  BY DEF IInv, Emptied, UnplugHub, loopVars, msgVars
<1>8. Unconfigured'
  BY DEF IInv, Unconfigured, UnplugHub, loopVars
<1>9. Ports'
  BY DEF Ports, Seen, Replaced, Follows, Changed, InStep, Busy, UnplugHub
<1> QED BY <1>1, <1>2, <1>3, <1>4, <1>5, <1>6, <1>7, <1>8, <1>9 DEF IInv, Shape

LEMMA Ep1CompletesStep ==
  ASSUME IInv, Ep1Completes
  PROVE  IInv'
<1>1. TypeOK'
  BY DEF IInv, Shape, TypeOK, Ep1Completes, loopVars, workVars, msgVars, clsVars, portVars
<1>2. Kinds'
  BY DEF IInv, Shape, Kinds, Ep1Completes, portVars
<1>3. Post'
  BY DEF IInv, Shape, Post, Ep1Completes, msgVars
<1>4. Passes' /\ Serves'
  BY DEF IInv, Passes, Serves, Ep1Completes, loopVars, msgVars
<1>5. Signals'
  BY DEF IInv, Signals, Ep1Completes, loopVars, msgVars
<1>6. Mail'
  BY DEF IInv, Mail, Queued, Ep1Completes, msgVars, clsVars
<1>7. Emptied'
  BY DEF IInv, Emptied, Ep1Completes, loopVars, msgVars
<1>8. Unconfigured'
  BY DEF IInv, Unconfigured, Ep1Completes, loopVars
<1>9. Ports'
  BY DEF IInv, Ports, Seen, Replaced, Follows, Changed, InStep, Busy, Ep1Completes,
     loopVars, portVars
<1> QED BY <1>1, <1>2, <1>3, <1>4, <1>5, <1>6, <1>7, <1>8, <1>9 DEF IInv, Shape

-----------------------------------------------------------------------------
LEMMA InitIInv == Init => IInv
<1> SUFFICES ASSUME Init PROVE IInv
  OBVIOUS
<1>1. TypeOK
  BY PassesGo, PortsAssumption, TriesAssumption DEF Init, TypeOK, Port
<1>2. Kinds
  BY DEF Init, Kinds, PassPcs, ConfigurePcs
<1>3. Post
  BY DEF Init, Post
<1>4. Passes /\ Serves /\ Signals
  BY DEF Init, Passes, Serves, Signals, PassPcs, ConfigurePcs
<1>5. Mail
  BY DEF Init, Mail, Queued
<1>6. Emptied /\ Unconfigured
  BY DEF Init, Emptied, Unconfigured
<1>7. ASSUME NEW p \in Port
      PROVE  Busy(p)
  <2>1. p = 1 \/ p > 1
    BY PortsAssumption DEF Port
  <2> QED BY <2>1 DEF Init, Busy, ConfigurePcs
<1>8. Ports
  BY <1>7 DEF Init, Ports, Seen, Replaced, Follows
<1> QED BY <1>1, <1>2, <1>3, <1>4, <1>5, <1>6, <1>8 DEF IInv, Shape

LEMMA HubStepGoes == ASSUME IInv, HubStep PROVE IInv'
<1>1. CASE Methods
  BY <1>1, GetMethodStep, HubResetPortStep, HubResetFailsStep, HubResetDoneStep,
     AttemptSuspendStep, AttemptResumeStep, Zenon DEF Methods
<1>2. CASE Configure
  BY <1>2, NothingThereStep, NoStatusStep, SomethingThereStep, PortResetStep, ClearChangesStep,
     EnumeratedStep, NotEnumeratedStep, GiveUpStep, GivenUpStep, Zenon DEF Configure
<1>3. CASE Changes
  BY <1>3, NoChangesStep, ChangesFailedStep, ChangesReadStep, HubLostStep, NotChangedStep,
     PortStatusStep, PortAckStep, PortActStep, Zenon DEF Changes
<1>4. CASE Teardown
  BY <1>4, StopStep, TeardownPortStep, ExitStep, Zenon DEF Teardown
<1>5. CASE ~Methods /\ ~Configure /\ ~Changes /\ ~Teardown
  BY <1>5, InitialBindStep, LoopTopStep, WaitStep, MethodsDoneStep, ClassScanStep, LoopBottomStep,
     FreeDoneStep, DisableSkipStep, DisableTakeStep, DisablePortStep, PowerCycleStep, Zenon
     DEF HubStep
<1> QED BY <1>1, <1>2, <1>3, <1>4, <1>5, Zenon

LEMMA OthersGo == ASSUME IInv, Others PROVE IInv'
  BY DisableRequestStep, ClassAsksStep, ScanRequestStep, SuspendRequestStep, ReleaseHubStep, Zenon
     DEF Others

LEMMA WireGoes == ASSUME IInv, Wire PROVE IInv'
  BY PlugStep, UnplugStep, UnplugHubStep, Zenon DEF Wire

LEMMA ClassesGo ==
  ASSUME IInv, NEW p \in Port, ClassReturns(p) \/ ClassEnds(p)
  PROVE  IInv'
  BY ClassAnsweredStep, TakeBackStep, ClassEndsStep, Zenon DEF ClassReturns

LEMMA StutterIInv == IInv /\ UNCHANGED vars => IInv'
<1> SUFFICES ASSUME IInv, UNCHANGED vars PROVE IInv'
  OBVIOUS
<1> USE DEF vars, loopVars, workVars, ep1Vars, msgVars, clsVars, portVars
<1>1. Shape'
  BY DEF IInv, Shape, TypeOK, Kinds, Post
<1>2. Passes' /\ Serves' /\ Signals' /\ Emptied' /\ Unconfigured'
  BY DEF IInv, Passes, Serves, Signals, Emptied, Unconfigured
<1>3. Mail'
  BY DEF IInv, Mail, Queued
<1>4. Ports'
  BY DEF IInv, Ports, Seen, Replaced, Follows, Changed, InStep, Busy
<1> QED BY <1>1, <1>2, <1>3, <1>4 DEF IInv

LEMMA Invariant == Spec => []IInv
<1>1. IInv /\ [Next]_vars => IInv'
  BY HubStepGoes, OthersGo, WireGoes, Ep1CompletesStep, ClassesGo, StutterIInv, Zenon DEF Next
<1> QED BY InitIInv, <1>1, PTL DEF Spec

-----------------------------------------------------------------------------
\* The state has the shape TypeOK names: a class task exists with its device
\* only, a method is in work just while it is served, and EP1 counts as armed
\* exactly while its transfer is out or not collected (nHubTask).
THEOREM HubTypeCorrect == Spec => []TypeOK
<1>1. IInv => TypeOK
  BY DEF IInv, Shape
<1> QED BY Invariant, <1>1, PTL

\* Whatever transfers of its own eat the common signal, the hub task sleeps
\* over no method, no change report and no request in the flags (nHubTask's
\* look at nch_DisablePort and nch_ClassScan before Wait).
THEOREM NeverSleepsOverWork == Spec => []NoSleepOverWork
<1>1. IInv => NoSleepOverWork
  BY DEF IInv, Signals, NoSleepOverWork
<1> QED BY Invariant, <1>1, PTL

\* The hub task holds a message, or has answered it, only while the class task
\* on whose stack it lies waits for the answer (nHubMethodTakeBack, nFreeHub).
THEOREM AnswersReachCallers == Spec => []AnswerReachesCaller
<1>1. IInv => AnswerReachesCaller
  BY DEF IInv, Mail, AnswerReachesCaller
<1> QED BY Invariant, <1>1, PTL

\* Once the hub task has nothing left to do, each port's device is the one in
\* nch_Downstream, the ports whose change the code loses excepted
\* (nHandleHubPortChange, nConfigurePort, nClearPortStatus).
THEOREM SlotsAgree == Spec => []SlotsFollowPorts
<1>1. IInv => SlotsFollowPorts
  <2> SUFFICES ASSUME IInv, Idle, NEW p \in Port \ missed
      PROVE  InStep(p)
    BY DEF SlotsFollowPorts, InStep
  <2>1. pass # "teardown" /\ ~hubGone /\ p \notin change /\ pc = "wait"
    BY DEF IInv, Passes, Idle
  <2>2. Changed(p) \/ InStep(p) \/ Busy(p)
    BY <2>1 DEF IInv, Ports, Follows
  <2> QED BY <2>1, <2>2 DEF Changed, Busy, ConfigurePcs
<1> QED BY Invariant, <1>1, PTL

\* A hub task that has ended has freed the device of every port, with its class
\* task, and answered every message (nFreeHub, nHubTask's end).
THEOREM TaskLeavesNothing == Spec => []NothingLeft
<1>1. IInv => NothingLeft
  BY DEF IInv, Shape, TypeOK, Emptied, NothingLeft
<1> QED BY Invariant, <1>1, PTL

\* EP1 goes out again only after its last completion was collected, although a
\* method aborts it and another lets it start again (nch_IOStarted).
THEOREM EP1HasOneSubmitter == Spec => OneSubmitter
<1>1. IInv /\ [Next]_vars => (ep1' = "wire" => ep1 \in {"idle", "wire"})
  <2> SUFFICES ASSUME IInv, [Next]_vars, ep1' = "wire"
      PROVE  ep1 \in {"idle", "wire"}
    OBVIOUS
  <2>1. CASE LoopTop
    BY <2>1 DEF LoopTop, Arm, IInv, Shape, TypeOK
  <2>2. CASE AttemptSuspend \/ Ep1Completes \/ ChangesFailed \/ ChangesRead \/ HubLost \/ Stop
    BY <2>2 DEF AttemptSuspend, Ep1Completes, ChangesFailed, ChangesRead, HubLost, Stop
  <2>3. CASE UNCHANGED vars
    BY <2>3 DEF vars, ep1Vars
  <2>4. CASE \/ GetMethod \/ HubResetPort \/ HubResetFails \/ HubResetDone \/ AttemptResume
             \/ Configure
    BY <2>4 DEF GetMethod, HubResetPort, HubResetFails, HubResetDone, AttemptResume, Configure,
       NothingThere, NoStatus, SomethingThere, PortReset, ClearChanges, Enumerated, NotEnumerated,
       GiveUp, GivenUp, ep1Vars
  <2>5. CASE \/ NoChanges \/ NotChanged \/ PortStatus \/ PortAck \/ PortAct \/ TeardownPort \/ Exit
             \/ InitialBind \/ Wait \/ MethodsDone \/ ClassScan \/ LoopBottom \/ FreeDone
             \/ DisableSkip \/ DisableTake \/ DisablePort \/ PowerCycle
    BY <2>5 DEF NoChanges, NotChanged, PortStatus, PortAck, PortAct, TeardownPort, Exit,
       InitialBind, Wait, MethodsDone, ClassScan, LoopBottom, FreeDone, DisableSkip, DisableTake,
       DisablePort, PowerCycle, ep1Vars
  <2>6. CASE Others \/ Wire \/ \E p \in Port : ClassReturns(p) \/ ClassEnds(p)
    BY <2>6 DEF Others, DisableRequest, ClassAsks, ScanRequest, SuspendRequest, ReleaseHub, Wire,
       Plug, Unplug, UnplugHub, ClassReturns, ClassAnswered, TakeBack, ClassEnds, ep1Vars
  <2> QED BY <2>1, <2>2, <2>3, <2>4, <2>5, <2>6, Zenon DEF Next, HubStep, Methods, Changes, Teardown
<1> QED BY Invariant, <1>1, PTL DEF Spec, OneSubmitter
=============================================================================
