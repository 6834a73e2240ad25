---------------------------- MODULE DeviceIOProof ----------------------------
(***************************************************************************)
(* Proofs about DeviceIO: the counts of transfers are right, and a device  *)
(* is not left half suspended.  The first follows from where a transfer    *)
(* that was sent can be, the second from who is going to see to what a     *)
(* suspend, resume or wakeup has left to do.                               *)
(***************************************************************************)
EXTENDS DeviceIO, FiniteSetTheorems, SequenceTheorems, TLAPS

Pending  == {c \in Client : msg[c] = "pending"}
Counting == {c \in Client : pc[c] = "count"}
Message  == {"io", "abort"} \X Client

\* TypeOK, part by part.
TheKind == /\ mode \in {"direct", "quick", "relay"} /\ supports \subseteq Client
           /\ canWake \in BOOLEAN /\ listens \subseteq Client
Control == /\ pc \in [Task -> {"idle", "submit", "begin", "count", "wait", "ended", "uncount",
                               "aborting", "unpark", "ring", "bind", "release", "ask", "arm",
                               "quiesce", "park", "clear"}]
           /\ \A c \in Client : pc[c] \notin {"clear", "ask", "arm", "quiesce", "park", "uncount"}
           /\ back \subseteq Suspender /\ releaser \in [Client -> Task \cup {NoTask}]
Pipes   == /\ msg \in [Client -> {"free", "pending", "replied"}] /\ act \subseteq Client
           /\ wire \subseteq Client /\ late \subseteq Client /\ taken \in Client \cup {NoTask}
Counts  == busy \in Int /\ reg \in [Task -> Int] /\ torn \subseteq {"busy", "msgs"} /\ msgs \in Int
Queues  == /\ tasks \in Seq(Message) /\ replies \in Seq(Client)
Power   == /\ port \in {"on", "parked"} /\ seen \in {"on", "parked"} /\ running \subseteq Client
Flags   == stamp \in BOOLEAN /\ flag \in BOOLEAN /\ rings \in BOOLEAN /\ change \in BOOLEAN
           /\ lost \in BOOLEAN
Bounds  == sends \in 0..MaxSends /\ suspends \in 0..MaxSuspends /\ faults \in 0..MaxFaults
Shape   == TheKind /\ Control /\ Pipes /\ Counts /\ Queues /\ Power

\* A transfer that was not replied is at one place, and its sender waits.
SendersWait == \A c \in Client : msg[c] = "pending" => pc[c] \in {"count", "wait", "aborting", "ended"}
OnWire      == \A c \in wire : msg[c] = "pending"
InReplies   == /\ \A i \in 1..Len(replies) : msg[replies[i]] = "pending" /\ replies[i] \notin wire
               /\ \A i, j \in 1..Len(replies) : replies[i] = replies[j] => i = j
InTasks     ==
  /\ \A i, j \in 1..Len(tasks) : tasks[i] = tasks[j] => i = j
  /\ \A i \in 1..Len(tasks) :
       LET c == tasks[i][2] IN
       /\ tasks[i][1] = "io" => /\ msg[c] = "pending" /\ c \notin wire
                                /\ \A j \in 1..Len(replies) : replies[j] # c
       /\ tasks[i][1] = "abort" => pc[c] = "aborting"
NoRelay     == mode = "direct" => tasks = <<>> /\ replies = <<>>

\* It is completed by one task, which has it from no other place.
Completes(c) == c = taken \/ pc[c] = "ended"
InHand      ==
  /\ pc[Relay] \in {"idle", "ended", "uncount"} /\ (taken # NoTask <=> pc[Relay] = "ended")
  /\ \A c \in Client : Completes(c) =>
       /\ msg[c] = "pending" /\ c \notin wire
       /\ \A i \in 1..Len(replies) : replies[i] # c
       /\ \A i \in 1..Len(tasks) : tasks[i] # <<"io", c>>
  /\ \A c \in Client : c = taken => pc[c] # "ended"
Places      == SendersWait /\ OnWire /\ InReplies /\ InTasks /\ NoRelay

\* The activity of the device is counted for who has not been replied and does not
\* merely listen, until an update of the count overwrites another.
Active == act = Pending /\ ("busy" \notin torn => busy = Cardinality(act \ listens))

\* The relay's count, and what the controller has.
Relayed == mode # "direct" /\ "msgs" \notin torn =>
             msgs = Cardinality(wire) + Len(replies) + (IF pc[Relay] = "idle" THEN 0 ELSE 1)
                    - Cardinality(Counting)

\* A class's binding is being released by a task that waits for its end.
Releases == \A c \in Client : releaser[c] # NoTask => pc[releaser[c]] = "release"

\* The hub task reads a change before it acknowledges it, and the device can
\* only have come up since.
HubReads == /\ pc[Hub] \in {"idle", "clear", "ring", "bind", "release"}
            /\ pc[Hub] = "clear" => change /\ (seen = port \/ (seen = "parked" /\ port = "on"))

\* A flag that is not the port's state is going to be set right.
FlagFollows ==
  ~lost => /\ flag /\ port = "on" => change
           /\ ~flag /\ port = "parked" => \E s \in back : pc[s] = "unpark"

\* Rings and bindings that are down on a device that is not flagged have
\* somebody who is going to see to them.
RingsFollow ==
  ~lost /\ ~flag /\ mode = "direct" /\ ~rings =>
    \E t \in Task : pc[t] \in {"unpark", "ring", "park"}
BindingsFollow ==
  /\ Client \ supports \subseteq running
  /\ ~lost /\ ~flag /\ running # Client =>
       \E t \in Task : pc[t] \in {"unpark", "ring", "bind", "arm", "quiesce", "park"}

\* The bindings have agreed to a suspend that is not rolled back.
Agreed == \/ flag \/ port = "parked"
          \/ \E s \in Suspender : \/ pc[s] \in {"arm", "quiesce", "park"}
                                  \/ s \notin back /\ pc[s] \in {"unpark", "ring", "bind", "release"}

\* What is out then a suspend leaves out, or its class is being released.
LateOnly == ~lost /\ Agreed => \A c \in Pending : LeftOut(c) \/ releaser[c] # NoTask

IInv == /\ Shape /\ Places /\ InHand /\ Active /\ Relayed /\ Releases /\ HubReads /\ FlagFollows
        /\ RingsFollow /\ BindingsFollow /\ LateOnly

-----------------------------------------------------------------------------
\* The tasks differ, and there are finitely many clients.
LEMMA Apart == /\ Sweep # User /\ Sweep # Hub /\ User # Hub
               /\ Relay # Sweep /\ Relay # User /\ Relay # Hub
               /\ Sweep \notin Client /\ User \notin Client /\ Hub \notin Client
               /\ Relay \notin Client /\ NoTask \notin Client
               /\ NoTask \notin Task /\ IsFiniteSet(Client)
               /\ Suspender = {Sweep, User} /\ Task = Client \cup {Sweep, User, Hub, Relay}
<1>1. ASSUME NEW w, NEW x, NEW y, NEW z, {Sweep, User, Hub, Relay, NoTask} = {w, x, y, z}
      PROVE  FALSE
  <2>1. ASSUME NEW S, IsFiniteSet(S), NEW e
        PROVE  IsFiniteSet(S \cup {e}) /\ Cardinality(S \cup {e}) <= Cardinality(S) + 1
    <3>1. Cardinality(S) \in Nat
      BY <2>1, FS_CardinalityType
    <3> QED BY <2>1, <3>1, FS_AddElement
  <2> DEFINE A == {w} \cup {x}
             B == A \cup {y}
             C == B \cup {z}
  <2>2. IsFiniteSet(A) /\ Cardinality(A) <= 2
    <3> DEFINE W == {w}
    <3>1. IsFiniteSet(W) /\ Cardinality(W) = 1
      BY FS_Singleton
    <3>2. A = W \cup {x}
      OBVIOUS
    <3> HIDE DEF A, W
    <3> QED BY <2>1, <3>1, <3>2
  <2>3. IsFiniteSet(B) /\ Cardinality(B) <= Cardinality(A) + 1
    <3> HIDE DEF A
    <3> QED BY <2>1, <2>2
  <2>4. IsFiniteSet(C) /\ Cardinality(C) <= Cardinality(B) + 1
    <3> HIDE DEF A, B
    <3> QED BY <2>1, <2>3
  <2>5. C = {Sweep, User, Hub, Relay, NoTask}
    BY <1>1
  <2>6. Cardinality(C) = 5
    BY <2>5, TaskAssumption
  <2>7. Cardinality(A) \in Nat /\ Cardinality(B) \in Nat /\ Cardinality(C) \in Nat
    <3> HIDE DEF A, B, C
    <3> QED BY <2>2, <2>3, <2>4, FS_CardinalityType
  <2> HIDE DEF A, B, C
  <2> QED BY <2>2, <2>3, <2>4, <2>6, <2>7
<1>2. Sweep # User
  <2>1. Sweep = User => {Sweep, User, Hub, Relay, NoTask} = {User, Hub, Relay, NoTask}
    OBVIOUS
  <2> QED BY <1>1, <2>1
<1>3. Sweep # Hub
  <2>1. Sweep = Hub => {Sweep, User, Hub, Relay, NoTask} = {User, Hub, Relay, NoTask}
    OBVIOUS
  <2> QED BY <1>1, <2>1
<1>4. Sweep # Relay
  <2>1. Sweep = Relay => {Sweep, User, Hub, Relay, NoTask} = {User, Hub, Relay, NoTask}
    OBVIOUS
  <2> QED BY <1>1, <2>1
<1>5. Sweep # NoTask
  <2>1. Sweep = NoTask => {Sweep, User, Hub, Relay, NoTask} = {User, Hub, Relay, NoTask}
    OBVIOUS
  <2> QED BY <1>1, <2>1
<1>6. User # Hub
  <2>1. User = Hub => {Sweep, User, Hub, Relay, NoTask} = {Sweep, Hub, Relay, NoTask}
    OBVIOUS
  <2> QED BY <1>1, <2>1
<1>7. User # Relay
  <2>1. User = Relay => {Sweep, User, Hub, Relay, NoTask} = {Sweep, Hub, Relay, NoTask}
    OBVIOUS
  <2> QED BY <1>1, <2>1
<1>8. User # NoTask
  <2>1. User = NoTask => {Sweep, User, Hub, Relay, NoTask} = {Sweep, Hub, Relay, NoTask}
    OBVIOUS
  <2> QED BY <1>1, <2>1
<1>9. Hub # Relay
  <2>1. Hub = Relay => {Sweep, User, Hub, Relay, NoTask} = {Sweep, User, Relay, NoTask}
    OBVIOUS
  <2> QED BY <1>1, <2>1
<1>10. Hub # NoTask
  <2>1. Hub = NoTask => {Sweep, User, Hub, Relay, NoTask} = {Sweep, User, Relay, NoTask}
    OBVIOUS
  <2> QED BY <1>1, <2>1
<1>11. Relay # NoTask
  <2>1. Relay = NoTask => {Sweep, User, Hub, Relay, NoTask} = {Sweep, User, Hub, NoTask}
    OBVIOUS
  <2> QED BY <1>1, <2>1
<1> QED BY <1>2, <1>3, <1>4, <1>5, <1>6, <1>7, <1>8, <1>9, <1>10, <1>11, TaskAssumption
       DEF Task, Suspender

\* Sets of clients.
LEMMA Sizes ==
  ASSUME NEW S, S \subseteq Client
  PROVE  /\ Cardinality(S) \in Nat /\ (Cardinality(S) = 0 <=> S = {})
         /\ \A c \in Client : c \notin S => Cardinality(S \cup {c}) = Cardinality(S) + 1
         /\ \A c \in S : Cardinality(S \ {c}) = Cardinality(S) - 1
<1>1. IsFiniteSet(S)
  BY Apart, FS_Subset
<1> QED BY <1>1, FS_CardinalityType, FS_EmptySet, FS_AddElement, FS_RemoveElement

\* One transfer more, and one less, that is not replied.
LEMMA Begun ==
  ASSUME Pipes, Counts, Active, NEW c \in Client, msg[c] # "pending",
         msg' = [msg EXCEPT ![c] = "pending"], ActivityBegin(c), listens' = listens
  PROVE  /\ Active' /\ act' \subseteq Client /\ busy' \in Int
         /\ torn \subseteq torn' /\ torn' \subseteq torn \cup {"busy"}
<1>1. Pending' = Pending \cup {c} /\ c \notin act /\ act' = Pending' /\ act' = act \cup {c}
  BY DEF Pipes, Active, Pending, ActivityBegin
<1>2. /\ busy' = reg[c] + Weight(c) /\ torn' = (IF busy = reg[c] THEN torn ELSE torn \cup {"busy"})
      /\ busy \in Int /\ reg[c] \in Int
  BY DEF ActivityBegin, WriteBusy, Counts, Task
<1>3. Cardinality(act' \ listens') = Cardinality(act \ listens) + Weight(c)
  <2>1. act \ listens \subseteq Client /\ c \notin act \ listens
    BY <1>1 DEF Pipes
  <2>2. CASE c \in listens
    <3>1. act' \ listens' = act \ listens
      BY <1>1, <2>2
    <3>2. Cardinality(act \ listens) \in Nat
      BY <2>1, Sizes
    <3> QED BY <2>2, <3>1, <3>2 DEF Weight
  <2>3. CASE c \notin listens
    <3>1. act' \ listens' = (act \ listens) \cup {c}
      BY <1>1, <2>3
    <3> QED BY <2>1, <2>3, <3>1, Sizes DEF Weight
  <2> QED BY <2>2, <2>3
<1>4. "busy" \notin torn' => busy' = Cardinality(act' \ listens')
  BY <1>2, <1>3 DEF Active
<1>5. busy' \in Int
  BY <1>2 DEF Weight
<1> QED BY <1>1, <1>2, <1>4, <1>5 DEF Active, Pipes

LEMMA Completed ==
  ASSUME Pipes, Counts, Active, NEW t \in Task, NEW c \in Client, msg[c] = "pending",
         CompletePipe(t, c), listens' = listens
  PROVE  /\ Active' /\ act' \subseteq Client /\ busy' \in Int
         /\ torn \subseteq torn' /\ torn' \subseteq torn \cup {"busy"}
<1>1. Pending' = Pending \ {c} /\ c \in act /\ act' = Pending' /\ act' = act \ {c}
  BY DEF Pipes, Active, Pending, CompletePipe
<1>2. /\ busy' = reg[t] + -Weight(c)
      /\ torn' = (IF busy = reg[t] THEN torn ELSE torn \cup {"busy"})
      /\ busy \in Int /\ reg[t] \in Int
  BY <1>1 DEF CompletePipe, WriteBusy, Counts
<1>3. Cardinality(act' \ listens') = Cardinality(act \ listens) - Weight(c)
  <2>1. act \ listens \subseteq Client /\ Cardinality(act \ listens) \in Nat
    BY Sizes DEF Pipes
  <2>2. CASE c \in listens
    <3>1. act' \ listens' = act \ listens
      BY <1>1, <2>2
    <3> QED BY <2>1, <2>2, <3>1 DEF Weight
  <2>3. CASE c \notin listens
    <3>1. act' \ listens' = (act \ listens) \ {c} /\ c \in act \ listens
      BY <1>1, <2>3
    <3> QED BY <2>1, <2>3, <3>1, Sizes DEF Weight
  <2> QED BY <2>2, <2>3
<1>w. Weight(c) \in {0, 1}
  BY DEF Weight
<1>4. "busy" \notin torn' => busy' = Cardinality(act' \ listens')
  <2>1. Cardinality(act \ listens) \in Nat
    BY Sizes DEF Pipes
  <2> QED BY <1>2, <1>3, <1>w, <2>1 DEF Active
<1>5. busy' \in Int
  BY <1>2, <1>w
<1> QED BY <1>1, <1>2, <1>4, <1>5 DEF Active, Pipes

\* The relay's two ports.
LEMMA Appended ==
  ASSUME NEW S, NEW s \in Seq(S), NEW m \in S
  PROVE  /\ Append(s, m) \in Seq(S) /\ Append(s, m) # <<>> /\ Len(Append(s, m)) = Len(s) + 1
         /\ Len(s) \in Nat
         /\ \A i \in 1..Len(s) : Append(s, m)[i] = s[i]
         /\ Append(s, m)[Len(s) + 1] = m
  BY AppendProperties

LEMMA Taken ==
  ASSUME NEW S, NEW s \in Seq(S), s # <<>>
  PROVE  /\ Tail(s) \in Seq(S) /\ Len(Tail(s)) = Len(s) - 1 /\ Len(s) \in Nat \ {0}
         /\ Head(s) = s[1] /\ s[1] \in S /\ 1 \in 1..Len(s)
         /\ \A i \in 1..Len(Tail(s)) : Tail(s)[i] = s[i + 1]
  BY HeadTailProperties

LEMMA TaskAppended ==
  ASSUME Queues, NEW m \in Message
  PROVE  /\ Append(tasks, m) \in Seq(Message) /\ Append(tasks, m) # <<>> /\ Len(tasks) \in Nat
         /\ Len(Append(tasks, m)) = Len(tasks) + 1 /\ Append(tasks, m)[Len(tasks) + 1] = m
         /\ \A i \in 1..Len(tasks) : Append(tasks, m)[i] = tasks[i]
<1>1. tasks \in Seq(Message)
  BY DEF Queues
<1> QED BY <1>1, Appended

LEMMA ReplyAppended ==
  ASSUME Queues, NEW c \in Client
  PROVE  /\ Append(replies, c) \in Seq(Client) /\ Append(replies, c) # <<>> /\ Len(replies) \in Nat
         /\ Len(Append(replies, c)) = Len(replies) + 1 /\ Append(replies, c)[Len(replies) + 1] = c
         /\ \A i \in 1..Len(replies) : Append(replies, c)[i] = replies[i]
<1>1. replies \in Seq(Client)
  BY DEF Queues
<1> QED BY <1>1, Appended

LEMMA TaskTaken ==
  ASSUME Queues, tasks # <<>>
  PROVE  /\ Tail(tasks) \in Seq(Message) /\ Len(Tail(tasks)) = Len(tasks) - 1
         /\ Len(tasks) \in Nat \ {0} /\ 1 \in 1..Len(tasks)
         /\ \A i \in 1..Len(Tail(tasks)) : Tail(tasks)[i] = tasks[i + 1]
<1>1. tasks \in Seq(Message)
  BY DEF Queues
<1> QED BY <1>1, Taken

LEMMA ReplyTaken ==
  ASSUME Queues, replies # <<>>
  PROVE  /\ Tail(replies) \in Seq(Client) /\ Len(Tail(replies)) = Len(replies) - 1
         /\ Len(replies) \in Nat \ {0} /\ 1 \in 1..Len(replies)
         /\ \A i \in 1..Len(Tail(replies)) : Tail(replies)[i] = replies[i + 1]
<1>1. replies \in Seq(Client)
  BY DEF Queues
<1> QED BY <1>1, Taken

LEMMA Messages == /\ \A c \in Client : <<"io", c>> \in Message /\ <<"abort", c>> \in Message
                  /\ \A m \in Message : m[1] \in {"io", "abort"} /\ m[2] \in Client /\ m = <<m[1], m[2]>>
                  /\ \A c \in Client, k \in {"io", "abort"} : <<k, c>>[1] = k /\ <<k, c>>[2] = c
  BY DEF Message

\* Nothing that goes on in the device's power state moves a transfer.
LEMMA PlacesKept ==
  ASSUME Queues, Places, mode' = mode, msg' = msg, tasks' = tasks, wire' = wire, replies' = replies,
         \A x \in Client : pc[x] \in {"count", "wait", "aborting", "ended"} => pc'[x] = pc[x]
  PROVE  Places'
<1>1. \A i \in 1..Len(tasks) : tasks[i][2] \in Client
  BY Messages DEF Queues
<1>2. ASSUME NEW i \in 1..Len(tasks)
      PROVE  /\ tasks[i][1] = "io" => /\ msg[tasks[i][2]] = "pending" /\ tasks[i][2] \notin wire
                                      /\ \A j \in 1..Len(replies) : replies[j] # tasks[i][2]
             /\ tasks[i][1] = "abort" => pc'[tasks[i][2]] = "aborting"
  BY <1>1 DEF Places, SendersWait, OnWire, InReplies, InTasks, NoRelay
<1>3. \A c \in Client : msg[c] = "pending" => pc'[c] \in {"count", "wait", "aborting", "ended"}
  BY DEF Places, SendersWait, OnWire, InReplies, InTasks, NoRelay
<1>4. /\ \A c \in wire : msg[c] = "pending"
      /\ \A i \in 1..Len(replies) : msg[replies[i]] = "pending" /\ replies[i] \notin wire
      /\ \A i, j \in 1..Len(replies) : replies[i] = replies[j] => i = j
      /\ \A i, j \in 1..Len(tasks) : tasks[i] = tasks[j] => i = j
      /\ mode = "direct" => tasks = <<>> /\ replies = <<>>
  BY DEF Places, SendersWait, OnWire, InReplies, InTasks, NoRelay
<1> QED BY <1>2, <1>3, <1>4 DEF Places, SendersWait, OnWire, InReplies, InTasks, NoRelay

LEMMA HandKept ==
  ASSUME InHand, msg' = msg, tasks' = tasks, wire' = wire, replies' = replies, taken' = taken,
         pc'[Relay] = pc[Relay], \A x \in Client : pc'[x] = "ended" => pc[x] = "ended"
  PROVE  InHand'
  BY DEF InHand, Completes

\* What a call of pSubmitPipe, an abort and the relay do.
LEMMA Submits ==
  ASSUME NEW c \in Client, Submit(c)
  PROVE  /\ \/ mode # "relay" /\ pc' = [pc EXCEPT ![c] = "ended"] /\ tasks' = tasks /\ wire' = wire
            \/ /\ mode = "relay" /\ pc' = [pc EXCEPT ![c] = "wait"]
               /\ tasks' = Append(tasks, <<"io", c>>) /\ wire' = wire
            \/ /\ mode # "relay" /\ tasks' = tasks /\ wire' = wire \cup {c}
               /\ pc' = [pc EXCEPT ![c] = IF mode = "quick" THEN "count" ELSE "wait"]
         /\ msg' = [msg EXCEPT ![c] = "pending"] /\ ActivityBegin(c)
         /\ \/ reg' = [reg EXCEPT ![c] = busy']
            \/ reg' = [reg EXCEPT ![c] = 0]
         /\ pc[c] = "begin" /\ late' = (IF Parking THEN late \cup {c} ELSE late)
         /\ replies' = replies /\ msgs' = msgs /\ taken' = taken
         /\ mode' = mode /\ supports' = supports /\ canWake' = canWake /\ listens' = listens
         /\ back' = back /\ flag' = flag /\ rings' = rings /\ port' = port
         /\ change' = change /\ seen' = seen /\ running' = running /\ releaser' = releaser
         /\ lost' = lost
<1>1. /\ pc[c] = "begin" /\ late' = (IF Parking THEN late \cup {c} ELSE late)
      /\ msg' = [msg EXCEPT ![c] = "pending"] /\ ActivityBegin(c)
      /\ UNCHANGED <<kinds, back, taken, replies, msgs, powVars>>
  BY DEF Submit
<1>2. CASE /\ mode # "relay" /\ reg' = [reg EXCEPT ![c] = busy'] /\ Goto(c, "ended")
           /\ UNCHANGED <<tasks, wire>>
  BY <1>1, <1>2 DEF Goto, kinds, powVars
<1>3. CASE /\ reg' = [reg EXCEPT ![c] = 0]
           /\ IF mode = "relay" THEN tasks' = Append(tasks, <<"io", c>>) /\ UNCHANGED wire
                                ELSE wire' = wire \cup {c} /\ UNCHANGED tasks
           /\ Goto(c, IF mode = "quick" THEN "count" ELSE "wait")
  <2>1. CASE mode = "relay"
    BY <1>1, <1>3, <2>1 DEF Goto, kinds, powVars
  <2>2. CASE mode # "relay"
    BY <1>1, <1>3, <2>2 DEF Goto, kinds, powVars
  <2> QED BY <2>1, <2>2
<1> QED BY <1>2, <1>3, Zenon DEF Submit

LEMMA Aborts ==
  ASSUME NEW c \in Client, AbortPipe(c)
  PROVE  /\ \/ /\ mode = "direct" /\ c \in wire /\ wire' = wire \ {c} /\ tasks' = tasks
               /\ pc' = [pc EXCEPT ![c] = "ended"] /\ reg' = [reg EXCEPT ![c] = busy]
            \/ /\ mode # "direct" /\ tasks' = Append(tasks, <<"abort", c>>) /\ wire' = wire
               /\ pc' = [pc EXCEPT ![c] = "aborting"] /\ reg' = reg
         /\ pc[c] = "wait" /\ msg[c] = "pending" /\ late' = late
         /\ msg' = msg /\ act' = act /\ busy' = busy /\ torn' = torn
         /\ replies' = replies /\ msgs' = msgs /\ taken' = taken
         /\ mode' = mode /\ supports' = supports /\ canWake' = canWake /\ listens' = listens
         /\ back' = back /\ flag' = flag /\ rings' = rings /\ port' = port
         /\ change' = change /\ seen' = seen /\ running' = running /\ releaser' = releaser
         /\ lost' = lost
<1>1. /\ pc[c] = "wait" /\ msg[c] = "pending" /\ late' = late
      /\ UNCHANGED <<kinds, back, msg, act, taken, replies, msgs, powVars>>
  BY DEF AbortPipe
<1>2. CASE mode = "direct"
  BY <1>1, <1>2 DEF AbortPipe, ReadBusy, Goto, kinds, powVars
<1>3. CASE mode # "direct"
  BY <1>1, <1>3 DEF AbortPipe, Goto, kinds, powVars, countVars
<1> QED BY <1>2, <1>3

TakesFor(c) ==
  /\ \/ /\ tasks[1] = <<"io", c>> /\ msg[c] = "pending" /\ c \notin wire
        /\ \A j \in 1..Len(replies) : replies[j] # c
        /\ wire' = wire \cup {c} /\ msgs' = msgs + 1 /\ replies' = replies /\ pc' = pc
     \/ /\ tasks[1] = <<"abort", c>> /\ pc[c] = "aborting"
        /\ wire' = wire \ {c} /\ msgs' = msgs /\ pc' = [pc EXCEPT ![c] = "wait"]
        /\ replies' = IF c \in wire THEN Append(replies, c) ELSE replies
  /\ tasks # <<>> /\ tasks' = Tail(tasks) /\ mode # "direct" /\ pc[Relay] = "idle"
  /\ msg' = msg /\ act' = act /\ taken' = taken /\ late' = late
  /\ busy' = busy /\ reg' = reg /\ torn' = torn
  /\ mode' = mode /\ supports' = supports /\ canWake' = canWake /\ listens' = listens
  /\ back' = back /\ flag' = flag /\ rings' = rings /\ port' = port
  /\ change' = change /\ seen' = seen /\ running' = running /\ releaser' = releaser
  /\ lost' = lost

LEMMA RelayTakes ==
  ASSUME IInv, RelayTake
  PROVE  \E c \in Client : TakesFor(c)
<1> USE DEF TakesFor
<1>1. /\ tasks # <<>> /\ tasks' = Tail(tasks) /\ pc[Relay] = "idle"
      /\ UNCHANGED <<kinds, back, msg, act, taken, late, powVars, actVars>>
  BY DEF RelayTake
<1>2. Head(tasks) = tasks[1] /\ tasks[1] \in Message /\ 1 \in 1..Len(tasks)
  BY <1>1, Taken DEF IInv, Shape, Queues
<1>3. PICK k \in {"io", "abort"}, c \in Client : tasks[1] = <<k, c>>
  BY <1>2 DEF Message
<1>4. mode # "direct"
  BY <1>1 DEF IInv, Places, SendersWait, OnWire, InReplies, InTasks, NoRelay
<1>5. CASE k = "io"
  <2>1. wire' = wire \cup {c} /\ msgs' = msgs + 1 /\ replies' = replies /\ pc' = pc
    BY <1>2, <1>3, <1>5 DEF RelayTake
  <2>2. msg[c] = "pending" /\ c \notin wire /\ \A j \in 1..Len(replies) : replies[j] # c
    BY <1>2, <1>3, <1>5 DEF IInv, Places, SendersWait, OnWire, InReplies, InTasks, NoRelay
  <2> QED BY <1>1, <1>3, <1>4, <1>5, <2>1, <2>2 DEF kinds, powVars, actVars, countVars
<1>6. CASE k = "abort"
  <2>1. /\ wire' = wire \ {c} /\ msgs' = msgs /\ pc' = [pc EXCEPT ![c] = "wait"]
        /\ replies' = IF c \in wire THEN Append(replies, c) ELSE replies
    BY <1>2, <1>3, <1>6 DEF RelayTake, Goto
  <2>2. pc[c] = "aborting"
    BY <1>2, <1>3, <1>6 DEF IInv, Places, SendersWait, OnWire, InReplies, InTasks, NoRelay
  <2> QED BY <1>1, <1>3, <1>4, <1>6, <2>1, <2>2 DEF kinds, powVars, actVars, countVars
<1> QED BY <1>3, <1>5, <1>6

LEMMA TransferEndings ==
  ASSUME NEW c \in Client, TransferEnds(c)
  PROVE  /\ \/ /\ mode = "direct" /\ pc[Relay] = "idle" /\ taken' = c /\ replies' = replies
               /\ reg' = [reg EXCEPT ![Relay] = busy] /\ pc' = [pc EXCEPT ![Relay] = "ended"]
            \/ /\ mode # "direct" /\ replies' = Append(replies, c)
               /\ taken' = taken /\ reg' = reg /\ pc' = pc
         /\ c \in wire /\ wire' = wire \ {c} /\ tasks' = tasks /\ late' = late
         /\ msg' = msg /\ act' = act /\ busy' = busy /\ torn' = torn /\ msgs' = msgs
         /\ mode' = mode /\ supports' = supports /\ canWake' = canWake /\ listens' = listens
         /\ back' = back /\ flag' = flag /\ rings' = rings /\ port' = port
         /\ change' = change /\ seen' = seen /\ running' = running /\ releaser' = releaser
         /\ lost' = lost
<1>1. /\ c \in wire /\ wire' = wire \ {c}
      /\ UNCHANGED <<kinds, back, msg, act, tasks, msgs, late, powVars>>
  BY DEF TransferEnds
<1>2. CASE mode = "direct"
  BY <1>1, <1>2 DEF TransferEnds, ReadBusy, Goto, kinds, powVars
<1>3. CASE mode # "direct"
  BY <1>1, <1>3 DEF TransferEnds, kinds, powVars, countVars
<1> QED BY <1>2, <1>3

RepliesTo(c) ==
  /\ replies # <<>> /\ replies[1] = c /\ replies' = Tail(replies) /\ msg[c] = "pending"
  /\ pc[Relay] = "idle" /\ taken' = c /\ pc' = [pc EXCEPT ![Relay] = "ended"]
  /\ reg' = [reg EXCEPT ![Relay] = busy] /\ busy' = busy /\ torn' = torn
  /\ msg' = msg /\ act' = act /\ tasks' = tasks /\ wire' = wire /\ msgs' = msgs /\ late' = late
  /\ mode' = mode /\ supports' = supports /\ canWake' = canWake /\ listens' = listens
  /\ back' = back /\ flag' = flag /\ rings' = rings /\ port' = port
  /\ change' = change /\ seen' = seen /\ running' = running /\ releaser' = releaser
  /\ lost' = lost

LEMMA RelayReplies ==
  ASSUME IInv, RelayReply
  PROVE  \E c \in Client : RepliesTo(c)
<1> USE DEF RepliesTo
<1>1. /\ replies # <<>> /\ replies' = Tail(replies) /\ taken' = Head(replies)
      /\ pc[Relay] = "idle" /\ ReadBusy(Relay) /\ Goto(Relay, "ended")
      /\ UNCHANGED <<kinds, back, msg, act, tasks, wire, msgs, late, powVars>>
  BY DEF RelayReply
<1>2. Head(replies) = replies[1] /\ replies[1] \in Client /\ 1 \in 1..Len(replies)
  BY <1>1, Taken DEF IInv, Shape, Queues
<1>3. msg[replies[1]] = "pending"
  BY <1>2 DEF IInv, Places, SendersWait, OnWire, InReplies, InTasks, NoRelay
<1> QED BY <1>1, <1>2, <1>3 DEF ReadBusy, Goto, kinds, powVars

\* Task t completes the transfer of c, and goes on at l.
Ends(t, c, l) ==
  /\ pc[t] = "ended" /\ pc' = [pc EXCEPT ![t] = l] /\ msg[c] = "pending" /\ c \notin wire
  /\ \A i \in 1..Len(replies) : replies[i] # c
  /\ \A i \in 1..Len(tasks) : tasks[i] # <<"io", c>>
  /\ CompletePipe(t, c) /\ msg' = [msg EXCEPT ![c] = "replied"]
  /\ tasks' = tasks /\ wire' = wire /\ replies' = replies /\ msgs' = msgs /\ late' = late
  /\ mode' = mode /\ supports' = supports /\ canWake' = canWake /\ listens' = listens
  /\ back' = back /\ flag' = flag /\ rings' = rings /\ port' = port
  /\ change' = change /\ seen' = seen /\ running' = running /\ releaser' = releaser
  /\ lost' = lost

LEMMA OwnEnds ==
  ASSUME IInv, NEW c \in Client, EndOwn(c)
  PROVE  Ends(c, c, "wait") /\ reg' = [reg EXCEPT ![c] = 0] /\ taken' = taken
<1>1. msg[c] = "pending" /\ c \notin wire /\ \A i \in 1..Len(replies) : replies[i] # c
  BY DEF IInv, InHand, Completes, EndOwn
<1>2. \A i \in 1..Len(tasks) : tasks[i] # <<"io", c>>
  BY DEF IInv, InHand, Completes, EndOwn
<1> QED BY <1>1, <1>2 DEF Ends, EndOwn, CompletePipe, Goto, kinds, powVars

DeliversTo(c) ==
  /\ Ends(Relay, c, IF mode = "direct" THEN "idle" ELSE "uncount") /\ taken = c /\ taken' = NoTask
  /\ reg' = [reg EXCEPT ![Relay] = IF mode = "direct" THEN 0 ELSE msgs]

LEMMA Delivers ==
  ASSUME IInv, Deliver
  PROVE  \E c \in Client : DeliversTo(c)
<1>1. taken \in Client
  BY DEF IInv, Shape, Pipes, InHand, Deliver
<1>2. msg[taken] = "pending" /\ taken \notin wire /\ \A i \in 1..Len(replies) : replies[i] # taken
  BY <1>1 DEF IInv, InHand, Completes
<1>3. \A i \in 1..Len(tasks) : tasks[i] # <<"io", taken>>
  BY <1>1 DEF IInv, InHand, Completes
<1>4. DeliversTo(taken)
  BY <1>2, <1>3 DEF DeliversTo, Ends, Deliver, CompletePipe, Goto, kinds, powVars
<1> QED BY <1>1, <1>4

-----------------------------------------------------------------------------
LEMMA SendStep ==
  ASSUME IInv, NEW c \in Client, Send(c)
  PROVE  IInv'
<1>1. TheKind'
  BY DEF IInv, Shape, TheKind, Send, Goto, kinds, pipeVars, powVars, actVars
<1>2. Control'
  BY Apart DEF IInv, Shape, Control, Send, Goto, pipeVars, powVars, actVars
<1>3. Pipes'
  BY DEF IInv, Shape, Pipes, Send, Goto, pipeVars, powVars, actVars
<1>4. Counts'
  BY DEF IInv, Shape, Counts, Send, Goto, pipeVars, powVars, actVars, countVars
<1>5. Queues'
  BY DEF IInv, Shape, Queues, Send, Goto, pipeVars, powVars, actVars
<1>6. Power'
  BY DEF IInv, Shape, Power, Send, Goto, pipeVars, powVars, actVars
<1>7. Places'
  <2>1. mode' = mode /\ msg' = msg /\ tasks' = tasks /\ wire' = wire /\ replies' = replies
    BY DEF Send, kinds, pipeVars
  <2>2. \A x \in Client : pc[x] \in {"count", "wait", "aborting", "ended"} => pc'[x] = pc[x]
    BY Apart DEF IInv, Shape, Control, Send, Goto
  <2> QED BY <2>1, <2>2, PlacesKept DEF IInv, Shape
<1>8. InHand'
  <2>1. /\ msg' = msg /\ tasks' = tasks /\ wire' = wire /\ replies' = replies /\ taken' = taken
    BY DEF Send, pipeVars
  <2>2. pc'[Relay] = pc[Relay] /\ \A x \in Client : pc'[x] = "ended" => pc[x] = "ended"
    BY Apart DEF IInv, Shape, Control, InHand, HubReads, Releases, Send, Goto
  <2> QED BY <2>1, <2>2, HandKept DEF IInv
<1>9. Active'
  BY DEF IInv, Shape, Active, Pending, Send, Goto, kinds, pipeVars, powVars, actVars,
     countVars
<1>10. Relayed'
  <2>1. Counting' = Counting
    BY Apart DEF IInv, Shape, Control, Counting, Send, Goto
  <2>2. /\ mode' = mode /\ msgs' = msgs /\ wire' = wire /\ replies' = replies /\ torn' = torn
        /\ pc'[Relay] = pc[Relay]
    BY Apart DEF IInv, Shape, Control, InHand, Send, Goto, kinds, pipeVars, actVars, countVars
  <2> QED BY <2>1, <2>2 DEF IInv, Relayed
<1>11. Releases'
  BY DEF IInv, Shape, Releases, Send, Goto, pipeVars, powVars, actVars
<1>12. HubReads'
  BY Apart DEF IInv, Shape, HubReads, Send, Goto, pipeVars, powVars, actVars
<1>13. FlagFollows'
  BY DEF IInv, Shape, FlagFollows, Send, Goto, pipeVars, powVars, actVars
<1>14. RingsFollow'
  BY DEF IInv, Shape, RingsFollow, Send, Goto, kinds, pipeVars, powVars, actVars
<1>15. BindingsFollow'
  BY DEF IInv, Shape, BindingsFollow, Send, Goto, kinds, pipeVars, powVars, actVars
<1>16. LateOnly'
  BY DEF IInv, Shape, LateOnly, Pending, Agreed, LeftOut, Send, Goto, kinds, pipeVars,
     powVars, actVars, countVars
<1> QED BY <1>1, <1>2, <1>3, <1>4, <1>5, <1>6, <1>7, <1>8, <1>9, <1>10, <1>11, <1>12, <1>13,
           <1>14, <1>15, <1>16 DEF IInv, Shape

LEMMA SubmitPipeStep ==
  ASSUME IInv, NEW c \in Client, SubmitPipe(c)
  PROVE  IInv'
<1>1. TheKind'
  BY DEF IInv, Shape, TheKind, SubmitPipe, ReadBusy, Goto, kinds, pipeVars, powVars
<1>2. Control'
  BY Apart DEF IInv, Shape, Control, SubmitPipe, ReadBusy, Goto, pipeVars, powVars
<1>3. Pipes'
  BY DEF IInv, Shape, Pipes, SubmitPipe, ReadBusy, Goto, pipeVars, powVars
<1>4. Counts'
  BY DEF IInv, Shape, Counts, SubmitPipe, ReadBusy, Goto, pipeVars, powVars
<1>5. Queues'
  BY DEF IInv, Shape, Queues, SubmitPipe, ReadBusy, Goto, pipeVars, powVars
<1>6. Power'
  BY DEF IInv, Shape, Power, SubmitPipe, ReadBusy, Goto, pipeVars, powVars
<1>7. Places'
  <2>1. mode' = mode /\ msg' = msg /\ tasks' = tasks /\ wire' = wire /\ replies' = replies
    BY DEF SubmitPipe, kinds, pipeVars
  <2>2. \A x \in Client : pc[x] \in {"count", "wait", "aborting", "ended"} => pc'[x] = pc[x]
    BY Apart DEF IInv, Shape, Control, SubmitPipe, ReadBusy, Goto
  <2> QED BY <2>1, <2>2, PlacesKept DEF IInv, Shape
<1>8. InHand'
  <2>1. /\ msg' = msg /\ tasks' = tasks /\ wire' = wire /\ replies' = replies /\ taken' = taken
    BY DEF SubmitPipe, pipeVars
  <2>2. pc'[Relay] = pc[Relay] /\ \A x \in Client : pc'[x] = "ended" => pc[x] = "ended"
    BY Apart DEF IInv, Shape, Control, InHand, HubReads, Releases, SubmitPipe, ReadBusy, Goto
  <2> QED BY <2>1, <2>2, HandKept DEF IInv
<1>9. Active'
  BY DEF IInv, Shape, Active, Pending, SubmitPipe, ReadBusy, Goto, kinds, pipeVars,
     powVars
<1>10. Relayed'
  <2>1. Counting' = Counting
    BY Apart DEF IInv, Shape, Control, Counting, SubmitPipe, ReadBusy, Goto
  <2>2. /\ mode' = mode /\ msgs' = msgs /\ wire' = wire /\ replies' = replies /\ torn' = torn
        /\ pc'[Relay] = pc[Relay]
    BY Apart DEF IInv, Shape, Control, InHand, SubmitPipe, ReadBusy, Goto, kinds, pipeVars,
       actVars, countVars
  <2> QED BY <2>1, <2>2 DEF IInv, Relayed
<1>11. Releases'
  BY DEF IInv, Shape, Releases, SubmitPipe, ReadBusy, Goto, pipeVars, powVars
<1>12. HubReads'
  BY DEF IInv, Shape, HubReads, SubmitPipe, ReadBusy, Goto, pipeVars, powVars
<1>13. FlagFollows'
  BY DEF IInv, Shape, FlagFollows, SubmitPipe, ReadBusy, Goto, pipeVars, powVars
<1>14. RingsFollow'
  BY DEF IInv, Shape, RingsFollow, SubmitPipe, ReadBusy, Goto, kinds, pipeVars, powVars
<1>15. BindingsFollow'
  BY DEF IInv, Shape, BindingsFollow, SubmitPipe, ReadBusy, Goto, kinds, pipeVars, powVars
<1>16. LateOnly'
  BY DEF IInv, Shape, LateOnly, Pending, Agreed, LeftOut, SubmitPipe, ReadBusy, Goto,
     kinds, pipeVars, powVars
<1> QED BY <1>1, <1>2, <1>3, <1>4, <1>5, <1>6, <1>7, <1>8, <1>9, <1>10, <1>11, <1>12, <1>13,
           <1>14, <1>15, <1>16 DEF IInv, Shape

LEMMA SubmitStep ==
  ASSUME IInv, NEW c \in Client, Submit(c)
  PROVE  IInv'
<1>a. /\ pc[c] = "begin" /\ msg[c] # "pending" /\ c \notin wire
      /\ \A i \in 1..Len(tasks) : tasks[i][2] # c
      /\ \A i \in 1..Len(replies) : replies[i] # c
      /\ pc' \in [Task -> {pc[t] : t \in Task} \cup {"ended", "count", "wait"}]
      /\ pc'[c] \in {"ended", "count", "wait"} /\ \A t \in Task : t # c => pc'[t] = pc[t]
  <2>0. /\ pc' \in [Task -> {pc[t] : t \in Task} \cup {"ended", "count", "wait"}]
        /\ pc'[c] \in {"ended", "count", "wait"} /\ \A t \in Task : t # c => pc'[t] = pc[t]
    <3>1. PICK l \in {"ended", "count", "wait"} : pc' = [pc EXCEPT ![c] = l]
      BY Submits
    <3>2. c \in Task /\ pc \in [Task -> {pc[t] : t \in Task}]
      BY DEF Task, IInv, Shape, Control
    <3> QED BY <3>1, <3>2
  <2>1. pc[c] = "begin" /\ msg[c] # "pending"
    BY Submits DEF IInv, Places, SendersWait, OnWire, InReplies, InTasks, NoRelay
  <2>2. \A i \in 1..Len(tasks) : tasks[i][1] \in {"io", "abort"}
    BY DEF IInv, Shape, Queues, Message
  <2> QED BY <2>0, <2>1, <2>2 DEF IInv, Places, SendersWait, OnWire, InReplies, InTasks, NoRelay
<1>1. TheKind'
  BY <1>a, Submits DEF IInv, Shape, TheKind, Parking
<1>2. Control'
  BY Apart, <1>a, Submits DEF IInv, Shape, Control, Parking
<1>3. Pipes'
  <2>1. /\ Active' /\ act' \subseteq Client /\ busy' \in Int
        /\ torn \subseteq torn' /\ torn' \subseteq torn \cup {"busy"}
    <3>1. Pipes /\ Counts /\ Active
      BY DEF IInv, Shape
    <3>2. /\ msg[c] # "pending" /\ msg' = [msg EXCEPT ![c] = "pending"] /\ ActivityBegin(c)
          /\ listens' = listens
      BY <1>a, Submits
    <3> QED BY <3>1, <3>2, Begun
  <2> QED BY <2>1, Submits DEF IInv, Shape, Pipes
<1>4. Counts'
  <2>1. /\ Active' /\ act' \subseteq Client /\ busy' \in Int
        /\ torn \subseteq torn' /\ torn' \subseteq torn \cup {"busy"}
    <3>1. Pipes /\ Counts /\ Active
      BY DEF IInv, Shape
    <3>2. /\ msg[c] # "pending" /\ msg' = [msg EXCEPT ![c] = "pending"] /\ ActivityBegin(c)
          /\ listens' = listens
      BY <1>a, Submits
    <3> QED BY <3>1, <3>2, Begun
  <2>2. c \in Task /\ reg' \in [Task -> Int]
    BY <2>1, Submits DEF IInv, Shape, Counts, Task
  <2>3. msgs' = msgs
    BY Submits
  <2> QED BY <2>1, <2>2, <2>3 DEF IInv, Shape, Counts
<1>5. Queues'
  <2>1. replies' = replies /\ (tasks' = tasks \/ tasks' = Append(tasks, <<"io", c>>))
    BY Submits
  <2>2. <<"io", c>> \in Message
    BY Messages
  <2>3. Append(tasks, <<"io", c>>) \in Seq(Message)
    BY <2>2, TaskAppended DEF IInv, Shape
  <2> QED BY <2>1, <2>3 DEF IInv, Shape, Queues
<1>6. Power'
  BY <1>a, Submits DEF IInv, Shape, Power, Parking
<1>7. Places'
  <2>1. \A i \in 1..Len(tasks) : tasks[i] \in Message /\ tasks[i][2] \in Client
    BY Messages DEF IInv, Shape, Queues
  <2>2. SendersWait /\ OnWire /\ InReplies /\ InTasks /\ NoRelay
    BY DEF IInv, Places
  <2>u. /\ Queues /\ wire \subseteq Client /\ msg \in [Client -> {"free", "pending", "replied"}]
        /\ \A i \in 1..Len(replies) : replies[i] \in Client
        /\ \A x \in Client : x \in DOMAIN pc /\ x \in DOMAIN msg
    BY Apart DEF IInv, Shape, Pipes, Control, Queues
  <2> USE <2>u
  <2>0. replies' = replies /\ mode' = mode
    BY Submits
  <2>r. \A i \in 1..Len(replies) : replies[i] \in Client /\ replies[i] # c
    BY <1>a
  <2>3. CASE msg' = [msg EXCEPT ![c] = "pending"] /\ pc' = [pc EXCEPT ![c] = "ended"]
             /\ tasks' = tasks /\ wire' = wire
    <3>1. \A x \in Client : x # c => msg'[x] = msg[x] /\ pc'[x] = pc[x]
      BY <2>3, Apart
    <3>2. \A i \in 1..Len(tasks) : tasks[i][2] # c /\ tasks[i][2] \in Client
      BY <1>a, <2>1
    <3>3. SendersWait' /\ OnWire'
      BY <1>a, <2>2, <2>3, <3>1 DEF SendersWait, OnWire
    <3>4. InReplies'
      BY <1>a, <2>2, <2>3, <3>1, <2>0, <2>r DEF InReplies
    <3>5. InTasks'
      BY <1>a, <2>2, <2>3, <3>1, <3>2, <2>0 DEF InTasks
    <3>6. NoRelay'
      BY <2>2, <2>3, <2>0 DEF NoRelay
    <3> QED BY <3>3, <3>4, <3>5, <3>6 DEF Places
  <2>4. CASE msg' = [msg EXCEPT ![c] = "pending"] /\ mode = "relay"
             /\ pc' = [pc EXCEPT ![c] = "wait"]
             /\ tasks' = Append(tasks, <<"io", c>>) /\ wire' = wire
    <3>1. \A x \in Client : x # c => msg'[x] = msg[x] /\ pc'[x] = pc[x]
      BY <2>4, Apart
    <3>2. \A i \in 1..Len(tasks) : tasks[i][2] # c /\ tasks[i][2] \in Client
      BY <1>a, <2>1
    <3>3. /\ Len(tasks') = Len(tasks) + 1 /\ Len(tasks) \in Nat /\ tasks'[Len(tasks) + 1] = <<"io", c>>
          /\ \A i \in 1..Len(tasks) : tasks'[i] = tasks[i]
      BY <2>4, TaskAppended, Messages
    <3>4. SendersWait' /\ OnWire'
      BY <1>a, <2>2, <2>4, <3>1, Apart DEF SendersWait, OnWire
    <3>5. InReplies'
      BY <1>a, <2>2, <2>4, <3>1, <2>0, <2>r DEF InReplies
    <3>6. msg'[c] = "pending" /\ c \notin wire' /\ \A j \in 1..Len(replies') : replies'[j] # c
      BY <1>a, <2>4, <2>0
    <3>7. ASSUME NEW i \in 1..Len(tasks')
          PROVE  \/ i \in 1..Len(tasks) /\ tasks'[i] = tasks[i]
                 \/ i = Len(tasks) + 1 /\ tasks'[i] = <<"io", c>>
      BY <3>3, <3>7
    <3>8. InTasks'
      <4>1. \A i, j \in 1..Len(tasks') : tasks'[i] = tasks'[j] => i = j
        BY <2>2, <3>2, <3>7 DEF InTasks
      <4>2. ASSUME NEW i \in 1..Len(tasks')
            PROVE  /\ tasks'[i][1] = "io" => /\ msg'[tasks'[i][2]] = "pending" /\ tasks'[i][2] \notin wire'
                                             /\ \A j \in 1..Len(replies') : replies'[j] # tasks'[i][2]
                   /\ tasks'[i][1] = "abort" => pc'[tasks'[i][2]] = "aborting"
        <5>1. CASE i \in 1..Len(tasks) /\ tasks'[i] = tasks[i]
          BY <2>2, <2>4, <3>1, <3>2, <5>1, <2>0 DEF InTasks
        <5>2. CASE tasks'[i] = <<"io", c>>
          <6>1. tasks'[i][1] = "io" /\ tasks'[i][2] = c
            BY <5>2
          <6> QED BY <3>6, <6>1
        <5> QED BY <3>7, <4>2, <5>1, <5>2
      <4> QED BY <4>1, <4>2 DEF InTasks
    <3>9. NoRelay'
      BY <2>4, <2>0 DEF NoRelay
    <3> QED BY <3>4, <3>5, <3>8, <3>9 DEF Places
  <2>5. CASE msg' = [msg EXCEPT ![c] = "pending"] /\ tasks' = tasks /\ wire' = wire \cup {c}
             /\ pc' = [pc EXCEPT ![c] = IF mode = "quick" THEN "count" ELSE "wait"]
    <3>1. \A x \in Client : x # c => msg'[x] = msg[x] /\ pc'[x] = pc[x]
      BY <2>5, Apart
    <3>2. \A i \in 1..Len(tasks) : tasks[i][2] # c /\ tasks[i][2] \in Client
      BY <1>a, <2>1
    <3>3. msg'[c] = "pending" /\ pc'[c] \in {"count", "wait"}
      BY <2>5, Apart
    <3>4. SendersWait' /\ OnWire'
      BY <2>2, <2>5, <3>1, <3>3 DEF SendersWait, OnWire
    <3>5. InReplies'
      BY <1>a, <2>2, <2>5, <3>1, <2>0, <2>r DEF InReplies
    <3>6. InTasks'
      BY <1>a, <2>2, <2>5, <3>1, <3>2, <2>0 DEF InTasks
    <3>7. NoRelay'
      BY <2>2, <2>5, <2>0 DEF NoRelay
    <3> QED BY <3>4, <3>5, <3>6, <3>7 DEF Places
  <2> QED BY <2>3, <2>4, <2>5, Submits
<1>8. InHand'
  <2>1. /\ taken' = taken /\ replies' = replies /\ msg' = [msg EXCEPT ![c] = "pending"]
        /\ pc'[Relay] = pc[Relay] /\ wire' \subseteq wire \cup {c}
    BY <1>a, Submits, Apart
  <2>2. \A x \in Client : x # c => pc'[x] = pc[x] /\ msg'[x] = msg[x]
    BY Submits, Apart DEF IInv, Shape, Control, Pipes
  <2>3. c # taken
    BY <1>a DEF IInv, InHand, Completes
  <2>4. \A x \in Client : (x # c /\ \A i \in 1..Len(tasks) : tasks[i] # <<"io", x>>) =>
                           \A i \in 1..Len(tasks') : tasks'[i] # <<"io", x>>
    <3>1. CASE tasks' = tasks
      BY <3>1
    <3>2. CASE tasks' = Append(tasks, <<"io", c>>)
      BY <3>2, TaskAppended, Messages DEF IInv, Shape
    <3> QED BY <3>1, <3>2, Submits
  <2>5. pc'[c] = "ended" => /\ msg'[c] = "pending" /\ c \notin wire'
                            /\ \A i \in 1..Len(tasks') : tasks'[i] # <<"io", c>>
    <3>1. CASE pc' = [pc EXCEPT ![c] = "ended"] /\ tasks' = tasks /\ wire' = wire
      BY <1>a, <2>1, <3>1, Messages DEF IInv, Shape, Pipes
    <3>2. CASE pc'[c] # "ended"
      BY <3>2
    <3> QED BY <3>1, <3>2, Submits, Apart DEF IInv, Shape, Control
  <2>6. ASSUME NEW x \in Client, Completes(x)'
        PROVE  /\ msg'[x] = "pending" /\ x \notin wire'
               /\ \A i \in 1..Len(replies') : replies'[i] # x
               /\ \A i \in 1..Len(tasks') : tasks'[i] # <<"io", x>>
    <3>1. CASE x = c
      BY <1>a, <2>1, <2>3, <2>5, <2>6, <3>1 DEF Completes
    <3>2. CASE x # c
      <4>1. Completes(x)
        BY <2>1, <2>2, <2>6, <3>2 DEF Completes
      <4> QED BY <2>1, <2>2, <2>4, <3>2, <4>1 DEF IInv, InHand
    <3> QED BY <3>1, <3>2
  <2> QED BY <2>1, <2>2, <2>3, <2>6 DEF IInv, InHand
<1>9. Active'
  <2>1. Pipes /\ Counts /\ Active
    BY DEF IInv, Shape
  <2>2. /\ msg[c] # "pending" /\ msg' = [msg EXCEPT ![c] = "pending"] /\ ActivityBegin(c)
        /\ listens' = listens
    BY <1>a, Submits
  <2> QED BY <2>1, <2>2, Begun
<1>10. Relayed'
  <2>1. /\ msgs \in Int /\ Len(replies) \in Nat /\ Cardinality(wire) \in Nat /\ Cardinality(Counting) \in Nat
        /\ Counting \subseteq Client /\ wire \subseteq Client
    BY Sizes DEF IInv, Shape, Pipes, Counts, Queues, Counting
  <2>2. mode' = mode /\ msgs' = msgs /\ replies' = replies /\ pc'[Relay] = pc[Relay]
    BY <1>a, Submits, Apart
  <2>t. "msgs" \in torn' <=> "msgs" \in torn
    <3>1. torn' = torn \/ torn' = torn \cup {"busy"}
      BY Submits DEF ActivityBegin, WriteBusy
    <3> QED BY <3>1
  <2>3. CASE mode = "direct"
    BY <2>2, <2>3 DEF IInv, Relayed
  <2>4. CASE /\ mode # "direct" /\ wire' = wire
             /\ (pc' = [pc EXCEPT ![c] = "wait"] \/ pc' = [pc EXCEPT ![c] = "ended"])
    <3>1. Counting' = Counting
      BY <1>a, <2>4, Apart DEF IInv, Shape, Control, Counting
    <3> QED BY <2>2, <2>t, <2>4, <3>1 DEF IInv, Relayed
  <2>5. CASE mode = "quick" /\ wire' = wire \cup {c} /\ pc' = [pc EXCEPT ![c] = "count"]
    <3>1. Counting' = Counting \cup {c} /\ c \notin Counting
      BY <1>a, <2>5, Apart DEF IInv, Shape, Control, Counting
    <3>2. /\ Cardinality(Counting') = Cardinality(Counting) + 1
          /\ Cardinality(wire') = Cardinality(wire) + 1
      BY <1>a, <2>1, <2>5, <3>1, Sizes
    <3> QED BY <2>1, <2>2, <2>t, <2>5, <3>2 DEF IInv, Relayed
  <2>6. mode \in {"direct", "quick", "relay"}
    BY DEF IInv, Shape, TheKind
  <2> QED BY <2>3, <2>4, <2>5, <2>6, Submits
<1>11. Releases'
  BY <1>a, Submits DEF IInv, Shape, Control, Releases, Parking
<1>12. HubReads'
  BY Apart, <1>a, Submits DEF IInv, Shape, HubReads, Parking
<1>13. FlagFollows'
  BY Apart, <1>a, Submits DEF IInv, Shape, Control, FlagFollows, Parking
<1>14. RingsFollow'
  BY <1>a, Submits DEF IInv, Shape, RingsFollow, Parking
<1>15. BindingsFollow'
  BY <1>a, Submits DEF IInv, Shape, BindingsFollow, Parking
<1>16. LateOnly'
  <2>1. /\ Pending' = Pending \cup {c} /\ listens' = listens /\ supports' = supports
        /\ releaser' = releaser /\ flag' = flag /\ port' = port /\ back' = back /\ lost' = lost
    BY Submits DEF IInv, Shape, Pipes, Pending
  <2>2. torn \subseteq torn' /\ late \subseteq late'
    BY Submits DEF ActivityBegin, WriteBusy
  <2>3. \A s \in Suspender : pc'[s] = pc[s]
    BY <1>a, Apart
  <2>4. Agreed /\ ~lost => Parking
    BY DEF Agreed, Parking, IInv, Shape, Control, Power, FlagFollows
  <2>5. Agreed /\ ~lost => c \in late'
    BY <2>4, Submits
  <2> QED BY <2>1, <2>2, <2>3, <2>5 DEF IInv, LateOnly, Agreed, LeftOut
<1> QED BY <1>1, <1>2, <1>3, <1>4, <1>5, <1>6, <1>7, <1>8, <1>9, <1>10, <1>11, <1>12, <1>13,
           <1>14, <1>15, <1>16 DEF IInv, Shape

LEMMA CountDeferredStep ==
  ASSUME IInv, NEW c \in Client, CountDeferred(c)
  PROVE  IInv'
<1>1. TheKind'
  BY DEF IInv, Shape, TheKind, CountDeferred, Goto, kinds, powVars, actVars
<1>2. Control'
  BY Apart DEF IInv, Shape, Control, CountDeferred, Goto, powVars, actVars
<1>3. Pipes'
  BY DEF IInv, Shape, Pipes, CountDeferred, Goto, powVars, actVars
<1>4. Counts'
  BY DEF IInv, Shape, Counts, CountDeferred, Goto, powVars, actVars, countVars
<1>5. Queues'
  BY DEF IInv, Shape, Queues, CountDeferred, Goto, powVars, actVars
<1>6. Power'
  BY DEF IInv, Shape, Power, CountDeferred, Goto, powVars, actVars
<1>7. Places'
  BY DEF IInv, Shape, Places, CountDeferred, Goto, kinds, powVars, actVars, SendersWait,
     OnWire, InReplies, InTasks, NoRelay
<1>8. InHand'
  BY DEF IInv, Shape, InHand, Completes, CountDeferred, Goto, powVars, actVars
<1>9. Active'
  BY DEF IInv, Shape, Active, Pending, CountDeferred, Goto, kinds, powVars, actVars,
     countVars
<1>10. Relayed'
  <2>1. Counting' = Counting \ {c} /\ c \in Counting /\ Counting \subseteq Client
    BY Apart DEF IInv, Shape, Control, Counting, CountDeferred, Goto
  <2>2. /\ mode' = mode /\ msgs' = msgs + 1 /\ wire' = wire /\ replies' = replies
        /\ torn' = torn /\ pc'[Relay] = pc[Relay] /\ msgs \in Int
        /\ Len(replies) \in Nat /\ Cardinality(wire) \in Nat /\ Cardinality(Counting) \in Nat
    BY <2>1, Sizes, Apart DEF IInv, Shape, Pipes, Counts, Control, Queues, CountDeferred, Goto,
                              kinds, actVars, countVars
  <2>3. Cardinality(Counting') = Cardinality(Counting) - 1
    BY <2>1, Sizes
  <2> QED BY <2>2, <2>3 DEF IInv, Relayed
<1>11. Releases'
  BY DEF IInv, Shape, Releases, CountDeferred, Goto, powVars, actVars
<1>12. HubReads'
  BY DEF IInv, Shape, HubReads, CountDeferred, Goto, powVars, actVars
<1>13. FlagFollows'
  BY DEF IInv, Shape, FlagFollows, CountDeferred, Goto, powVars, actVars
<1>14. RingsFollow'
  BY DEF IInv, Shape, RingsFollow, CountDeferred, Goto, kinds, powVars, actVars
<1>15. BindingsFollow'
  BY DEF IInv, Shape, BindingsFollow, CountDeferred, Goto, kinds, powVars, actVars
<1>16. LateOnly'
  BY DEF IInv, Shape, LateOnly, Pending, Agreed, LeftOut, CountDeferred, Goto, kinds,
     powVars, actVars, countVars
<1> QED BY <1>1, <1>2, <1>3, <1>4, <1>5, <1>6, <1>7, <1>8, <1>9, <1>10, <1>11, <1>12, <1>13,
           <1>14, <1>15, <1>16 DEF IInv, Shape

LEMMA CollectStep ==
  ASSUME IInv, NEW c \in Client, Collect(c)
  PROVE  IInv'
<1>1. TheKind'
  BY DEF IInv, Shape, TheKind, Collect, Goto, kinds, powVars, actVars
<1>2. Control'
  BY Apart DEF IInv, Shape, Control, Collect, Goto, powVars, actVars
<1>3. Pipes'
  BY DEF IInv, Shape, Pipes, Collect, Goto, powVars, actVars
<1>4. Counts'
  BY DEF IInv, Shape, Counts, Collect, Goto, powVars, actVars, countVars
<1>5. Queues'
  BY DEF IInv, Shape, Queues, Collect, Goto, powVars, actVars
<1>6. Power'
  BY DEF IInv, Shape, Power, Collect, Goto, powVars, actVars
<1>7. Places'
  BY DEF IInv, Shape, Places, Collect, Goto, kinds, powVars, actVars, SendersWait, OnWire,
     InReplies, InTasks, NoRelay
<1>8. InHand'
  BY DEF IInv, Shape, InHand, Completes, Collect, Goto, powVars, actVars
<1>9. Active'
  BY DEF IInv, Shape, Active, Pending, Collect, Goto, kinds, powVars, actVars, countVars
<1>10. Relayed'
  <2>1. Counting' = Counting
    BY Apart DEF IInv, Shape, Control, Counting, Collect, Goto
  <2>2. /\ mode' = mode /\ msgs' = msgs /\ wire' = wire /\ replies' = replies /\ torn' = torn
        /\ pc'[Relay] = pc[Relay]
    BY Apart DEF IInv, Shape, Control, InHand, Collect, Goto, kinds, pipeVars, actVars, countVars
  <2> QED BY <2>1, <2>2 DEF IInv, Relayed
<1>11. Releases'
  BY DEF IInv, Shape, Releases, Collect, Goto, powVars, actVars
<1>12. HubReads'
  BY DEF IInv, Shape, HubReads, Collect, Goto, powVars, actVars
<1>13. FlagFollows'
  BY DEF IInv, Shape, FlagFollows, Collect, Goto, powVars, actVars
<1>14. RingsFollow'
  BY DEF IInv, Shape, RingsFollow, Collect, Goto, kinds, powVars, actVars
<1>15. BindingsFollow'
  BY DEF IInv, Shape, BindingsFollow, Collect, Goto, kinds, powVars, actVars
<1>16. LateOnly'
  BY DEF IInv, Shape, LateOnly, Pending, Agreed, LeftOut, Collect, Goto, kinds, powVars,
     actVars, countVars
<1> QED BY <1>1, <1>2, <1>3, <1>4, <1>5, <1>6, <1>7, <1>8, <1>9, <1>10, <1>11, <1>12, <1>13,
           <1>14, <1>15, <1>16 DEF IInv, Shape

LEMMA EndOwnStep ==
  ASSUME IInv, NEW c \in Client, EndOwn(c)
  PROVE  IInv'
<1>a. Ends(c, c, "wait") /\ reg' = [reg EXCEPT ![c] = 0] /\ taken' = taken
  BY OwnEnds
<1>1. TheKind'
  BY <1>a DEF IInv, Shape, TheKind, Ends
<1>2. Control'
  BY Apart, <1>a DEF IInv, Shape, Control, Ends
<1>3. Pipes'
  <2>1. /\ Active' /\ act' \subseteq Client /\ busy' \in Int
        /\ torn \subseteq torn' /\ torn' \subseteq torn \cup {"busy"}
    <3>1. Pipes /\ Counts /\ Active
      BY DEF IInv, Shape
    <3>2. c \in Task /\ msg[c] = "pending" /\ CompletePipe(c, c) /\ listens' = listens
      BY <1>a DEF Ends, Task
    <3> QED BY <3>1, <3>2, Completed
  <2> QED BY <1>a, <2>1 DEF IInv, Shape, Pipes, Ends
<1>4. Counts'
  <2>1. /\ Active' /\ act' \subseteq Client /\ busy' \in Int
        /\ torn \subseteq torn' /\ torn' \subseteq torn \cup {"busy"}
    <3>1. Pipes /\ Counts /\ Active
      BY DEF IInv, Shape
    <3>2. c \in Task /\ msg[c] = "pending" /\ CompletePipe(c, c) /\ listens' = listens
      BY <1>a DEF Ends, Task
    <3> QED BY <3>1, <3>2, Completed
  <2>2. reg' \in [Task -> Int] /\ msgs' = msgs
    <3>1. reg \in [Task -> Int] /\ msgs \in Int
      BY DEF IInv, Shape, Counts
    <3>2. msgs' = msgs
      BY <1>a DEF Ends
    <3>3. reg' = [reg EXCEPT ![c] = 0]
      BY <1>a
    <3>4. c \in Task
      BY DEF Task
    <3> QED BY <3>1, <3>2, <3>3, <3>4
  <2> QED BY <2>1, <2>2 DEF IInv, Shape, Counts
<1>5. Queues'
  BY <1>a DEF IInv, Shape, Queues, Ends
<1>6. Power'
  BY <1>a DEF IInv, Shape, Power, Ends
<1>7. Places'
  <2>1. \A i \in 1..Len(tasks) : tasks[i] \in Message /\ tasks[i][2] \in Client
    BY Messages DEF IInv, Shape, Queues
  <2>2. SendersWait /\ OnWire /\ InReplies /\ InTasks /\ NoRelay
    BY DEF IInv, Places
  <2>u. /\ Queues /\ wire \subseteq Client /\ msg \in [Client -> {"free", "pending", "replied"}]
        /\ \A i \in 1..Len(replies) : replies[i] \in Client
        /\ \A x \in Client : x \in DOMAIN pc /\ x \in DOMAIN msg
    BY Apart DEF IInv, Shape, Pipes, Control, Queues
  <2> USE <2>u
  <2>3. /\ msg' = [msg EXCEPT ![c] = "replied"] /\ tasks' = tasks /\ wire' = wire
        /\ replies' = replies /\ mode' = mode /\ c \notin wire
        /\ \A i \in 1..Len(replies) : replies[i] # c
        /\ \A i \in 1..Len(tasks) : tasks[i] # <<"io", c>>
    BY <1>a DEF Ends
  <2>4. \A x \in Client : x # c => msg'[x] = msg[x] /\ pc'[x] = pc[x]
    BY <1>a, Apart DEF IInv, Shape, Control, Ends
  <2>5. msg'[c] = "replied" /\ \A x \in Client : pc[x] = "aborting" => pc'[x] = "aborting"
    BY <1>a, <2>3, Apart DEF Ends, IInv, Shape, Control
  <2>6. SendersWait' /\ OnWire' /\ NoRelay'
    BY <2>2, <2>3, <2>4, <2>5 DEF SendersWait, OnWire, NoRelay
  <2>7. InReplies'
    BY <2>2, <2>3, <2>4 DEF InReplies
  <2>8. \A i \in 1..Len(tasks) : tasks[i][1] = "io" => tasks[i][2] # c
    <3>1. \A m \in Message : m[1] = "io" /\ m[2] = c => m = <<"io", c>>
      BY Messages
    <3> QED BY <2>1, <2>3, <3>1
  <2>9. InTasks'
    BY <2>1, <2>2, <2>3, <2>4, <2>5, <2>8 DEF InTasks
  <2> QED BY <2>6, <2>7, <2>9 DEF Places
<1>8. InHand'
  <2>1. /\ msg' = [msg EXCEPT ![c] = "replied"] /\ tasks' = tasks /\ wire' = wire
        /\ replies' = replies
    BY <1>a DEF Ends
  <2>2. \A x \in Client : x # c => msg'[x] = msg[x]
    BY <2>1
  <2>3. \A x \in Client : Completes(x)' => Completes(x) /\ x # c
    BY <1>a, Apart DEF IInv, Shape, Control, InHand, Completes, Ends
  <2>4. /\ pc'[Relay] \in {"idle", "ended", "uncount"} /\ (taken' # NoTask <=> pc'[Relay] = "ended")
        /\ \A x \in Client : x = taken' => pc'[x] # "ended"
    BY <1>a, Apart DEF IInv, Shape, Control, InHand, Completes, Ends, Task
  <2> QED BY <2>1, <2>2, <2>3, <2>4 DEF IInv, InHand
<1>9. Active'
  <2>1. /\ Active' /\ act' \subseteq Client /\ busy' \in Int
        /\ torn \subseteq torn' /\ torn' \subseteq torn \cup {"busy"}
    <3>1. Pipes /\ Counts /\ Active
      BY DEF IInv, Shape
    <3>2. c \in Task /\ msg[c] = "pending" /\ CompletePipe(c, c) /\ listens' = listens
      BY <1>a DEF Ends, Task
    <3> QED BY <3>1, <3>2, Completed
  <2> QED BY <2>1
<1>10. Relayed'
  <2>1. /\ mode' = mode /\ msgs' = msgs /\ wire' = wire /\ replies' = replies
        /\ pc'[Relay] = pc[Relay] /\ Counting' = Counting
    BY <1>a, Apart DEF IInv, Shape, Control, Ends, Counting
  <2>2. "msgs" \in torn' <=> "msgs" \in torn
    BY <1>a DEF Ends, CompletePipe, WriteBusy
  <2> QED BY <2>1, <2>2 DEF IInv, Relayed
<1>11. Releases'
  BY <1>a DEF IInv, Shape, Releases, Ends
<1>12. HubReads'
  BY <1>a DEF IInv, Shape, HubReads, Ends
<1>13. FlagFollows'
  BY <1>a DEF IInv, Shape, FlagFollows, Ends
<1>14. RingsFollow'
  BY <1>a DEF IInv, Shape, RingsFollow, Ends
<1>15. BindingsFollow'
  BY <1>a DEF IInv, Shape, BindingsFollow, Ends
<1>16. LateOnly'
  <2>1. /\ Pending' \subseteq Pending /\ late' = late /\ listens' = listens /\ supports' = supports
        /\ releaser' = releaser /\ flag' = flag /\ port' = port /\ back' = back /\ lost' = lost
    BY <1>a DEF IInv, Shape, Pipes, Pending, Ends
  <2>2. torn \subseteq torn'
    BY <1>a DEF Ends, CompletePipe, WriteBusy
  <2>3. \A s \in Suspender : pc'[s] = pc[s]
    BY <1>a, Apart DEF IInv, Shape, Control, Ends
  <2> QED BY <2>1, <2>2, <2>3 DEF IInv, LateOnly, Agreed, LeftOut
<1> QED BY <1>1, <1>2, <1>3, <1>4, <1>5, <1>6, <1>7, <1>8, <1>9, <1>10, <1>11, <1>12, <1>13,
           <1>14, <1>15, <1>16 DEF IInv, Shape

LEMMA AbortPipeStep ==
  ASSUME IInv, NEW c \in Client, AbortPipe(c)
  PROVE  IInv'
<1>a. /\ \A i \in 1..Len(tasks) : tasks[i] # <<"abort", c>>
      /\ mode = "direct" => tasks = <<>> /\ replies = <<>>
  BY Aborts DEF IInv, Places, SendersWait, OnWire, InReplies, InTasks, NoRelay
<1>1. TheKind'
  BY <1>a, Aborts DEF IInv, Shape, TheKind
<1>2. Control'
  <2>1. PICK l \in {"ended", "aborting"} : pc' = [pc EXCEPT ![c] = l]
    BY Aborts
  <2>2. back' = back /\ releaser' = releaser
    BY Aborts
  <2> QED BY <2>1, <2>2, Apart DEF IInv, Shape, Control
<1>3. Pipes'
  BY Aborts DEF IInv, Shape, Pipes
<1>4. Counts'
  <2>1. busy \in Int /\ reg \in [Task -> Int] /\ msgs \in Int /\ torn \subseteq {"busy", "msgs"}
    BY DEF IInv, Shape, Counts
  <2>2. reg' \in [Task -> Int]
    BY <2>1, Aborts
  <2> QED BY <2>1, <2>2, Aborts DEF Counts
<1>5. Queues'
  <2>1. replies' = replies /\ (tasks' = tasks \/ tasks' = Append(tasks, <<"abort", c>>))
    BY Aborts
  <2>2. <<"abort", c>> \in Message
    BY Messages
  <2>3. Append(tasks, <<"abort", c>>) \in Seq(Message)
    BY <2>2, TaskAppended DEF IInv, Shape
  <2> QED BY <2>1, <2>3 DEF IInv, Shape, Queues
<1>6. Power'
  BY <1>a, Aborts DEF IInv, Shape, Power
<1>7. Places'
  <2>1. \A i \in 1..Len(tasks) : tasks[i] \in Message /\ tasks[i][2] \in Client
    BY Messages DEF IInv, Shape, Queues
  <2>2. SendersWait /\ OnWire /\ InReplies /\ InTasks /\ NoRelay
    BY DEF IInv, Places
  <2>u. /\ Queues /\ wire \subseteq Client /\ msg \in [Client -> {"free", "pending", "replied"}]
        /\ \A i \in 1..Len(replies) : replies[i] \in Client
        /\ \A x \in Client : x \in DOMAIN pc /\ x \in DOMAIN msg
    BY Apart DEF IInv, Shape, Pipes, Control, Queues
  <2> USE <2>u
  <2>3. CASE mode = "direct" /\ pc' = [pc EXCEPT ![c] = "ended"] /\ wire' = wire \ {c}
    <3>1. /\ tasks = <<>> /\ replies = <<>> /\ replies' = replies /\ tasks' = tasks /\ mode' = mode
          /\ msg' = msg
      BY <1>a, <2>3, Aborts
    <3>2. SendersWait' /\ OnWire'
      BY <2>2, <2>3, <3>1 DEF SendersWait, OnWire
    <3> QED BY <2>3, <3>1, <3>2 DEF Places, InReplies, InTasks, NoRelay
  <2>4. CASE mode # "direct" /\ tasks' = Append(tasks, <<"abort", c>>)
             /\ pc' = [pc EXCEPT ![c] = "aborting"] /\ wire' = wire /\ msg' = msg
    <3>1. \A x \in Client : x # c => pc'[x] = pc[x]
      BY <2>4, Apart
    <3>2. pc'[c] = "aborting" /\ replies' = replies /\ mode' = mode
      BY <2>4, Apart, Aborts
    <3>3. /\ Len(tasks') = Len(tasks) + 1 /\ Len(tasks) \in Nat
          /\ tasks'[Len(tasks) + 1] = <<"abort", c>>
          /\ \A i \in 1..Len(tasks) : tasks'[i] = tasks[i]
      BY <2>4, TaskAppended, Messages
    <3>4. SendersWait' /\ OnWire' /\ InReplies' /\ NoRelay'
      BY <2>2, <2>4, <3>1, <3>2 DEF SendersWait, OnWire, InReplies, NoRelay
    <3>5. ASSUME NEW i \in 1..Len(tasks')
          PROVE  \/ i \in 1..Len(tasks) /\ tasks'[i] = tasks[i]
                 \/ i = Len(tasks) + 1 /\ tasks'[i] = <<"abort", c>>
      BY <3>3, <3>5
    <3>6. InTasks'
      <4>1. \A i, j \in 1..Len(tasks') : tasks'[i] = tasks'[j] => i = j
        BY <1>a, <2>2, <3>5 DEF InTasks
      <4>2. ASSUME NEW i \in 1..Len(tasks')
            PROVE  /\ tasks'[i][1] = "io" => /\ msg'[tasks'[i][2]] = "pending" /\ tasks'[i][2] \notin wire'
                                             /\ \A j \in 1..Len(replies') : replies'[j] # tasks'[i][2]
                   /\ tasks'[i][1] = "abort" => pc'[tasks'[i][2]] = "aborting"
        <5>1. CASE i \in 1..Len(tasks) /\ tasks'[i] = tasks[i]
          <6>1. tasks[i][2] \in Client
            BY <2>1, <5>1
          <6> QED BY <2>2, <2>4, <3>1, <3>2, <5>1, <6>1 DEF InTasks
        <5>2. CASE tasks'[i] = <<"abort", c>>
          <6>1. tasks'[i][1] = "abort" /\ tasks'[i][2] = c
            BY <5>2
          <6> QED BY <3>2, <6>1
        <5> QED BY <3>5, <4>2, <5>1, <5>2
      <4> QED BY <4>1, <4>2 DEF InTasks
    <3> QED BY <3>4, <3>6 DEF Places
  <2> QED BY <2>3, <2>4, Aborts
<1>8. InHand'
  <2>1. /\ taken' = taken /\ msg' = msg /\ replies' = replies /\ pc'[Relay] = pc[Relay]
        /\ wire' \subseteq wire
    BY Aborts, Apart DEF IInv, Shape, Control
  <2>2. \A x \in Client : x # c => pc'[x] = pc[x]
    BY Aborts, Apart DEF IInv, Shape, Control
  <2>3. \A x \in Client : (\A i \in 1..Len(tasks) : tasks[i] # <<"io", x>>) =>
                           \A i \in 1..Len(tasks') : tasks'[i] # <<"io", x>>
    <3>1. CASE tasks' = tasks
      BY <3>1
    <3>2. CASE tasks' = Append(tasks, <<"abort", c>>)
      BY <3>2, TaskAppended, Messages DEF IInv, Shape
    <3> QED BY <3>1, <3>2, Aborts
  <2>4. pc'[c] = "ended" => /\ msg[c] = "pending" /\ c \in wire /\ c \notin wire'
                            /\ tasks = <<>> /\ replies = <<>> /\ tasks' = tasks
    BY <1>a, Aborts, Apart DEF IInv, Shape, Control
  <2>5. c \in wire => c # taken
    BY DEF IInv, InHand, Completes
  <2>6. ASSUME NEW x \in Client, Completes(x)'
        PROVE  /\ msg'[x] = "pending" /\ x \notin wire'
               /\ \A i \in 1..Len(replies') : replies'[i] # x
               /\ \A i \in 1..Len(tasks') : tasks'[i] # <<"io", x>>
    <3>1. CASE x = c /\ pc'[c] = "ended"
      BY <2>1, <2>4, <3>1
    <3>2. CASE ~(x = c /\ pc'[c] = "ended")
      <4>1. Completes(x)
        BY <2>1, <2>2, <2>6, <3>2 DEF Completes
      <4> QED BY <2>1, <2>3, <4>1 DEF IInv, InHand
    <3> QED BY <3>1, <3>2
  <2> QED BY <2>1, <2>2, <2>4, <2>5, <2>6 DEF IInv, InHand
<1>9. Active'
  BY Aborts DEF IInv, Active, Pending
<1>10. Relayed'
  <2>1. /\ mode' = mode /\ msgs' = msgs /\ replies' = replies /\ (mode = "direct" \/ wire' = wire)
        /\ torn' = torn /\ pc'[Relay] = pc[Relay]
    BY Aborts, Apart DEF IInv, Shape, Control
  <2>2. Counting' = Counting
    BY Aborts, Apart DEF IInv, Shape, Control, Counting
  <2> QED BY <2>1, <2>2 DEF IInv, Relayed
<1>11. Releases'
  BY <1>a, Aborts DEF IInv, Shape, Control, Releases
<1>12. HubReads'
  BY Apart, <1>a, Aborts DEF IInv, Shape, Control, HubReads
<1>13. FlagFollows'
  BY Apart, <1>a, Aborts DEF IInv, Shape, Control, FlagFollows
<1>14. RingsFollow'
  BY <1>a, Aborts DEF IInv, Shape, Control, RingsFollow
<1>15. BindingsFollow'
  BY <1>a, Aborts DEF IInv, Shape, Control, BindingsFollow
<1>16. LateOnly'
  BY Apart, <1>a, Aborts DEF IInv, Shape, Control, LateOnly, Pending, Agreed, LeftOut
<1> QED BY <1>1, <1>2, <1>3, <1>4, <1>5, <1>6, <1>7, <1>8, <1>9, <1>10, <1>11, <1>12, <1>13,
           <1>14, <1>15, <1>16 DEF IInv, Shape

LEMMA TransferEndsStep ==
  ASSUME IInv, NEW c \in Client, TransferEnds(c)
  PROVE  IInv'
<1>a. /\ msg[c] = "pending" /\ \A i \in 1..Len(replies) : replies[i] # c
      /\ \A i \in 1..Len(tasks) : tasks[i] # <<"io", c>>
  BY TransferEndings DEF IInv, Places, SendersWait, OnWire, InReplies, InTasks, NoRelay
<1>1. TheKind'
  BY <1>a, TransferEndings DEF IInv, Shape, TheKind
<1>2. Control'
  BY Apart, <1>a, TransferEndings DEF IInv, Shape, Control
<1>3. Pipes'
  BY TransferEndings DEF IInv, Shape, Pipes
<1>4. Counts'
  <2>1. busy \in Int /\ reg \in [Task -> Int] /\ msgs \in Int /\ torn \subseteq {"busy", "msgs"}
    BY DEF IInv, Shape, Counts
  <2>2. reg' \in [Task -> Int]
    BY <2>1, TransferEndings
  <2> QED BY <2>1, <2>2, TransferEndings DEF Counts
<1>5. Queues'
  BY <1>a, TransferEndings, ReplyAppended DEF IInv, Shape, Queues, Pipes
<1>6. Power'
  BY <1>a, TransferEndings DEF IInv, Shape, Power
<1>7. Places'
  <2>1. \A i \in 1..Len(tasks) : tasks[i] \in Message /\ tasks[i][2] \in Client
    BY Messages DEF IInv, Shape, Queues
  <2>2. SendersWait /\ OnWire /\ InReplies /\ InTasks /\ NoRelay
    BY DEF IInv, Places
  <2>u. /\ Queues /\ wire \subseteq Client /\ msg \in [Client -> {"free", "pending", "replied"}]
        /\ \A i \in 1..Len(replies) : replies[i] \in Client
        /\ \A x \in Client : x \in DOMAIN pc /\ x \in DOMAIN msg
    BY Apart DEF IInv, Shape, Pipes, Control, Queues
  <2> USE <2>u
  <2>3. /\ c \in wire /\ wire' = wire \ {c} /\ tasks' = tasks /\ mode' = mode /\ msg' = msg
        /\ \A x \in Client : pc'[x] = pc[x]
    BY TransferEndings, Apart DEF IInv, Shape, Control
  <2>4. CASE mode = "direct" /\ replies' = replies
    <3>1. tasks = <<>> /\ replies = <<>>
      BY <2>2, <2>4 DEF NoRelay
    <3>2. SendersWait' /\ OnWire'
      BY <2>2, <2>3, <2>4 DEF SendersWait, OnWire
    <3> QED BY <2>3, <2>4, <3>1, <3>2 DEF Places, InReplies, InTasks, NoRelay
  <2>5. CASE mode # "direct" /\ msg' = msg /\ replies' = Append(replies, c)
    <3>1. /\ Len(replies') = Len(replies) + 1 /\ Len(replies) \in Nat
          /\ replies'[Len(replies) + 1] = c
          /\ \A i \in 1..Len(replies) : replies'[i] = replies[i]
      BY <2>5, ReplyAppended
    <3>2. SendersWait' /\ OnWire' /\ NoRelay'
      BY <2>2, <2>3, <2>5 DEF SendersWait, OnWire, NoRelay
    <3>3. ASSUME NEW i \in 1..Len(replies')
          PROVE  (i \in 1..Len(replies) /\ replies'[i] = replies[i]) \/ (i = Len(replies) + 1 /\ replies'[i] = c)
      BY <3>1, <3>3
    <3>4. InReplies'
      BY <1>a, <2>2, <2>3, <2>5, <3>3 DEF InReplies
    <3>5. \A i \in 1..Len(tasks) : tasks[i][1] = "io" => tasks[i][2] # c
      BY <2>2, <2>3 DEF InTasks
    <3>6. InTasks'
      BY <2>1, <2>2, <2>3, <2>5, <3>3, <3>5 DEF InTasks
    <3> QED BY <3>2, <3>4, <3>6 DEF Places
  <2> QED BY <2>4, <2>5, TransferEndings
<1>8. InHand'
  <2>0. /\ msg' = msg /\ tasks' = tasks /\ wire' = wire \ {c} /\ c \in wire
        /\ \A x \in Client : pc'[x] = pc[x]
    BY TransferEndings, Apart DEF IInv, Shape, Control
  <2>n. msg[c] = "pending" /\ ~Completes(c) /\ c # NoTask
    BY <1>a, <2>0, Apart DEF IInv, InHand
  <2>1. CASE mode = "direct" /\ taken' = c /\ replies' = replies /\ pc[Relay] = "idle"
             /\ pc' = [pc EXCEPT ![Relay] = "ended"]
    <3>1. pc'[Relay] = "ended"
      BY <2>1 DEF IInv, Shape, Control, Task
    <3>2. ASSUME NEW x \in Client, Completes(x)'
          PROVE  x = c \/ Completes(x)
      BY <2>0, <2>1, <3>2 DEF Completes
    <3>3. pc'[c] # "ended"
      BY <2>0, <2>n DEF Completes
    <3>4. \A i \in 1..Len(tasks) : tasks[i] # <<"io", c>>
      BY <1>a
    <3> QED BY <1>a, <2>0, <2>n, <2>1, <3>1, <3>2, <3>3, <3>4 DEF IInv, InHand
  <2>2. CASE mode # "direct" /\ replies' = Append(replies, c) /\ taken' = taken /\ pc' = pc
    <3>1. /\ Len(replies') = Len(replies) + 1 /\ Len(replies) \in Nat /\ replies'[Len(replies) + 1] = c
          /\ \A i \in 1..Len(replies) : replies'[i] = replies[i]
      BY <2>2, ReplyAppended DEF IInv, Shape
    <3>2. \A x \in Client : Completes(x)' => Completes(x) /\ x # c
      BY <2>0, <2>n, <2>2 DEF Completes
    <3> QED BY <2>0, <2>2, <3>1, <3>2 DEF IInv, InHand
  <2> QED BY <2>1, <2>2, TransferEndings
<1>9. Active'
  BY TransferEndings DEF IInv, Active, Pending
<1>10. Relayed'
  <2>1. /\ msgs \in Int /\ Len(replies) \in Nat /\ Cardinality(wire) \in Nat /\ Cardinality(Counting) \in Nat
        /\ Counting \subseteq Client /\ wire \subseteq Client
    BY Sizes DEF IInv, Shape, Pipes, Counts, Queues, Counting
  <2>2. /\ mode' = mode /\ msgs' = msgs /\ Counting' = Counting /\ c \in wire /\ wire' = wire \ {c}
        /\ torn' = torn /\ (mode # "direct" => pc' = pc)
    BY TransferEndings, Apart DEF IInv, Shape, Control, Counting
  <2>3. Cardinality(wire') = Cardinality(wire) - 1
    BY <2>1, <2>2, Sizes
  <2>4. mode # "direct" => Len(replies') = Len(replies) + 1
    BY TransferEndings, ReplyAppended DEF IInv, Shape
  <2> QED BY <2>1, <2>2, <2>3, <2>4 DEF IInv, Relayed
<1>11. Releases'
  BY <1>a, TransferEndings DEF IInv, Shape, TheKind, Control, Releases
<1>12. HubReads'
  BY Apart, <1>a, TransferEndings DEF IInv, Shape, Control, HubReads
<1>13. FlagFollows'
  BY Apart, <1>a, TransferEndings DEF IInv, Shape, Control, FlagFollows
<1>14. RingsFollow'
  BY <1>a, TransferEndings DEF IInv, Shape, Control, RingsFollow
<1>15. BindingsFollow'
  BY <1>a, TransferEndings DEF IInv, Shape, Control, BindingsFollow
<1>16. LateOnly'
  BY Apart, <1>a, TransferEndings DEF IInv, Shape, Control, LateOnly, Pending, Agreed,
     LeftOut
<1> QED BY <1>1, <1>2, <1>3, <1>4, <1>5, <1>6, <1>7, <1>8, <1>9, <1>10, <1>11, <1>12, <1>13,
           <1>14, <1>15, <1>16 DEF IInv, Shape

LEMMA RelayTakeStep ==
  ASSUME IInv, RelayTake
  PROVE  IInv'
<1>a. PICK c \in Client : TakesFor(c)
  BY RelayTakes
<1>1. TheKind'
  BY <1>a DEF IInv, Shape, TheKind, TakesFor
<1>2. Control'
  BY Apart, <1>a DEF IInv, Shape, TheKind, Control, TakesFor
<1>3. Pipes'
  BY <1>a DEF IInv, Shape, Pipes, TakesFor
<1>4. Counts'
  BY <1>a DEF IInv, Shape, Counts, TakesFor
<1>5. Queues'
  BY <1>a, TaskTaken, ReplyAppended DEF IInv, Shape, Queues, TakesFor
<1>6. Power'
  BY <1>a DEF IInv, Shape, Power, TakesFor
<1>7. Places'
  <2>1. \A i \in 1..Len(tasks) : tasks[i] \in Message /\ tasks[i][2] \in Client
    BY Messages DEF IInv, Shape, Queues
  <2>2. SendersWait /\ OnWire /\ InReplies /\ InTasks /\ NoRelay
    BY DEF IInv, Places
  <2>u. /\ Queues /\ wire \subseteq Client /\ msg \in [Client -> {"free", "pending", "replied"}]
        /\ \A i \in 1..Len(replies) : replies[i] \in Client
        /\ \A x \in Client : x \in DOMAIN pc /\ x \in DOMAIN msg
    BY Apart DEF IInv, Shape, Pipes, Control, Queues
  <2> USE <2>u
  <2>3. /\ tasks' = Tail(tasks) /\ msg' = msg /\ mode' = mode /\ mode # "direct"
    BY <1>a DEF TakesFor
  <2>4. /\ Len(tasks') = Len(tasks) - 1 /\ Len(tasks) \in Nat \ {0} /\ 1 \in 1..Len(tasks)
        /\ \A i \in 1..Len(tasks') : tasks'[i] = tasks[i + 1] /\ i + 1 \in 1..Len(tasks)
    BY <1>a, <2>3, TaskTaken DEF TakesFor
  <2>5. \A i \in 1..Len(tasks') : tasks'[i] # tasks[1]
    BY <2>2, <2>4 DEF InTasks
  <2>6. ASSUME NEW i \in 1..Len(tasks'), NEW j \in 1..Len(tasks'), tasks'[i] = tasks'[j]
        PROVE  i = j
    <3>1. i + 1 \in 1..Len(tasks) /\ j + 1 \in 1..Len(tasks) /\ tasks[i + 1] = tasks[j + 1]
      BY <2>4, <2>6
    <3>2. i + 1 = j + 1
      BY <2>2, <3>1 DEF InTasks
    <3> QED BY <2>4, <3>2
  <2>7. CASE /\ tasks[1] = <<"io", c>> /\ msg[c] = "pending" /\ c \notin wire
             /\ \A j \in 1..Len(replies) : replies[j] # c
             /\ wire' = wire \cup {c} /\ replies' = replies /\ pc' = pc
    <3>1. SendersWait' /\ OnWire' /\ NoRelay'
      BY <2>2, <2>3, <2>7 DEF SendersWait, OnWire, NoRelay
    <3>2. InReplies'
      BY <2>2, <2>3, <2>7 DEF InReplies
    <3>3. \A i \in 1..Len(tasks') : tasks'[i][1] = "io" => tasks'[i][2] # c
      <4>1. \A m \in Message : m[1] = "io" /\ m[2] = c => m = <<"io", c>>
        BY Messages
      <4> QED BY <2>1, <2>4, <2>5, <2>7, <4>1
    <3>4. InTasks'
      BY <2>2, <2>3, <2>4, <2>6, <2>7, <3>3 DEF InTasks
    <3> QED BY <3>1, <3>2, <3>4 DEF Places
  <2>8. CASE /\ tasks[1] = <<"abort", c>> /\ pc[c] = "aborting" /\ wire' = wire \ {c}
             /\ pc' = [pc EXCEPT ![c] = "wait"]
             /\ replies' = IF c \in wire THEN Append(replies, c) ELSE replies
    <3>1. \A x \in Client : x # c => pc'[x] = pc[x]
      BY <2>8, Apart
    <3>2. pc'[c] = "wait"
      BY <2>8, Apart
    <3>3. SendersWait' /\ OnWire' /\ NoRelay'
      BY <2>2, <2>3, <2>8, <3>1, <3>2 DEF SendersWait, OnWire, NoRelay
    <3>4. \A i \in 1..Len(replies') : \/ i \in 1..Len(replies) /\ replies'[i] = replies[i]
                                      \/ i = Len(replies) + 1 /\ replies'[i] = c /\ c \in wire
      <4>1. CASE c \in wire
        BY <2>8, <4>1, ReplyAppended
      <4>2. CASE c \notin wire
        BY <2>8, <4>2
      <4> QED BY <4>1, <4>2
    <3>5. InReplies'
      BY <2>2, <2>3, <2>8, <3>4 DEF InReplies, OnWire
    <3>6. \A i \in 1..Len(tasks') : /\ tasks'[i] \in Message /\ tasks'[i][2] \in Client
                                    /\ tasks'[i][1] = "abort" => tasks'[i][2] # c
      <4>1. \A m \in Message : m[1] = "abort" /\ m[2] = c => m = <<"abort", c>>
        BY Messages
      <4> QED BY <2>1, <2>4, <2>5, <2>8, <4>1
    <3>7. \A i \in 1..Len(tasks') : tasks'[i][1] = "io" => \A j \in 1..Len(replies') : replies'[j] # tasks'[i][2]
      BY <2>2, <2>4, <3>4 DEF InTasks
    <3>8. InTasks'
      BY <2>2, <2>3, <2>4, <2>6, <2>8, <3>1, <3>6, <3>7 DEF InTasks
    <3> QED BY <3>3, <3>5, <3>8 DEF Places
  <2> QED BY <1>a, <2>7, <2>8 DEF TakesFor
<1>8. InHand'
  <2>0. /\ msg' = msg /\ taken' = taken /\ pc'[Relay] = pc[Relay]
        /\ \A x \in Client : pc'[x] = "ended" => pc[x] = "ended"
    BY <1>a, Apart DEF IInv, Shape, Control, TakesFor
  <2>1. /\ Len(tasks') = Len(tasks) - 1 /\ Len(tasks) \in Nat \ {0} /\ 1 \in 1..Len(tasks)
        /\ \A i \in 1..Len(tasks') : tasks'[i] = tasks[i + 1] /\ i + 1 \in 1..Len(tasks)
    BY <1>a, TaskTaken DEF IInv, Shape, TakesFor
  <2>2. wire' \subseteq wire \cup {c} /\ (c \notin wire /\ c \in wire' => tasks[1] = <<"io", c>>)
    BY <1>a DEF TakesFor
  <2>3. \A i \in 1..Len(replies') : \/ i \in 1..Len(replies) /\ replies'[i] = replies[i]
                                    \/ replies'[i] = c /\ c \in wire
    <3>1. CASE c \in wire /\ replies' = Append(replies, c)
      BY <3>1, ReplyAppended DEF IInv, Shape
    <3>2. CASE replies' = replies
      BY <3>2
    <3> QED BY <1>a, <3>1, <3>2 DEF TakesFor
  <2>4. \A x \in Client : Completes(x)' => Completes(x)
    BY <2>0 DEF Completes
  <2> QED BY <2>0, <2>1, <2>2, <2>3, <2>4 DEF IInv, InHand
<1>9. Active'
  BY <1>a DEF IInv, Shape, Active, Pending, TakesFor
<1>10. Relayed'
  <2>1. /\ msgs \in Int /\ Len(replies) \in Nat /\ Cardinality(wire) \in Nat /\ Cardinality(Counting) \in Nat
        /\ Counting \subseteq Client /\ wire \subseteq Client
    BY Sizes DEF IInv, Shape, Pipes, Counts, Queues, Counting
  <2>2. mode' = mode /\ Counting' = Counting /\ torn' = torn /\ pc'[Relay] = pc[Relay]
    BY <1>a, Apart DEF IInv, Shape, Control, TakesFor, Counting
  <2>3. CASE c \notin wire /\ wire' = wire \cup {c} /\ msgs' = msgs + 1 /\ replies' = replies
    <3>1. Cardinality(wire') = Cardinality(wire) + 1
      BY <2>1, <2>3, Sizes
    <3> QED BY <2>1, <2>2, <2>3, <3>1 DEF IInv, Relayed
  <2>4. CASE c \in wire /\ wire' = wire \ {c} /\ msgs' = msgs /\ replies' = Append(replies, c)
    <3>1. Cardinality(wire') = Cardinality(wire) - 1
      BY <2>1, <2>4, Sizes
    <3>2. Len(replies') = Len(replies) + 1
      BY <2>4, ReplyAppended DEF IInv, Shape
    <3> QED BY <2>1, <2>2, <2>4, <3>1, <3>2 DEF IInv, Relayed
  <2>5. CASE c \notin wire /\ wire' = wire \ {c} /\ msgs' = msgs /\ replies' = replies
    <3>1. wire' = wire
      BY <2>5
    <3> QED BY <2>2, <2>5, <3>1 DEF IInv, Relayed
  <2> QED BY <1>a, <2>3, <2>4, <2>5 DEF TakesFor
<1>11. Releases'
  BY <1>a DEF IInv, Shape, Control, Releases, TakesFor
<1>12. HubReads'
  BY Apart, <1>a DEF IInv, Shape, Control, HubReads, TakesFor
<1>13. FlagFollows'
  BY Apart, <1>a DEF IInv, Shape, Control, FlagFollows, TakesFor
<1>14. RingsFollow'
  BY <1>a DEF IInv, Shape, RingsFollow, TakesFor
<1>15. BindingsFollow'
  BY <1>a DEF IInv, Shape, Control, BindingsFollow, TakesFor
<1>16. LateOnly'
  BY Apart, <1>a DEF IInv, Shape, Control, LateOnly, Pending, Agreed, LeftOut, TakesFor
<1> QED BY <1>1, <1>2, <1>3, <1>4, <1>5, <1>6, <1>7, <1>8, <1>9, <1>10, <1>11, <1>12, <1>13,
           <1>14, <1>15, <1>16 DEF IInv, Shape

LEMMA RelayReplyStep ==
  ASSUME IInv, RelayReply
  PROVE  IInv'
<1>a. PICK c \in Client : RepliesTo(c)
  BY RelayReplies
<1>1. TheKind'
  BY <1>a DEF IInv, Shape, TheKind, RepliesTo
<1>2. Control'
  BY Apart, <1>a DEF IInv, Shape, Control, RepliesTo
<1>3. Pipes'
  BY <1>a DEF IInv, Shape, Pipes, RepliesTo
<1>4. Counts'
  BY <1>a DEF IInv, Shape, Counts, RepliesTo
<1>5. Queues'
  BY <1>a, ReplyTaken DEF IInv, Shape, Queues, RepliesTo
<1>6. Power'
  BY <1>a DEF IInv, Shape, Power, RepliesTo
<1>7. Places'
  <2>1. \A i \in 1..Len(tasks) : tasks[i] \in Message /\ tasks[i][2] \in Client
    BY Messages DEF IInv, Shape, Queues
  <2>2. SendersWait /\ OnWire /\ InReplies /\ InTasks /\ NoRelay
    BY DEF IInv, Places
  <2>u. /\ Queues /\ wire \subseteq Client /\ msg \in [Client -> {"free", "pending", "replied"}]
        /\ \A i \in 1..Len(replies) : replies[i] \in Client
        /\ \A x \in Client : x \in DOMAIN pc /\ x \in DOMAIN msg
    BY Apart DEF IInv, Shape, Pipes, Control, Queues
  <2> USE <2>u
  <2>3. /\ msg' = msg /\ tasks' = tasks /\ wire' = wire /\ mode' = mode /\ replies # <<>>
        /\ \A x \in Client : pc'[x] = pc[x]
    BY <1>a, Apart DEF IInv, Shape, Control, RepliesTo
  <2>4. /\ Len(replies') = Len(replies) - 1 /\ Len(replies) \in Nat \ {0}
        /\ \A i \in 1..Len(replies') : replies'[i] = replies[i + 1] /\ i + 1 \in 1..Len(replies)
    BY <1>a, ReplyTaken DEF RepliesTo
  <2>5. SendersWait' /\ OnWire' /\ NoRelay'
    BY <2>2, <2>3 DEF SendersWait, OnWire, NoRelay
  <2>6. ASSUME NEW i \in 1..Len(replies'), NEW j \in 1..Len(replies'), replies'[i] = replies'[j]
        PROVE  i = j
    <3>1. i + 1 \in 1..Len(replies) /\ j + 1 \in 1..Len(replies) /\ replies[i + 1] = replies[j + 1]
      BY <2>4, <2>6
    <3>2. i + 1 = j + 1
      BY <2>2, <3>1 DEF InReplies
    <3> QED BY <2>4, <3>2
  <2>7. InReplies'
    BY <2>2, <2>3, <2>4, <2>6 DEF InReplies
  <2>8. InTasks'
    BY <2>1, <2>2, <2>3, <2>4 DEF InTasks
  <2> QED BY <2>5, <2>7, <2>8 DEF Places
<1>8. InHand'
  <2>0. /\ msg' = msg /\ tasks' = tasks /\ wire' = wire /\ taken' = c /\ taken = NoTask
        /\ pc'[Relay] = "ended" /\ \A x \in Client : pc'[x] = pc[x]
    BY <1>a, Apart DEF IInv, Shape, Control, RepliesTo, InHand, Task
  <2>1. /\ 1 \in 1..Len(replies) /\ replies[1] = c /\ Len(replies') = Len(replies) - 1
        /\ Len(replies) \in Nat \ {0} /\ \A i \in 1..Len(replies') : replies'[i] = replies[i + 1]
    BY <1>a, ReplyTaken DEF IInv, Shape, RepliesTo
  <2>2. msg[c] = "pending" /\ c \notin wire /\ \A i \in 1..Len(tasks) : tasks[i] # <<"io", c>>
    <3>1. msg[c] = "pending" /\ c \notin wire
      BY <2>1 DEF IInv, Places, InReplies
    <3>2. \A i \in 1..Len(tasks) : tasks[i][1] = "io" => tasks[i][2] # c
      BY <2>1 DEF IInv, Places, InTasks
    <3> QED BY <3>1, <3>2
  <2>3. \A i \in 1..Len(replies') : i + 1 \in 1..Len(replies) /\ i + 1 # 1
    BY <2>1
  <2>4. \A i \in 1..Len(replies') : replies'[i] # c
    BY <2>1, <2>3 DEF IInv, Places, InReplies
  <2>5. pc[c] # "ended" /\ c # NoTask
    BY <2>1, Apart DEF IInv, InHand, Completes
  <2>6. \A x \in Client : Completes(x)' => x = c \/ Completes(x)
    BY <2>0 DEF Completes
  <2> QED BY <2>0, <2>1, <2>2, <2>3, <2>4, <2>5, <2>6 DEF IInv, InHand
<1>9. Active'
  BY <1>a DEF IInv, Active, Pending, RepliesTo
<1>10. Relayed'
  <2>1. /\ msgs \in Int /\ Len(replies) \in Nat /\ Cardinality(wire) \in Nat /\ Cardinality(Counting) \in Nat
        /\ Counting \subseteq Client /\ wire \subseteq Client
    BY Sizes DEF IInv, Shape, Pipes, Counts, Queues, Counting
  <2>2. /\ mode' = mode /\ Counting' = Counting /\ wire' = wire /\ msgs' = msgs /\ torn' = torn
        /\ Len(replies') = Len(replies) - 1 /\ pc[Relay] = "idle" /\ pc'[Relay] = "ended"
    BY <1>a, ReplyTaken, Apart DEF IInv, Shape, Control, RepliesTo, Counting
  <2> QED BY <2>1, <2>2 DEF IInv, Relayed
<1>11. Releases'
  BY <1>a DEF IInv, Shape, Releases, RepliesTo
<1>12. HubReads'
  BY Apart, <1>a DEF IInv, Shape, HubReads, RepliesTo
<1>13. FlagFollows'
  BY <1>a DEF IInv, Shape, FlagFollows, RepliesTo
<1>14. RingsFollow'
  BY <1>a DEF IInv, Shape, RingsFollow, RepliesTo
<1>15. BindingsFollow'
  BY <1>a DEF IInv, Shape, BindingsFollow, RepliesTo
<1>16. LateOnly'
  BY <1>a DEF IInv, Shape, LateOnly, Pending, Agreed, LeftOut, RepliesTo
<1> QED BY <1>1, <1>2, <1>3, <1>4, <1>5, <1>6, <1>7, <1>8, <1>9, <1>10, <1>11, <1>12, <1>13,
           <1>14, <1>15, <1>16 DEF IInv, Shape

LEMMA DeliverStep ==
  ASSUME IInv, Deliver
  PROVE  IInv'
<1>a. PICK c \in Client : DeliversTo(c)
  BY Delivers
<1>1. TheKind'
  BY <1>a DEF IInv, Shape, TheKind, DeliversTo, Ends
<1>2. Control'
  BY Apart, <1>a DEF IInv, Shape, Control, DeliversTo, Ends
<1>3. Pipes'
  <2>1. /\ Active' /\ act' \subseteq Client /\ busy' \in Int
        /\ torn \subseteq torn' /\ torn' \subseteq torn \cup {"busy"}
    <3>1. Pipes /\ Counts /\ Active
      BY DEF IInv, Shape
    <3>2. Relay \in Task /\ msg[c] = "pending" /\ CompletePipe(Relay, c) /\ listens' = listens
      BY <1>a DEF Ends, Task, DeliversTo
    <3> QED BY <3>1, <3>2, Completed
  <2> QED BY <1>a, <2>1 DEF IInv, Shape, Pipes, Ends, DeliversTo
<1>4. Counts'
  <2>1. /\ Active' /\ act' \subseteq Client /\ busy' \in Int
        /\ torn \subseteq torn' /\ torn' \subseteq torn \cup {"busy"}
    <3>1. Pipes /\ Counts /\ Active
      BY DEF IInv, Shape
    <3>2. Relay \in Task /\ msg[c] = "pending" /\ CompletePipe(Relay, c) /\ listens' = listens
      BY <1>a DEF Ends, Task, DeliversTo
    <3> QED BY <3>1, <3>2, Completed
  <2>2. reg' \in [Task -> Int] /\ msgs' = msgs
    <3>1. reg \in [Task -> Int] /\ msgs \in Int
      BY DEF IInv, Shape, Counts
    <3>2. msgs' = msgs
      BY <1>a DEF Ends, DeliversTo
    <3>3. reg' = [reg EXCEPT ![Relay] = IF mode = "direct" THEN 0 ELSE msgs]
      BY <1>a DEF DeliversTo
    <3>4. Relay \in Task
      BY DEF Task
    <3> QED BY <3>1, <3>2, <3>3, <3>4
  <2> QED BY <2>1, <2>2 DEF IInv, Shape, Counts
<1>5. Queues'
  BY <1>a DEF IInv, Shape, Queues, DeliversTo, Ends
<1>6. Power'
  BY <1>a DEF IInv, Shape, Power, DeliversTo, Ends
<1>7. Places'
  <2>1. \A i \in 1..Len(tasks) : tasks[i] \in Message /\ tasks[i][2] \in Client
    BY Messages DEF IInv, Shape, Queues
  <2>2. SendersWait /\ OnWire /\ InReplies /\ InTasks /\ NoRelay
    BY DEF IInv, Places
  <2>u. /\ Queues /\ wire \subseteq Client /\ msg \in [Client -> {"free", "pending", "replied"}]
        /\ \A i \in 1..Len(replies) : replies[i] \in Client
        /\ \A x \in Client : x \in DOMAIN pc /\ x \in DOMAIN msg
    BY Apart DEF IInv, Shape, Pipes, Control, Queues
  <2> USE <2>u
  <2>3. /\ msg' = [msg EXCEPT ![c] = "replied"] /\ tasks' = tasks /\ wire' = wire
        /\ replies' = replies /\ mode' = mode /\ c \notin wire
        /\ \A i \in 1..Len(replies) : replies[i] # c
        /\ \A i \in 1..Len(tasks) : tasks[i] # <<"io", c>>
    BY <1>a DEF Ends, DeliversTo
  <2>4. \A x \in Client : x # c => msg'[x] = msg[x] /\ pc'[x] = pc[x]
    BY <1>a, Apart DEF IInv, Shape, Control, Ends, DeliversTo
  <2>5. msg'[c] = "replied" /\ \A x \in Client : pc[x] = "aborting" => pc'[x] = "aborting"
    BY <1>a, <2>3, Apart DEF Ends, IInv, Shape, Control, DeliversTo
  <2>6. SendersWait' /\ OnWire' /\ NoRelay'
    BY <2>2, <2>3, <2>4, <2>5 DEF SendersWait, OnWire, NoRelay
  <2>7. InReplies'
    BY <2>2, <2>3, <2>4 DEF InReplies
  <2>8. \A i \in 1..Len(tasks) : tasks[i][1] = "io" => tasks[i][2] # c
    <3>1. \A m \in Message : m[1] = "io" /\ m[2] = c => m = <<"io", c>>
      BY Messages
    <3> QED BY <2>1, <2>3, <3>1
  <2>9. InTasks'
    BY <2>1, <2>2, <2>3, <2>4, <2>5, <2>8 DEF InTasks
  <2> QED BY <2>6, <2>7, <2>9 DEF Places
<1>8. InHand'
  <2>1. /\ msg' = [msg EXCEPT ![c] = "replied"] /\ tasks' = tasks /\ wire' = wire
        /\ replies' = replies
    BY <1>a DEF Ends, DeliversTo
  <2>2. \A x \in Client : x # c => msg'[x] = msg[x]
    BY <2>1
  <2>3. \A x \in Client : Completes(x)' => Completes(x) /\ x # c
    BY <1>a, Apart DEF IInv, Shape, Control, InHand, Completes, Ends, DeliversTo
  <2>4. /\ pc'[Relay] \in {"idle", "ended", "uncount"} /\ (taken' # NoTask <=> pc'[Relay] = "ended")
        /\ \A x \in Client : x = taken' => pc'[x] # "ended"
    BY <1>a, Apart DEF IInv, Shape, Control, InHand, Completes, Ends, DeliversTo, Task
  <2> QED BY <2>1, <2>2, <2>3, <2>4 DEF IInv, InHand
<1>9. Active'
  <2>1. /\ Active' /\ act' \subseteq Client /\ busy' \in Int
        /\ torn \subseteq torn' /\ torn' \subseteq torn \cup {"busy"}
    <3>1. Pipes /\ Counts /\ Active
      BY DEF IInv, Shape
    <3>2. Relay \in Task /\ msg[c] = "pending" /\ CompletePipe(Relay, c) /\ listens' = listens
      BY <1>a DEF Ends, Task, DeliversTo
    <3> QED BY <3>1, <3>2, Completed
  <2> QED BY <2>1
<1>10. Relayed'
  <2>1. /\ mode' = mode /\ msgs' = msgs /\ wire' = wire /\ replies' = replies
        /\ pc[Relay] = "ended" /\ (mode # "direct" => pc'[Relay] = "uncount") /\ Counting' = Counting
    BY <1>a, Apart DEF IInv, Shape, Control, Ends, DeliversTo, Counting, Task
  <2>2. "msgs" \in torn' <=> "msgs" \in torn
    BY <1>a DEF Ends, DeliversTo, CompletePipe, WriteBusy
  <2> QED BY <2>1, <2>2 DEF IInv, Relayed
<1>11. Releases'
  BY <1>a DEF IInv, Shape, Releases, DeliversTo, Ends
<1>12. HubReads'
  BY <1>a DEF IInv, Shape, HubReads, DeliversTo, Ends
<1>13. FlagFollows'
  BY <1>a DEF IInv, Shape, FlagFollows, DeliversTo, Ends
<1>14. RingsFollow'
  BY <1>a DEF IInv, Shape, RingsFollow, DeliversTo, Ends
<1>15. BindingsFollow'
  BY <1>a DEF IInv, Shape, BindingsFollow, DeliversTo, Ends
<1>16. LateOnly'
  <2>1. /\ Pending' \subseteq Pending /\ late' = late /\ listens' = listens /\ supports' = supports
        /\ releaser' = releaser /\ flag' = flag /\ port' = port /\ back' = back /\ lost' = lost
    BY <1>a DEF IInv, Shape, Pipes, Pending, Ends, DeliversTo
  <2>2. torn \subseteq torn'
    BY <1>a DEF Ends, CompletePipe, WriteBusy, DeliversTo
  <2>3. \A s \in Suspender : pc'[s] = pc[s]
    BY <1>a, Apart DEF IInv, Shape, Control, Ends, DeliversTo
  <2> QED BY <2>1, <2>2, <2>3 DEF IInv, LateOnly, Agreed, LeftOut
<1> QED BY <1>1, <1>2, <1>3, <1>4, <1>5, <1>6, <1>7, <1>8, <1>9, <1>10, <1>11, <1>12, <1>13,
           <1>14, <1>15, <1>16 DEF IInv, Shape

LEMMA RelayUncountStep ==
  ASSUME IInv, RelayUncount
  PROVE  IInv'
<1>1. TheKind'
  BY DEF IInv, Shape, TheKind, RelayUncount, Goto, kinds, powVars
<1>2. Control'
  BY Apart DEF IInv, Shape, Control, RelayUncount, Goto, powVars
<1>3. Pipes'
  BY DEF IInv, Shape, Pipes, RelayUncount, Goto, powVars
<1>4. Counts'
  BY Apart DEF IInv, Shape, Counts, RelayUncount, Goto, powVars
<1>5. Queues'
  BY DEF IInv, Shape, Queues, RelayUncount, Goto, powVars
<1>6. Power'
  BY DEF IInv, Shape, Power, RelayUncount, Goto, powVars
<1>7. Places'
  <2>1. mode' = mode /\ msg' = msg /\ tasks' = tasks /\ wire' = wire /\ replies' = replies
    BY DEF RelayUncount, kinds
  <2>2. \A x \in Client : pc[x] \in {"count", "wait", "aborting", "ended"} => pc'[x] = pc[x]
    BY Apart DEF IInv, Shape, Control, RelayUncount, Goto
  <2> QED BY <2>1, <2>2, PlacesKept DEF IInv, Shape
<1>8. InHand'
  <2>1. /\ msg' = msg /\ tasks' = tasks /\ wire' = wire /\ replies' = replies /\ taken' = taken
        /\ pc[Relay] = "uncount" /\ pc'[Relay] = "idle" /\ \A x \in Client : pc'[x] = pc[x]
    BY Apart DEF IInv, Shape, Control, RelayUncount, Goto, Task
  <2>2. \A x \in Client : Completes(x)' => Completes(x)
    BY <2>1 DEF Completes
  <2> QED BY <2>1, <2>2 DEF IInv, InHand
<1>9. Active'
  BY DEF IInv, Shape, Active, Pending, RelayUncount, Goto, kinds, powVars
<1>10. Relayed'
  <2>1. /\ msgs \in Int /\ Len(replies) \in Nat /\ Cardinality(wire) \in Nat /\ Cardinality(Counting) \in Nat
        /\ Counting \subseteq Client /\ wire \subseteq Client
    BY Sizes DEF IInv, Shape, Pipes, Counts, Queues, Counting
  <2>2. /\ mode' = mode /\ wire' = wire /\ replies' = replies
        /\ pc[Relay] = "uncount" /\ pc'[Relay] = "idle" /\ Counting' = Counting
        /\ msgs' = reg[Relay] - 1 /\ torn' = (IF msgs = reg[Relay] THEN torn ELSE torn \cup {"msgs"})
    BY Apart DEF IInv, Shape, Control, RelayUncount, Goto, Counting, Task, kinds
  <2>3. reg[Relay] \in Int
    BY Apart DEF IInv, Shape, Counts
  <2> QED BY <2>1, <2>2, <2>3 DEF IInv, Relayed
<1>11. Releases'
  BY DEF IInv, Shape, Releases, RelayUncount, Goto, powVars
<1>12. HubReads'
  BY DEF IInv, Shape, HubReads, RelayUncount, Goto, powVars
<1>13. FlagFollows'
  BY DEF IInv, Shape, FlagFollows, RelayUncount, Goto, powVars
<1>14. RingsFollow'
  BY DEF IInv, Shape, RingsFollow, RelayUncount, Goto, kinds, powVars
<1>15. BindingsFollow'
  BY DEF IInv, Shape, BindingsFollow, RelayUncount, Goto, kinds, powVars
<1>16. LateOnly'
  BY DEF IInv, Shape, LateOnly, Pending, Agreed, LeftOut, RelayUncount, Goto, kinds,
     powVars
<1> QED BY <1>1, <1>2, <1>3, <1>4, <1>5, <1>6, <1>7, <1>8, <1>9, <1>10, <1>11, <1>12, <1>13,
           <1>14, <1>15, <1>16 DEF IInv, Shape

LEMMA HubResumeDeviceStep ==
  ASSUME IInv, NEW t \in Task, HubResumeDevice(t)
  PROVE  IInv'
<1>1. TheKind'
  BY DEF IInv, Shape, TheKind, HubResumeDevice, Fault, HubFree, Resumed, Goto, kinds,
     pipeVars, actVars
<1>2. Control'
  BY Apart DEF IInv, Shape, TheKind, Control, Pipes, HubResumeDevice, Fault, HubFree,
     Resumed, Goto, pipeVars, actVars
<1>3. Pipes'
  BY DEF IInv, Shape, Pipes, HubResumeDevice, Fault, HubFree, Resumed, Goto, pipeVars,
     actVars
<1>4. Counts'
  BY DEF IInv, Shape, Counts, HubResumeDevice, Fault, HubFree, Resumed, Goto, pipeVars,
     actVars, countVars
<1>5. Queues'
  BY DEF IInv, Shape, Queues, HubResumeDevice, Fault, HubFree, Resumed, Goto, pipeVars,
     actVars
<1>6. Power'
  BY DEF IInv, Shape, Power, HubResumeDevice, Fault, HubFree, Resumed, Goto, pipeVars,
     actVars
<1>7. Places'
  <2>1. mode' = mode /\ msg' = msg /\ tasks' = tasks /\ wire' = wire /\ replies' = replies
    BY DEF HubResumeDevice, kinds, pipeVars
  <2>2. \A x \in Client : pc[x] \in {"count", "wait", "aborting", "ended"} => pc'[x] = pc[x]
    BY Apart DEF IInv, Shape, Control, HubResumeDevice, Fault, HubFree, Resumed, Goto
  <2> QED BY <2>1, <2>2, PlacesKept DEF IInv, Shape
<1>8. InHand'
  <2>1. /\ msg' = msg /\ tasks' = tasks /\ wire' = wire /\ replies' = replies /\ taken' = taken
    BY DEF HubResumeDevice, pipeVars
  <2>2. pc'[Relay] = pc[Relay] /\ \A x \in Client : pc'[x] = "ended" => pc[x] = "ended"
    BY Apart DEF IInv, Shape, Control, InHand, HubReads, Releases, HubResumeDevice, Fault,
       HubFree, Resumed, Goto
  <2> QED BY <2>1, <2>2, HandKept DEF IInv
<1>9. Active'
  BY DEF IInv, Shape, Active, Pending, HubResumeDevice, Fault, HubFree, Resumed, Goto,
     kinds, pipeVars, actVars, countVars
<1>10. Relayed'
  <2>1. Counting' = Counting
    BY Apart DEF IInv, Shape, Control, Counting, HubResumeDevice, Fault, HubFree, Resumed, Goto
  <2>2. /\ mode' = mode /\ msgs' = msgs /\ wire' = wire /\ replies' = replies /\ torn' = torn
        /\ pc'[Relay] = pc[Relay]
    BY Apart DEF IInv, Shape, Control, InHand, HubResumeDevice, Fault, HubFree, Resumed, Goto,
       kinds, pipeVars, actVars, countVars
  <2> QED BY <2>1, <2>2 DEF IInv, Relayed
<1>11. Releases'
  BY DEF IInv, Shape, Control, Releases, HubResumeDevice, Fault, HubFree, Resumed, Goto,
     pipeVars, actVars
<1>12. HubReads'
  BY Apart DEF IInv, Shape, Control, HubReads, HubResumeDevice, Fault, HubFree, Resumed,
     Goto, pipeVars, actVars
<1>13. FlagFollows'
  BY DEF IInv, Shape, FlagFollows, HubResumeDevice, Fault, HubFree, Resumed, Goto,
     pipeVars, actVars
<1>14. RingsFollow'
  BY DEF IInv, Shape, Control, RingsFollow, HubResumeDevice, Fault, HubFree, Resumed,
     Goto, pipeVars, actVars
<1>15. BindingsFollow'
  BY DEF IInv, Shape, Control, BindingsFollow, HubResumeDevice, Fault, HubFree, Resumed,
     Goto, kinds, pipeVars, actVars
<1>16. LateOnly'
  BY Apart DEF IInv, Shape, Control, LateOnly, Pending, Agreed, LeftOut, HubResumeDevice,
     Fault, HubFree, Resumed, Goto, kinds, pipeVars, actVars, countVars
<1> QED BY <1>1, <1>2, <1>3, <1>4, <1>5, <1>6, <1>7, <1>8, <1>9, <1>10, <1>11, <1>12, <1>13,
           <1>14, <1>15, <1>16 DEF IInv, Shape

LEMMA RestartRingsStep ==
  ASSUME IInv, NEW t \in Task, RestartRings(t)
  PROVE  IInv'
<1>1. TheKind'
  BY DEF IInv, Shape, TheKind, RestartRings, Fault, Goto, kinds, pipeVars, actVars
<1>2. Control'
  BY DEF IInv, Shape, Control, RestartRings, Fault, Goto, pipeVars, actVars
<1>3. Pipes'
  BY DEF IInv, Shape, Pipes, RestartRings, Fault, Goto, pipeVars, actVars
<1>4. Counts'
  BY DEF IInv, Shape, Counts, RestartRings, Fault, Goto, pipeVars, actVars, countVars
<1>5. Queues'
  BY DEF IInv, Shape, Queues, RestartRings, Fault, Goto, pipeVars, actVars
<1>6. Power'
  BY DEF IInv, Shape, Power, RestartRings, Fault, Goto, pipeVars, actVars
<1>7. Places'
  <2>1. mode' = mode /\ msg' = msg /\ tasks' = tasks /\ wire' = wire /\ replies' = replies
    BY DEF RestartRings, kinds, pipeVars
  <2>2. \A x \in Client : pc[x] \in {"count", "wait", "aborting", "ended"} => pc'[x] = pc[x]
    BY Apart DEF IInv, Shape, Control, RestartRings, Fault, Goto
  <2> QED BY <2>1, <2>2, PlacesKept DEF IInv, Shape
<1>8. InHand'
  <2>1. /\ msg' = msg /\ tasks' = tasks /\ wire' = wire /\ replies' = replies /\ taken' = taken
    BY DEF RestartRings, pipeVars
  <2>2. pc'[Relay] = pc[Relay] /\ \A x \in Client : pc'[x] = "ended" => pc[x] = "ended"
    BY Apart DEF IInv, Shape, Control, InHand, HubReads, Releases, RestartRings, Fault, Goto
  <2> QED BY <2>1, <2>2, HandKept DEF IInv
<1>9. Active'
  BY DEF IInv, Shape, Active, Pending, RestartRings, Fault, Goto, kinds, pipeVars,
     actVars, countVars
<1>10. Relayed'
  <2>1. Counting' = Counting
    BY Apart DEF IInv, Shape, Control, Counting, RestartRings, Fault, Goto
  <2>2. /\ mode' = mode /\ msgs' = msgs /\ wire' = wire /\ replies' = replies /\ torn' = torn
        /\ pc'[Relay] = pc[Relay]
    BY Apart DEF IInv, Shape, Control, InHand, RestartRings, Fault, Goto, kinds, pipeVars,
       actVars, countVars
  <2> QED BY <2>1, <2>2 DEF IInv, Relayed
<1>11. Releases'
  BY DEF IInv, Shape, Releases, RestartRings, Fault, Goto, pipeVars, actVars
<1>12. HubReads'
  BY DEF IInv, Shape, HubReads, RestartRings, Fault, Goto, pipeVars, actVars
<1>13. FlagFollows'
  BY DEF IInv, Shape, FlagFollows, RestartRings, Fault, Goto, pipeVars, actVars
<1>14. RingsFollow'
  BY DEF IInv, Shape, RingsFollow, RestartRings, Fault, Goto, pipeVars, actVars
<1>15. BindingsFollow'
  BY DEF IInv, Shape, BindingsFollow, RestartRings, Fault, Goto, kinds, pipeVars, actVars
<1>16. LateOnly'
  BY DEF IInv, Shape, LateOnly, Pending, Agreed, LeftOut, RestartRings, Fault, Goto,
     kinds, pipeVars, actVars, countVars
<1> QED BY <1>1, <1>2, <1>3, <1>4, <1>5, <1>6, <1>7, <1>8, <1>9, <1>10, <1>11, <1>12, <1>13,
           <1>14, <1>15, <1>16 DEF IInv, Shape

LEMMA ResumeBindingsStep ==
  ASSUME IInv, NEW t \in Task, ResumeBindings(t)
  PROVE  IInv'
<1>1. TheKind'
  BY DEF IInv, Shape, TheKind, ResumeBindings, Resumed, Goto, kinds, pipeVars, actVars
<1>2. Control'
  <2>1. PICK l \in {"submit", "arm", "idle", "release"} :
              pc' = [pc EXCEPT ![t] = l] /\ (t \in Client => l # "arm")
    BY Apart DEF ResumeBindings, Resumed, Goto
  <2>2. back' \subseteq Suspender
    BY DEF IInv, Shape, Control, ResumeBindings, Resumed
  <2>3. releaser' \in [Client -> Task \cup {NoTask}]
    BY DEF IInv, Shape, Control, ResumeBindings
  <2> QED BY <2>1, <2>2, <2>3, Apart DEF IInv, Shape, Control
<1>3. Pipes'
  BY DEF IInv, Shape, Pipes, ResumeBindings, Resumed, Goto, pipeVars, actVars
<1>4. Counts'
  BY DEF IInv, Shape, Counts, ResumeBindings, Resumed, Goto, pipeVars, actVars, countVars
<1>5. Queues'
  BY DEF IInv, Shape, Queues, ResumeBindings, Resumed, Goto, pipeVars, actVars
<1>6. Power'
  BY DEF IInv, Shape, TheKind, Power, ResumeBindings, Resumed, Goto, pipeVars, actVars
<1>7. Places'
  <2>1. mode' = mode /\ msg' = msg /\ tasks' = tasks /\ wire' = wire /\ replies' = replies
    BY DEF ResumeBindings, kinds, pipeVars
  <2>2. \A x \in Client : pc[x] \in {"count", "wait", "aborting", "ended"} => pc'[x] = pc[x]
    BY Apart DEF IInv, Shape, Control, ResumeBindings, Resumed, Goto
  <2> QED BY <2>1, <2>2, PlacesKept DEF IInv, Shape
<1>8. InHand'
  <2>1. /\ msg' = msg /\ tasks' = tasks /\ wire' = wire /\ replies' = replies /\ taken' = taken
    BY DEF ResumeBindings, pipeVars
  <2>2. pc'[Relay] = pc[Relay] /\ \A x \in Client : pc'[x] = "ended" => pc[x] = "ended"
    BY Apart DEF IInv, Shape, Control, InHand, HubReads, Releases, ResumeBindings, Resumed, Goto
  <2> QED BY <2>1, <2>2, HandKept DEF IInv
<1>9. Active'
  BY DEF IInv, Shape, Active, Pending, ResumeBindings, Resumed, Goto, kinds, pipeVars,
     actVars, countVars
<1>10. Relayed'
  <2>1. Counting' = Counting
    BY Apart DEF IInv, Shape, Control, Counting, ResumeBindings, Resumed, Goto
  <2>2. /\ mode' = mode /\ msgs' = msgs /\ wire' = wire /\ replies' = replies /\ torn' = torn
        /\ pc'[Relay] = pc[Relay]
    BY Apart DEF IInv, Shape, Control, InHand, ResumeBindings, Resumed, Goto, kinds, pipeVars,
       actVars, countVars
  <2> QED BY <2>1, <2>2 DEF IInv, Relayed
<1>11. Releases'
  BY DEF IInv, Shape, Control, Releases, ResumeBindings, Resumed, Goto, pipeVars, actVars
<1>12. HubReads'
  BY Apart DEF IInv, Shape, Control, HubReads, ResumeBindings, Resumed, Goto, pipeVars,
     actVars
<1>13. FlagFollows'
  BY Apart DEF IInv, Shape, Control, FlagFollows, ResumeBindings, Resumed, Goto, pipeVars,
     actVars
<1>14. RingsFollow'
  BY DEF IInv, Shape, Control, RingsFollow, ResumeBindings, Resumed, Goto, kinds,
     pipeVars, actVars
<1>15. BindingsFollow'
  BY DEF IInv, Shape, TheKind, Power, BindingsFollow, ResumeBindings, Resumed, Goto,
     pipeVars, actVars
<1>16. LateOnly'
  BY Apart DEF IInv, Shape, Control, LateOnly, Pending, Agreed, LeftOut, ResumeBindings,
     Resumed, Goto, pipeVars, actVars, countVars
<1> QED BY <1>1, <1>2, <1>3, <1>4, <1>5, <1>6, <1>7, <1>8, <1>9, <1>10, <1>11, <1>12, <1>13,
           <1>14, <1>15, <1>16 DEF IInv, Shape

LEMMA ReleaseIfBindingStep ==
  ASSUME IInv, NEW t \in Task, ReleaseIfBinding(t)
  PROVE  IInv'
<1>1. TheKind'
  BY DEF IInv, Shape, TheKind, ReleaseIfBinding, Resumed, Goto, kinds, pipeVars, actVars
<1>2. Control'
  BY DEF IInv, Shape, Control, ReleaseIfBinding, Resumed, Goto, pipeVars, actVars
<1>3. Pipes'
  BY DEF IInv, Shape, Pipes, ReleaseIfBinding, Resumed, Goto, pipeVars, actVars
<1>4. Counts'
  BY DEF IInv, Shape, Counts, ReleaseIfBinding, Resumed, Goto, pipeVars, actVars,
     countVars
<1>5. Queues'
  BY DEF IInv, Shape, Queues, ReleaseIfBinding, Resumed, Goto, pipeVars, actVars
<1>6. Power'
  BY DEF IInv, Shape, Power, ReleaseIfBinding, Resumed, Goto, pipeVars, actVars
<1>7. Places'
  <2>1. mode' = mode /\ msg' = msg /\ tasks' = tasks /\ wire' = wire /\ replies' = replies
    BY DEF ReleaseIfBinding, kinds, pipeVars
  <2>2. \A x \in Client : pc[x] \in {"count", "wait", "aborting", "ended"} => pc'[x] = pc[x]
    BY Apart DEF IInv, Shape, Control, ReleaseIfBinding, Resumed, Goto
  <2> QED BY <2>1, <2>2, PlacesKept DEF IInv, Shape
<1>8. InHand'
  <2>1. /\ msg' = msg /\ tasks' = tasks /\ wire' = wire /\ replies' = replies /\ taken' = taken
    BY DEF ReleaseIfBinding, pipeVars
  <2>2. pc'[Relay] = pc[Relay] /\ \A x \in Client : pc'[x] = "ended" => pc[x] = "ended"
    BY Apart DEF IInv, Shape, Control, InHand, HubReads, Releases, ReleaseIfBinding, Resumed, Goto
  <2> QED BY <2>1, <2>2, HandKept DEF IInv
<1>9. Active'
  BY DEF IInv, Shape, Active, Pending, ReleaseIfBinding, Resumed, Goto, kinds, pipeVars,
     actVars, countVars
<1>10. Relayed'
  <2>1. Counting' = Counting
    BY Apart DEF IInv, Shape, Control, Counting, ReleaseIfBinding, Resumed, Goto
  <2>2. /\ mode' = mode /\ msgs' = msgs /\ wire' = wire /\ replies' = replies /\ torn' = torn
        /\ pc'[Relay] = pc[Relay]
    BY Apart DEF IInv, Shape, Control, InHand, ReleaseIfBinding, Resumed, Goto, kinds,
       pipeVars, actVars, countVars
  <2> QED BY <2>1, <2>2 DEF IInv, Relayed
<1>11. Releases'
  BY DEF IInv, Shape, Releases, ReleaseIfBinding, Resumed, Goto, pipeVars, actVars
<1>12. HubReads'
  BY Apart DEF IInv, Shape, HubReads, ReleaseIfBinding, Resumed, Goto, pipeVars, actVars
<1>13. FlagFollows'
  BY DEF IInv, Shape, FlagFollows, ReleaseIfBinding, Resumed, Goto, pipeVars, actVars
<1>14. RingsFollow'
  BY DEF IInv, Shape, RingsFollow, ReleaseIfBinding, Resumed, Goto, kinds, pipeVars,
     actVars
<1>15. BindingsFollow'
  BY DEF IInv, Shape, BindingsFollow, ReleaseIfBinding, Resumed, Goto, kinds, pipeVars,
     actVars
<1>16. LateOnly'
  BY DEF IInv, Shape, Control, LateOnly, Pending, Agreed, LeftOut, Places,
     ReleaseIfBinding, Resumed, Goto, kinds, pipeVars, actVars, countVars, SendersWait
<1> QED BY <1>1, <1>2, <1>3, <1>4, <1>5, <1>6, <1>7, <1>8, <1>9, <1>10, <1>11, <1>12, <1>13,
           <1>14, <1>15, <1>16 DEF IInv, Shape

LEMMA UserSuspendStep ==
  ASSUME IInv, UserSuspend
  PROVE  IInv'
<1>1. TheKind'
  BY DEF IInv, Shape, TheKind, UserSuspend, SuspendDevice, Goto, kinds, pipeVars, powVars,
     actVars
<1>2. Control'
  BY Apart DEF IInv, Shape, Control, UserSuspend, SuspendDevice, Goto, pipeVars, powVars,
     actVars
<1>3. Pipes'
  BY DEF IInv, Shape, Pipes, UserSuspend, SuspendDevice, Goto, pipeVars, powVars, actVars
<1>4. Counts'
  BY DEF IInv, Shape, Counts, UserSuspend, SuspendDevice, Goto, pipeVars, powVars,
     actVars, countVars
<1>5. Queues'
  BY DEF IInv, Shape, Queues, UserSuspend, SuspendDevice, Goto, pipeVars, powVars, actVars
<1>6. Power'
  BY DEF IInv, Shape, Power, UserSuspend, SuspendDevice, Goto, pipeVars, powVars, actVars
<1>7. Places'
  <2>1. mode' = mode /\ msg' = msg /\ tasks' = tasks /\ wire' = wire /\ replies' = replies
    BY DEF UserSuspend, kinds, pipeVars
  <2>2. \A x \in Client : pc[x] \in {"count", "wait", "aborting", "ended"} => pc'[x] = pc[x]
    BY Apart DEF IInv, Shape, Control, UserSuspend, SuspendDevice, Goto
  <2> QED BY <2>1, <2>2, PlacesKept DEF IInv, Shape
<1>8. InHand'
  <2>1. /\ msg' = msg /\ tasks' = tasks /\ wire' = wire /\ replies' = replies /\ taken' = taken
    BY DEF UserSuspend, pipeVars
  <2>2. pc'[Relay] = pc[Relay] /\ \A x \in Client : pc'[x] = "ended" => pc[x] = "ended"
    BY Apart DEF IInv, Shape, Control, InHand, HubReads, Releases, UserSuspend, SuspendDevice, Goto
  <2> QED BY <2>1, <2>2, HandKept DEF IInv
<1>9. Active'
  BY DEF IInv, Shape, Active, Pending, UserSuspend, SuspendDevice, Goto, kinds, pipeVars,
     powVars, actVars, countVars
<1>10. Relayed'
  <2>1. Counting' = Counting
    BY Apart DEF IInv, Shape, Control, Counting, UserSuspend, SuspendDevice, Goto
  <2>2. /\ mode' = mode /\ msgs' = msgs /\ wire' = wire /\ replies' = replies /\ torn' = torn
        /\ pc'[Relay] = pc[Relay]
    BY Apart DEF IInv, Shape, Control, InHand, UserSuspend, SuspendDevice, Goto, kinds,
       pipeVars, actVars, countVars
  <2> QED BY <2>1, <2>2 DEF IInv, Relayed
<1>11. Releases'
  BY DEF IInv, Shape, Releases, UserSuspend, SuspendDevice, Goto, pipeVars, powVars,
     actVars
<1>12. HubReads'
  BY Apart DEF IInv, Shape, HubReads, UserSuspend, SuspendDevice, Goto, pipeVars, powVars,
     actVars
<1>13. FlagFollows'
  BY DEF IInv, Shape, FlagFollows, UserSuspend, SuspendDevice, Goto, pipeVars, powVars,
     actVars
<1>14. RingsFollow'
  BY DEF IInv, Shape, RingsFollow, UserSuspend, SuspendDevice, Goto, kinds, pipeVars,
     powVars, actVars
<1>15. BindingsFollow'
  BY DEF IInv, Shape, BindingsFollow, UserSuspend, SuspendDevice, Goto, kinds, pipeVars,
     powVars, actVars
<1>16. LateOnly'
  BY DEF IInv, Shape, LateOnly, Pending, Agreed, LeftOut, UserSuspend, SuspendDevice,
     Goto, kinds, pipeVars, powVars, actVars, countVars
<1> QED BY <1>1, <1>2, <1>3, <1>4, <1>5, <1>6, <1>7, <1>8, <1>9, <1>10, <1>11, <1>12, <1>13,
           <1>14, <1>15, <1>16 DEF IInv, Shape

LEMMA IdleSweepStep ==
  ASSUME IInv, IdleSweep
  PROVE  IInv'
<1>1. TheKind'
  BY DEF IInv, Shape, TheKind, IdleSweep, SuspendDevice, Goto, kinds, pipeVars, powVars
<1>2. Control'
  BY Apart DEF IInv, Shape, Control, IdleSweep, SuspendDevice, Goto, pipeVars, powVars
<1>3. Pipes'
  BY DEF IInv, Shape, Pipes, IdleSweep, SuspendDevice, Goto, pipeVars, powVars
<1>4. Counts'
  BY DEF IInv, Shape, Counts, IdleSweep, SuspendDevice, Goto, pipeVars, powVars, countVars
<1>5. Queues'
  BY DEF IInv, Shape, Queues, IdleSweep, SuspendDevice, Goto, pipeVars, powVars
<1>6. Power'
  BY DEF IInv, Shape, Power, IdleSweep, SuspendDevice, Goto, pipeVars, powVars
<1>7. Places'
  <2>1. mode' = mode /\ msg' = msg /\ tasks' = tasks /\ wire' = wire /\ replies' = replies
    BY DEF IdleSweep, kinds, pipeVars
  <2>2. \A x \in Client : pc[x] \in {"count", "wait", "aborting", "ended"} => pc'[x] = pc[x]
    BY Apart DEF IInv, Shape, Control, IdleSweep, SuspendDevice, Goto
  <2> QED BY <2>1, <2>2, PlacesKept DEF IInv, Shape
<1>8. InHand'
  <2>1. /\ msg' = msg /\ tasks' = tasks /\ wire' = wire /\ replies' = replies /\ taken' = taken
    BY DEF IdleSweep, pipeVars
  <2>2. pc'[Relay] = pc[Relay] /\ \A x \in Client : pc'[x] = "ended" => pc[x] = "ended"
    BY Apart DEF IInv, Shape, Control, InHand, HubReads, Releases, IdleSweep, SuspendDevice, Goto
  <2> QED BY <2>1, <2>2, HandKept DEF IInv
<1>9. Active'
  BY DEF IInv, Shape, Active, Pending, IdleSweep, SuspendDevice, Goto, kinds, pipeVars,
     powVars, countVars
<1>10. Relayed'
  <2>1. Counting' = Counting
    BY Apart DEF IInv, Shape, Control, Counting, IdleSweep, SuspendDevice, Goto
  <2>2. /\ mode' = mode /\ msgs' = msgs /\ wire' = wire /\ replies' = replies /\ torn' = torn
        /\ pc'[Relay] = pc[Relay]
    BY Apart DEF IInv, Shape, Control, InHand, IdleSweep, SuspendDevice, Goto, kinds, pipeVars,
       actVars, countVars
  <2> QED BY <2>1, <2>2 DEF IInv, Relayed
<1>11. Releases'
  BY DEF IInv, Shape, Control, Releases, IdleSweep, SuspendDevice, Goto, pipeVars, powVars
<1>12. HubReads'
  BY Apart DEF IInv, Shape, Control, HubReads, IdleSweep, SuspendDevice, Goto, pipeVars,
     powVars
<1>13. FlagFollows'
  BY Apart DEF IInv, Shape, Control, FlagFollows, IdleSweep, SuspendDevice, Goto,
     pipeVars, powVars
<1>14. RingsFollow'
  BY DEF IInv, Shape, Control, RingsFollow, IdleSweep, SuspendDevice, Goto, kinds,
     pipeVars, powVars
<1>15. BindingsFollow'
  BY DEF IInv, Shape, Control, BindingsFollow, IdleSweep, SuspendDevice, Goto, kinds,
     pipeVars, powVars
<1>16. LateOnly'
  BY Apart DEF IInv, Shape, Control, LateOnly, Pending, Agreed, LeftOut, IdleSweep,
     SuspendDevice, Goto, kinds, pipeVars, powVars, countVars
<1> QED BY <1>1, <1>2, <1>3, <1>4, <1>5, <1>6, <1>7, <1>8, <1>9, <1>10, <1>11, <1>12, <1>13,
           <1>14, <1>15, <1>16 DEF IInv, Shape

LEMMA SuspendBindingsStep ==
  ASSUME IInv, NEW s \in Suspender, SuspendBindings(s)
  PROVE  IInv'
<1>1. TheKind'
  BY DEF IInv, Shape, TheKind, SuspendBindings, Declines, Goto, kinds, pipeVars, actVars
<1>2. Control'
  BY Apart DEF IInv, Shape, TheKind, Control, SuspendBindings, Declines, Goto, pipeVars,
     actVars
<1>3. Pipes'
  BY DEF IInv, Shape, Pipes, SuspendBindings, Declines, Goto, pipeVars, actVars
<1>4. Counts'
  BY DEF IInv, Shape, Counts, SuspendBindings, Declines, Goto, pipeVars, actVars,
     countVars
<1>5. Queues'
  BY DEF IInv, Shape, Queues, SuspendBindings, Declines, Goto, pipeVars, actVars
<1>6. Power'
  BY DEF IInv, Shape, Power, SuspendBindings, Declines, Goto, pipeVars, actVars
<1>7. Places'
  <2>1. mode' = mode /\ msg' = msg /\ tasks' = tasks /\ wire' = wire /\ replies' = replies
    BY DEF SuspendBindings, kinds, pipeVars
  <2>2. \A x \in Client : pc[x] \in {"count", "wait", "aborting", "ended"} => pc'[x] = pc[x]
    BY Apart DEF IInv, Shape, Control, SuspendBindings, Declines, Goto
  <2> QED BY <2>1, <2>2, PlacesKept DEF IInv, Shape
<1>8. InHand'
  <2>1. /\ msg' = msg /\ tasks' = tasks /\ wire' = wire /\ replies' = replies /\ taken' = taken
    BY DEF SuspendBindings, pipeVars
  <2>2. pc'[Relay] = pc[Relay] /\ \A x \in Client : pc'[x] = "ended" => pc[x] = "ended"
    BY Apart DEF IInv, Shape, Control, InHand, HubReads, Releases, SuspendBindings, Declines, Goto
  <2> QED BY <2>1, <2>2, HandKept DEF IInv
<1>9. Active'
  BY DEF IInv, Shape, Active, Pending, SuspendBindings, Declines, Goto, kinds, pipeVars,
     actVars, countVars
<1>10. Relayed'
  <2>1. Counting' = Counting
    BY Apart DEF IInv, Shape, Control, Counting, SuspendBindings, Declines, Goto
  <2>2. /\ mode' = mode /\ msgs' = msgs /\ wire' = wire /\ replies' = replies /\ torn' = torn
        /\ pc'[Relay] = pc[Relay]
    BY Apart DEF IInv, Shape, Control, InHand, SuspendBindings, Declines, Goto, kinds,
       pipeVars, actVars, countVars
  <2> QED BY <2>1, <2>2 DEF IInv, Relayed
<1>11. Releases'
  BY DEF IInv, Shape, Control, Releases, SuspendBindings, Declines, Goto, pipeVars,
     actVars
<1>12. HubReads'
  BY Apart DEF IInv, Shape, Control, HubReads, SuspendBindings, Declines, Goto, pipeVars,
     actVars
<1>13. FlagFollows'
  BY Apart DEF IInv, Shape, Control, FlagFollows, SuspendBindings, Declines, Goto,
     pipeVars, actVars
<1>14. RingsFollow'
  BY DEF IInv, Shape, Control, RingsFollow, SuspendBindings, Declines, Goto, kinds,
     pipeVars, actVars
<1>15. BindingsFollow'
  BY Apart DEF IInv, Shape, Control, BindingsFollow, SuspendBindings, Declines, Goto,
     kinds, pipeVars, actVars
<1>16. LateOnly'
  <2>1. /\ msg' = msg /\ late' = late /\ releaser' = releaser /\ lost' = lost /\ flag' = flag
        /\ port' = port /\ pc[s] = "ask" /\ s \in Suspender /\ Pending' = Pending
    BY DEF SuspendBindings, pipeVars, Pending
  <2>2. \A x \in Task : x # s => pc'[x] = pc[x]
    BY DEF IInv, Shape, Control, SuspendBindings, Rollback, Goto
  <2>3. Suspender \subseteq Task
    BY DEF Task
  <2>4. CASE back' = back \cup {s} /\ pc'[s] = "unpark"
    <3>1. Agreed' => Agreed
      BY <2>1, <2>2, <2>3, <2>4 DEF Agreed
    <3>2. listens' = listens /\ supports' = supports /\ torn' = torn
      BY DEF SuspendBindings, kinds, actVars, countVars
    <3> QED BY <2>1, <3>1, <3>2 DEF IInv, LateOnly, LeftOut
  <2>5. CASE \A x \in Client : releaser[x] = NoTask => ~Declines(x)
    <3>1. ASSUME NEW x \in Pending, releaser[x] = NoTask, "busy" \notin torn
          PROVE  x \in listens \ supports
      <4>1. x \in Client /\ ~Declines(x) /\ pc[x] # "idle"
        BY <2>5, <3>1 DEF IInv, Places, SendersWait, Pending
      <4>2. busy = 0 /\ x \notin supports
        BY <4>1 DEF Declines
      <4>3. act \ listens = {} /\ act = Pending
        BY <3>1, <4>2, Sizes DEF IInv, Shape, Pipes, Active
      <4> QED BY <3>1, <4>2, <4>3
    <3>2. listens' = listens /\ supports' = supports /\ torn' = torn
      BY DEF SuspendBindings, kinds, actVars, countVars
    <3> QED BY <2>1, <3>1, <3>2 DEF LateOnly, LeftOut
  <2>6. \/ \A x \in Client : releaser[x] = NoTask => ~Declines(x)
        \/ back' = back \cup {s} /\ pc'[s] = "unpark"
    BY <2>3 DEF IInv, Shape, Control, SuspendBindings, Rollback, Goto
  <2> QED BY <2>4, <2>5, <2>6
<1> QED BY <1>1, <1>2, <1>3, <1>4, <1>5, <1>6, <1>7, <1>8, <1>9, <1>10, <1>11, <1>12, <1>13,
           <1>14, <1>15, <1>16 DEF IInv, Shape

LEMMA ArmRemoteWakeupStep ==
  ASSUME IInv, NEW s \in Suspender, ArmRemoteWakeup(s)
  PROVE  IInv'
<1>1. TheKind'
  BY DEF IInv, Shape, TheKind, ArmRemoteWakeup, Goto, kinds, pipeVars, powVars
<1>2. Control'
  BY Apart DEF IInv, Shape, Control, ArmRemoteWakeup, Goto, pipeVars, powVars
<1>3. Pipes'
  BY DEF IInv, Shape, Pipes, ArmRemoteWakeup, Goto, pipeVars, powVars
<1>4. Counts'
  BY DEF IInv, Shape, Counts, ArmRemoteWakeup, Goto, pipeVars, powVars, countVars
<1>5. Queues'
  BY DEF IInv, Shape, Queues, ArmRemoteWakeup, Goto, pipeVars, powVars
<1>6. Power'
  BY DEF IInv, Shape, Power, ArmRemoteWakeup, Goto, pipeVars, powVars
<1>7. Places'
  <2>1. mode' = mode /\ msg' = msg /\ tasks' = tasks /\ wire' = wire /\ replies' = replies
    BY DEF ArmRemoteWakeup, kinds, pipeVars
  <2>2. \A x \in Client : pc[x] \in {"count", "wait", "aborting", "ended"} => pc'[x] = pc[x]
    BY Apart DEF IInv, Shape, Control, ArmRemoteWakeup, Goto
  <2> QED BY <2>1, <2>2, PlacesKept DEF IInv, Shape
<1>8. InHand'
  <2>1. /\ msg' = msg /\ tasks' = tasks /\ wire' = wire /\ replies' = replies /\ taken' = taken
    BY DEF ArmRemoteWakeup, pipeVars
  <2>2. pc'[Relay] = pc[Relay] /\ \A x \in Client : pc'[x] = "ended" => pc[x] = "ended"
    BY Apart DEF IInv, Shape, Control, InHand, HubReads, Releases, ArmRemoteWakeup, Goto
  <2> QED BY <2>1, <2>2, HandKept DEF IInv
<1>9. Active'
  BY DEF IInv, Shape, Active, Pending, ArmRemoteWakeup, Goto, kinds, pipeVars, powVars,
     countVars
<1>10. Relayed'
  <2>1. Counting' = Counting
    BY Apart DEF IInv, Shape, Control, Counting, ArmRemoteWakeup, Goto
  <2>2. /\ mode' = mode /\ msgs' = msgs /\ wire' = wire /\ replies' = replies /\ torn' = torn
        /\ pc'[Relay] = pc[Relay]
    BY Apart DEF IInv, Shape, Control, InHand, ArmRemoteWakeup, Goto, kinds, pipeVars, actVars,
       countVars
  <2> QED BY <2>1, <2>2 DEF IInv, Relayed
<1>11. Releases'
  BY DEF IInv, Shape, Releases, ArmRemoteWakeup, Goto, pipeVars, powVars
<1>12. HubReads'
  BY DEF IInv, Shape, HubReads, ArmRemoteWakeup, Goto, pipeVars, powVars
<1>13. FlagFollows'
  BY DEF IInv, Shape, FlagFollows, ArmRemoteWakeup, Goto, pipeVars, powVars
<1>14. RingsFollow'
  BY DEF IInv, Shape, RingsFollow, ArmRemoteWakeup, Goto, kinds, pipeVars, powVars
<1>15. BindingsFollow'
  BY DEF IInv, Shape, BindingsFollow, ArmRemoteWakeup, Goto, kinds, pipeVars, powVars
<1>16. LateOnly'
  BY DEF IInv, Shape, LateOnly, Pending, Agreed, LeftOut, ArmRemoteWakeup, Goto, kinds,
     pipeVars, powVars, countVars
<1> QED BY <1>1, <1>2, <1>3, <1>4, <1>5, <1>6, <1>7, <1>8, <1>9, <1>10, <1>11, <1>12, <1>13,
           <1>14, <1>15, <1>16 DEF IInv, Shape

LEMMA QuiesceRingsStep ==
  ASSUME IInv, NEW s \in Suspender, QuiesceRings(s)
  PROVE  IInv'
<1>1. TheKind'
  BY DEF IInv, Shape, TheKind, QuiesceRings, Fault, Rollback, Goto, kinds, pipeVars,
     actVars
<1>2. Control'
  BY Apart DEF IInv, Shape, TheKind, Control, QuiesceRings, Fault, Rollback, Goto,
     pipeVars, actVars
<1>3. Pipes'
  BY DEF IInv, Shape, Pipes, QuiesceRings, Fault, Rollback, Goto, pipeVars, actVars
<1>4. Counts'
  BY DEF IInv, Shape, Counts, QuiesceRings, Fault, Rollback, Goto, pipeVars, actVars,
     countVars
<1>5. Queues'
  BY DEF IInv, Shape, Queues, QuiesceRings, Fault, Rollback, Goto, pipeVars, actVars
<1>6. Power'
  BY DEF IInv, Shape, Power, QuiesceRings, Fault, Rollback, Goto, pipeVars, actVars
<1>7. Places'
  <2>1. mode' = mode /\ msg' = msg /\ tasks' = tasks /\ wire' = wire /\ replies' = replies
    BY DEF QuiesceRings, kinds, pipeVars
  <2>2. \A x \in Client : pc[x] \in {"count", "wait", "aborting", "ended"} => pc'[x] = pc[x]
    BY Apart DEF IInv, Shape, Control, QuiesceRings, Fault, Rollback, Goto
  <2> QED BY <2>1, <2>2, PlacesKept DEF IInv, Shape
<1>8. InHand'
  <2>1. /\ msg' = msg /\ tasks' = tasks /\ wire' = wire /\ replies' = replies /\ taken' = taken
    BY DEF QuiesceRings, pipeVars
  <2>2. pc'[Relay] = pc[Relay] /\ \A x \in Client : pc'[x] = "ended" => pc[x] = "ended"
    BY Apart DEF IInv, Shape, Control, InHand, HubReads, Releases, QuiesceRings, Fault,
       Rollback, Goto
  <2> QED BY <2>1, <2>2, HandKept DEF IInv
<1>9. Active'
  BY DEF IInv, Shape, Active, Pending, QuiesceRings, Fault, Rollback, Goto, kinds,
     pipeVars, actVars, countVars
<1>10. Relayed'
  <2>1. Counting' = Counting
    BY Apart DEF IInv, Shape, Control, Counting, QuiesceRings, Fault, Rollback, Goto
  <2>2. /\ mode' = mode /\ msgs' = msgs /\ wire' = wire /\ replies' = replies /\ torn' = torn
        /\ pc'[Relay] = pc[Relay]
    BY Apart DEF IInv, Shape, Control, InHand, QuiesceRings, Fault, Rollback, Goto, kinds,
       pipeVars, actVars, countVars
  <2> QED BY <2>1, <2>2 DEF IInv, Relayed
<1>11. Releases'
  BY DEF IInv, Shape, Control, Releases, QuiesceRings, Fault, Rollback, Goto, pipeVars,
     actVars
<1>12. HubReads'
  BY Apart DEF IInv, Shape, Control, HubReads, QuiesceRings, Fault, Rollback, Goto,
     pipeVars, actVars
<1>13. FlagFollows'
  BY Apart DEF IInv, Shape, Control, FlagFollows, QuiesceRings, Fault, Rollback, Goto,
     pipeVars, actVars
<1>14. RingsFollow'
  BY Apart DEF IInv, Shape, Control, RingsFollow, QuiesceRings, Fault, Rollback, Goto,
     pipeVars, actVars
<1>15. BindingsFollow'
  BY DEF IInv, Shape, Control, BindingsFollow, QuiesceRings, Fault, Rollback, Goto, kinds,
     pipeVars, actVars
<1>16. LateOnly'
  BY DEF IInv, Shape, LateOnly, Pending, Agreed, LeftOut, QuiesceRings, Fault, Rollback,
     Goto, kinds, pipeVars, actVars, countVars
<1> QED BY <1>1, <1>2, <1>3, <1>4, <1>5, <1>6, <1>7, <1>8, <1>9, <1>10, <1>11, <1>12, <1>13,
           <1>14, <1>15, <1>16 DEF IInv, Shape

LEMMA HubSuspendDeviceStep ==
  ASSUME IInv, NEW s \in Suspender, HubSuspendDevice(s)
  PROVE  IInv'
<1>1. TheKind'
  BY DEF IInv, Shape, TheKind, HubSuspendDevice, Fault, HubFree, Rollback, Goto, kinds,
     pipeVars, actVars
<1>2. Control'
  <2>1. PICK l \in {"idle", "unpark"} : pc' = [pc EXCEPT ![s] = l]
    BY DEF HubSuspendDevice, Rollback, Goto
  <2>2. back' \in SUBSET Suspender /\ releaser' = releaser
    BY DEF IInv, Shape, Control, HubSuspendDevice, Rollback
  <2> QED BY <2>1, <2>2, Apart DEF IInv, Shape, Control
<1>3. Pipes'
  BY DEF IInv, Shape, Pipes, HubSuspendDevice, Fault, HubFree, Rollback, Goto, pipeVars,
     actVars
<1>4. Counts'
  BY DEF IInv, Shape, Counts, HubSuspendDevice, Fault, HubFree, Rollback, Goto, pipeVars,
     actVars, countVars
<1>5. Queues'
  BY DEF IInv, Shape, Queues, HubSuspendDevice, Fault, HubFree, Rollback, Goto, pipeVars,
     actVars
<1>6. Power'
  BY DEF IInv, Shape, Power, HubSuspendDevice, Fault, HubFree, Rollback, Goto, pipeVars,
     actVars
<1>7. Places'
  <2>1. mode' = mode /\ msg' = msg /\ tasks' = tasks /\ wire' = wire /\ replies' = replies
    BY DEF HubSuspendDevice, kinds, pipeVars
  <2>2. \A x \in Client : pc[x] \in {"count", "wait", "aborting", "ended"} => pc'[x] = pc[x]
    BY Apart DEF IInv, Shape, Control, HubSuspendDevice, Fault, HubFree, Rollback, Goto
  <2> QED BY <2>1, <2>2, PlacesKept DEF IInv, Shape
<1>8. InHand'
  <2>1. /\ msg' = msg /\ tasks' = tasks /\ wire' = wire /\ replies' = replies /\ taken' = taken
    BY DEF HubSuspendDevice, pipeVars
  <2>2. pc'[Relay] = pc[Relay] /\ \A x \in Client : pc'[x] = "ended" => pc[x] = "ended"
    BY Apart DEF IInv, Shape, Control, InHand, HubReads, Releases, HubSuspendDevice, Fault,
       HubFree, Rollback, Goto
  <2> QED BY <2>1, <2>2, HandKept DEF IInv
<1>9. Active'
  BY DEF IInv, Shape, Active, Pending, HubSuspendDevice, Fault, HubFree, Rollback, Goto,
     kinds, pipeVars, actVars, countVars
<1>10. Relayed'
  <2>1. Counting' = Counting
    BY Apart DEF IInv, Shape, Control, Counting, HubSuspendDevice, Fault, HubFree, Rollback, Goto
  <2>2. /\ mode' = mode /\ msgs' = msgs /\ wire' = wire /\ replies' = replies /\ torn' = torn
        /\ pc'[Relay] = pc[Relay]
    BY Apart DEF IInv, Shape, Control, InHand, HubSuspendDevice, Fault, HubFree, Rollback,
       Goto, kinds, pipeVars, actVars, countVars
  <2> QED BY <2>1, <2>2 DEF IInv, Relayed
<1>11. Releases'
  BY DEF IInv, Shape, Control, Releases, HubSuspendDevice, Fault, HubFree, Rollback, Goto,
     pipeVars, actVars
<1>12. HubReads'
  BY Apart DEF IInv, Shape, Control, HubReads, HubSuspendDevice, Fault, HubFree, Rollback,
     Goto, pipeVars, actVars
<1>13. FlagFollows'
  BY Apart DEF IInv, Shape, Control, FlagFollows, HubSuspendDevice, Fault, HubFree,
     Rollback, Goto, pipeVars, actVars
<1>14. RingsFollow'
  BY DEF IInv, Shape, Control, RingsFollow, HubSuspendDevice, Fault, HubFree, Rollback,
     Goto, kinds, pipeVars, actVars
<1>15. BindingsFollow'
  BY DEF IInv, Shape, Control, BindingsFollow, HubSuspendDevice, Fault, HubFree, Rollback,
     Goto, kinds, pipeVars, actVars
<1>16. LateOnly'
  BY DEF IInv, Shape, LateOnly, Pending, Agreed, LeftOut, HubSuspendDevice, Fault,
     HubFree, Rollback, Goto, kinds, pipeVars, actVars, countVars
<1> QED BY <1>1, <1>2, <1>3, <1>4, <1>5, <1>6, <1>7, <1>8, <1>9, <1>10, <1>11, <1>12, <1>13,
           <1>14, <1>15, <1>16 DEF IInv, Shape

LEMMA RemoteWakeupStep ==
  ASSUME IInv, RemoteWakeup
  PROVE  IInv'
<1>1. TheKind'
  BY DEF IInv, Shape, TheKind, RemoteWakeup, Fault, kinds, pipeVars, actVars
<1>2. Control'
  BY DEF IInv, Shape, Control, RemoteWakeup, Fault, pipeVars, actVars
<1>3. Pipes'
  BY DEF IInv, Shape, Pipes, RemoteWakeup, Fault, pipeVars, actVars
<1>4. Counts'
  BY DEF IInv, Shape, Counts, RemoteWakeup, Fault, pipeVars, actVars, countVars
<1>5. Queues'
  BY DEF IInv, Shape, Queues, RemoteWakeup, Fault, pipeVars, actVars
<1>6. Power'
  BY DEF IInv, Shape, Power, RemoteWakeup, Fault, pipeVars, actVars
<1>7. Places'
  <2>1. mode' = mode /\ msg' = msg /\ tasks' = tasks /\ wire' = wire /\ replies' = replies
    BY DEF RemoteWakeup, kinds, pipeVars
  <2>2. \A x \in Client : pc[x] \in {"count", "wait", "aborting", "ended"} => pc'[x] = pc[x]
    BY Apart DEF IInv, Shape, Control, RemoteWakeup, Fault
  <2> QED BY <2>1, <2>2, PlacesKept DEF IInv, Shape
<1>8. InHand'
  <2>1. /\ msg' = msg /\ tasks' = tasks /\ wire' = wire /\ replies' = replies /\ taken' = taken
    BY DEF RemoteWakeup, pipeVars
  <2>2. pc'[Relay] = pc[Relay] /\ \A x \in Client : pc'[x] = "ended" => pc[x] = "ended"
    BY Apart DEF IInv, Shape, Control, InHand, HubReads, Releases, RemoteWakeup, Fault
  <2> QED BY <2>1, <2>2, HandKept DEF IInv
<1>9. Active'
  BY DEF IInv, Shape, Active, Pending, RemoteWakeup, Fault, kinds, pipeVars, actVars,
     countVars
<1>10. Relayed'
  <2>1. Counting' = Counting
    BY Apart DEF IInv, Shape, Control, Counting, RemoteWakeup, Fault
  <2>2. /\ mode' = mode /\ msgs' = msgs /\ wire' = wire /\ replies' = replies /\ torn' = torn
        /\ pc'[Relay] = pc[Relay]
    BY Apart DEF IInv, Shape, Control, InHand, RemoteWakeup, Fault, kinds, pipeVars, actVars,
       countVars
  <2> QED BY <2>1, <2>2 DEF IInv, Relayed
<1>11. Releases'
  BY DEF IInv, Shape, Releases, RemoteWakeup, Fault, pipeVars, actVars
<1>12. HubReads'
  BY DEF IInv, Shape, HubReads, RemoteWakeup, Fault, pipeVars, actVars
<1>13. FlagFollows'
  BY DEF IInv, Shape, FlagFollows, RemoteWakeup, Fault, pipeVars, actVars
<1>14. RingsFollow'
  BY DEF IInv, Shape, RingsFollow, RemoteWakeup, Fault, kinds, pipeVars, actVars
<1>15. BindingsFollow'
  BY DEF IInv, Shape, BindingsFollow, RemoteWakeup, Fault, kinds, pipeVars, actVars
<1>16. LateOnly'
  BY DEF IInv, Shape, LateOnly, Pending, Agreed, LeftOut, RemoteWakeup, Fault, kinds,
     pipeVars, actVars, countVars
<1> QED BY <1>1, <1>2, <1>3, <1>4, <1>5, <1>6, <1>7, <1>8, <1>9, <1>10, <1>11, <1>12, <1>13,
           <1>14, <1>15, <1>16 DEF IInv, Shape

LEMMA HubStatusStep ==
  ASSUME IInv, HubStatus
  PROVE  IInv'
<1>1. TheKind'
  BY DEF IInv, Shape, TheKind, HubStatus, HubFree, Goto, kinds, pipeVars, actVars
<1>2. Control'
  BY Apart DEF IInv, Shape, Control, HubStatus, HubFree, Goto, pipeVars, actVars
<1>3. Pipes'
  BY DEF IInv, Shape, Pipes, HubStatus, HubFree, Goto, pipeVars, actVars
<1>4. Counts'
  BY DEF IInv, Shape, Counts, HubStatus, HubFree, Goto, pipeVars, actVars, countVars
<1>5. Queues'
  BY DEF IInv, Shape, Queues, HubStatus, HubFree, Goto, pipeVars, actVars
<1>6. Power'
  BY DEF IInv, Shape, Power, HubStatus, HubFree, Goto, pipeVars, actVars
<1>7. Places'
  <2>1. mode' = mode /\ msg' = msg /\ tasks' = tasks /\ wire' = wire /\ replies' = replies
    BY DEF HubStatus, kinds, pipeVars
  <2>2. \A x \in Client : pc[x] \in {"count", "wait", "aborting", "ended"} => pc'[x] = pc[x]
    BY Apart DEF IInv, Shape, Control, HubStatus, HubFree, Goto
  <2> QED BY <2>1, <2>2, PlacesKept DEF IInv, Shape
<1>8. InHand'
  <2>1. /\ msg' = msg /\ tasks' = tasks /\ wire' = wire /\ replies' = replies /\ taken' = taken
    BY DEF HubStatus, pipeVars
  <2>2. pc'[Relay] = pc[Relay] /\ \A x \in Client : pc'[x] = "ended" => pc[x] = "ended"
    BY Apart DEF IInv, Shape, Control, InHand, HubReads, Releases, HubStatus, HubFree, Goto
  <2> QED BY <2>1, <2>2, HandKept DEF IInv
<1>9. Active'
  BY DEF IInv, Shape, Active, Pending, HubStatus, HubFree, Goto, kinds, pipeVars, actVars,
     countVars
<1>10. Relayed'
  <2>1. Counting' = Counting
    BY Apart DEF IInv, Shape, Control, Counting, HubStatus, HubFree, Goto
  <2>2. /\ mode' = mode /\ msgs' = msgs /\ wire' = wire /\ replies' = replies /\ torn' = torn
        /\ pc'[Relay] = pc[Relay]
    BY Apart DEF IInv, Shape, Control, InHand, HubStatus, HubFree, Goto, kinds, pipeVars,
       actVars, countVars
  <2> QED BY <2>1, <2>2 DEF IInv, Relayed
<1>11. Releases'
  BY DEF IInv, Shape, Releases, HubStatus, HubFree, Goto, pipeVars, actVars
<1>12. HubReads'
  BY DEF IInv, Shape, HubReads, HubStatus, HubFree, Goto, pipeVars, actVars
<1>13. FlagFollows'
  BY DEF IInv, Shape, FlagFollows, HubStatus, HubFree, Goto, pipeVars, actVars
<1>14. RingsFollow'
  BY DEF IInv, Shape, RingsFollow, HubStatus, HubFree, Goto, kinds, pipeVars, actVars
<1>15. BindingsFollow'
  BY DEF IInv, Shape, BindingsFollow, HubStatus, HubFree, Goto, kinds, pipeVars, actVars
<1>16. LateOnly'
  BY DEF IInv, Shape, LateOnly, Pending, Agreed, LeftOut, HubStatus, HubFree, Goto, kinds,
     pipeVars, actVars, countVars
<1> QED BY <1>1, <1>2, <1>3, <1>4, <1>5, <1>6, <1>7, <1>8, <1>9, <1>10, <1>11, <1>12, <1>13,
           <1>14, <1>15, <1>16 DEF IInv, Shape

LEMMA SuspendChangeStep ==
  ASSUME IInv, SuspendChange
  PROVE  IInv'
<1>1. TheKind'
  BY DEF IInv, Shape, TheKind, SuspendChange, Goto, kinds, pipeVars, actVars
<1>2. Control'
  BY Apart DEF IInv, Shape, Control, SuspendChange, Goto, pipeVars, actVars
<1>3. Pipes'
  BY DEF IInv, Shape, Pipes, SuspendChange, Goto, pipeVars, actVars
<1>4. Counts'
  BY DEF IInv, Shape, Counts, SuspendChange, Goto, pipeVars, actVars, countVars
<1>5. Queues'
  BY DEF IInv, Shape, Queues, SuspendChange, Goto, pipeVars, actVars
<1>6. Power'
  BY DEF IInv, Shape, Power, SuspendChange, Goto, pipeVars, actVars
<1>7. Places'
  <2>1. mode' = mode /\ msg' = msg /\ tasks' = tasks /\ wire' = wire /\ replies' = replies
    BY DEF SuspendChange, kinds, pipeVars
  <2>2. \A x \in Client : pc[x] \in {"count", "wait", "aborting", "ended"} => pc'[x] = pc[x]
    BY Apart DEF IInv, Shape, Control, SuspendChange, Goto
  <2> QED BY <2>1, <2>2, PlacesKept DEF IInv, Shape
<1>8. InHand'
  <2>1. /\ msg' = msg /\ tasks' = tasks /\ wire' = wire /\ replies' = replies /\ taken' = taken
    BY DEF SuspendChange, pipeVars
  <2>2. pc'[Relay] = pc[Relay] /\ \A x \in Client : pc'[x] = "ended" => pc[x] = "ended"
    BY Apart DEF IInv, Shape, Control, InHand, HubReads, Releases, SuspendChange, Goto
  <2> QED BY <2>1, <2>2, HandKept DEF IInv
<1>9. Active'
  BY DEF IInv, Shape, Active, Pending, SuspendChange, Goto, kinds, pipeVars, actVars,
     countVars
<1>10. Relayed'
  <2>1. Counting' = Counting
    BY Apart DEF IInv, Shape, Control, Counting, SuspendChange, Goto
  <2>2. /\ mode' = mode /\ msgs' = msgs /\ wire' = wire /\ replies' = replies /\ torn' = torn
        /\ pc'[Relay] = pc[Relay]
    BY Apart DEF IInv, Shape, Control, InHand, SuspendChange, Goto, kinds, pipeVars, actVars,
       countVars
  <2> QED BY <2>1, <2>2 DEF IInv, Relayed
<1>11. Releases'
  BY DEF IInv, Shape, Releases, SuspendChange, Goto, pipeVars, actVars
<1>12. HubReads'
  BY Apart DEF IInv, Shape, Control, HubReads, SuspendChange, Goto, pipeVars, actVars
<1>13. FlagFollows'
  BY DEF IInv, Shape, FlagFollows, SuspendChange, Goto, pipeVars, actVars
<1>14. RingsFollow'
  BY Apart DEF IInv, Shape, Control, Power, RingsFollow, SuspendChange, Goto, kinds,
     pipeVars, actVars
<1>15. BindingsFollow'
  BY Apart DEF IInv, Shape, Control, Power, BindingsFollow, SuspendChange, Goto, kinds,
     pipeVars, actVars
<1>16. LateOnly'
  BY Apart DEF IInv, Shape, Control, LateOnly, Pending, Agreed, LeftOut, SuspendChange,
     Goto, kinds, pipeVars, actVars, countVars
<1> QED BY <1>1, <1>2, <1>3, <1>4, <1>5, <1>6, <1>7, <1>8, <1>9, <1>10, <1>11, <1>12, <1>13,
           <1>14, <1>15, <1>16 DEF IInv, Shape

-----------------------------------------------------------------------------
LEMMA InitIInv == Init => IInv
<1> SUFFICES ASSUME Init PROVE IInv
  OBVIOUS
<1>1. <<>> \in Seq(Message) /\ <<>> \in Seq(Client)
  BY EmptySeq
<1>2. TheKind /\ Pipes /\ Counts /\ Queues /\ Power
  <2>1. TheKind
    <3>1. PICK k \in Kinds : /\ mode = k.mode /\ canWake = k.canWake
                              /\ supports = k.supports /\ listens = k.listens
      BY DEF Init
    <3> QED BY <3>1, KindAssumption DEF TheKind
  <2>2. Pipes /\ Counts /\ Queues /\ Power
    BY <1>1 DEF Init, Pipes, Counts, Queues, Power
  <2> QED BY <2>1, <2>2
<1>c. Control
  BY Apart DEF Init, Control
<1>3. Places
  BY DEF Init, Places, SendersWait, OnWire, InReplies, InTasks, NoRelay
<1>4. Active
  <2>1. {} \ listens = {}
    OBVIOUS
  <2> QED BY <2>1, FS_EmptySet DEF Init, Active, Pending
<1>5. Counting = {}
  BY Apart DEF Init, Counting
<1>6. Relayed
  <2>1. Len(<<>>) = 0
    BY EmptySeq
  <2> QED BY <1>5, <2>1, FS_EmptySet, Apart DEF Init, Relayed, Task
<1>7. Releases /\ HubReads
  BY Apart DEF Init, Releases, HubReads
<1>8. FlagFollows /\ RingsFollow /\ BindingsFollow
  BY DEF Init, FlagFollows, RingsFollow, BindingsFollow
<1>h. InHand
  BY Apart DEF Init, InHand, Completes, Task
<1>9. LateOnly
  BY DEF Init, LateOnly, Pending
<1> QED BY <1>2, <1>c, <1>3, <1>h, <1>4, <1>6, <1>7, <1>8, <1>9 DEF IInv, Shape

LEMMA StutterIInv == IInv /\ UNCHANGED vars => IInv'
<1> SUFFICES ASSUME IInv, UNCHANGED vars PROVE IInv'
  OBVIOUS
<1> USE DEF vars, kinds, pipeVars, powVars, actVars, countVars
<1>1. Shape'
  BY DEF IInv, Shape, TheKind, Control, Pipes, Counts, Queues, Power
<1>2. Places'
  BY PlacesKept DEF IInv, Shape
<1>h. InHand'
  BY HandKept DEF IInv
<1>3. Active' /\ Relayed'
  BY DEF IInv, Active, Pending, Relayed, Counting
<1>4. Releases' /\ HubReads' /\ FlagFollows' /\ RingsFollow' /\ BindingsFollow'
  BY DEF IInv, Releases, HubReads, FlagFollows, RingsFollow, BindingsFollow
<1>5. LateOnly'
  BY DEF IInv, LateOnly, LeftOut, Agreed, Pending
<1> QED BY <1>1, <1>2, <1>h, <1>3, <1>4, <1>5 DEF IInv

LEMMA ClientsGo ==
  ASSUME IInv, NEW c \in Client, Caller(c) \/ TransferEnds(c) \/ Send(c) \/ CancelTransfer(c)
  PROVE  IInv'
<1>1. CASE AbortPipe(c)
  BY <1>1, AbortPipeStep
<1>2. EndTask(c) \/ CancelTransfer(c) => AbortPipe(c)
  BY DEF EndTask, CancelTransfer
<1> QED BY <1>1, <1>2, SubmitPipeStep, SubmitStep, CountDeferredStep, EndOwnStep,
            CollectStep, TransferEndsStep, SendStep, Zenon
        DEF Caller

LEMMA PowerGoes ==
  ASSUME IInv, \/ \E t \in Task : Resume(t)
               \/ \E s \in Suspender : Suspend(s)
               \/ HubStatus \/ SuspendChange \/ IdleSweep \/ UserSuspend \/ RemoteWakeup
  PROVE  IInv'
<1>1. ASSUME NEW t \in Task, Resume(t)
      PROVE  IInv'
  BY <1>1, HubResumeDeviceStep, RestartRingsStep, ResumeBindingsStep, ReleaseIfBindingStep, Zenon
     DEF Resume
<1>2. ASSUME NEW s \in Suspender, Suspend(s)
      PROVE  IInv'
  BY <1>2, SuspendBindingsStep, ArmRemoteWakeupStep, QuiesceRingsStep, HubSuspendDeviceStep, Zenon
     DEF Suspend
<1> QED BY <1>1, <1>2, HubStatusStep, SuspendChangeStep, IdleSweepStep, UserSuspendStep,
           RemoteWakeupStep, Zenon

LEMMA Invariant == Spec => []IInv
<1>1. IInv /\ [Next]_vars => IInv'
  BY ClientsGo, PowerGoes, RelayTakeStep, RelayReplyStep, DeliverStep, RelayUncountStep,
     StutterIInv, Zenon DEF Next, Work
<1> QED BY InitIInv, <1>1, PTL DEF Spec

\* The bounds and the Boolean variables, which nothing else rests on.
LEMMA BoundsGo == ASSUME Bounds, [Next]_vars PROVE Bounds'
<1>1. MaxSends \in Nat /\ MaxSuspends \in Nat /\ MaxFaults \in Nat
  BY BoundAssumption
<1>2. ASSUME NEW c \in Client, Caller(c) \/ CancelTransfer(c) \/ Send(c) \/ TransferEnds(c)
      PROVE  Bounds'
  <2>1. CASE Submit(c)
    BY <1>1, <2>1 DEF Submit, Bounds, budget
  <2>8. CASE SubmitPipe(c)
    BY <1>1, <2>8 DEF SubmitPipe, Bounds, budget
  <2>9. CASE EndOwn(c)
    BY <1>1, <2>9 DEF EndOwn, Bounds, budget
  <2>2. CASE CountDeferred(c)
    BY <1>1, <2>2 DEF CountDeferred, Bounds, budget
  <2>3. CASE Collect(c)
    BY <1>1, <2>3 DEF Collect, Bounds, budget
  <2>4. CASE EndTask(c)
    BY <1>1, <2>4 DEF EndTask, AbortPipe, Bounds
  <2>5. CASE CancelTransfer(c)
    BY <1>1, <2>5 DEF CancelTransfer, Fault, AbortPipe, Bounds
  <2>6. CASE Send(c)
    BY <1>1, <2>6 DEF Send, Bounds
  <2>7. CASE TransferEnds(c)
    BY <1>1, <2>7 DEF TransferEnds, Bounds, budget
  <2> QED BY <1>2, <2>1, <2>2, <2>3, <2>4, <2>5, <2>6, <2>7, <2>8, <2>9, Zenon DEF Caller
<1>3. ASSUME NEW t \in Task, Resume(t)
      PROVE  Bounds'
  <2>1. CASE HubResumeDevice(t)
    BY <1>1, <2>1 DEF HubResumeDevice, Fault, Bounds
  <2>2. CASE RestartRings(t)
    BY <1>1, <2>2 DEF RestartRings, Fault, Bounds
  <2>3. CASE ResumeBindings(t)
    BY <1>1, <2>3 DEF ResumeBindings, Bounds, budget
  <2>4. CASE ReleaseIfBinding(t)
    BY <1>1, <2>4 DEF ReleaseIfBinding, Bounds, budget
  <2> QED BY <1>3, <2>1, <2>2, <2>3, <2>4, Zenon DEF Resume
<1>4. ASSUME NEW s \in Suspender, Suspend(s)
      PROVE  Bounds'
  <2>1. CASE SuspendBindings(s)
    BY <1>1, <2>1 DEF SuspendBindings, Bounds, budget
  <2>2. CASE ArmRemoteWakeup(s)
    BY <1>1, <2>2 DEF ArmRemoteWakeup, Bounds, budget
  <2>3. CASE QuiesceRings(s)
    BY <1>1, <2>3 DEF QuiesceRings, Fault, Rollback, Bounds
  <2>4. CASE HubSuspendDevice(s)
    BY <1>1, <2>4 DEF HubSuspendDevice, Fault, Rollback, Bounds
  <2> QED BY <1>4, <2>1, <2>2, <2>3, <2>4, Zenon DEF Suspend
<1>5. CASE RelayTake
  BY <1>1, <1>5 DEF RelayTake, Bounds, budget
<1>6. CASE RelayReply
  BY <1>1, <1>6 DEF RelayReply, Bounds, budget
<1>13. CASE Deliver
  BY <1>1, <1>13 DEF Deliver, Bounds, budget
<1>14. CASE RelayUncount
  BY <1>1, <1>14 DEF RelayUncount, Bounds, budget
<1>7. CASE HubStatus
  BY <1>1, <1>7 DEF HubStatus, Bounds, budget
<1>8. CASE SuspendChange
  BY <1>1, <1>8 DEF SuspendChange, Bounds, budget
<1>9. CASE IdleSweep
  BY <1>1, <1>9 DEF IdleSweep, SuspendDevice, Bounds
<1>10. CASE UserSuspend
  BY <1>1, <1>10 DEF UserSuspend, SuspendDevice, Bounds
<1>11. CASE RemoteWakeup
  BY <1>1, <1>11 DEF RemoteWakeup, Fault, Bounds
<1>12. CASE UNCHANGED vars
  BY <1>12 DEF Bounds, vars, budget
<1> QED BY <1>2, <1>3, <1>4, <1>5, <1>6, <1>7, <1>8, <1>9, <1>10, <1>11, <1>12, <1>13, <1>14,
        Zenon DEF Next, Work

LEMMA FlagsGo == ASSUME Flags, [Next]_vars PROVE Flags'
<1>1. ASSUME NEW c \in Client, Caller(c) \/ CancelTransfer(c) \/ Send(c) \/ TransferEnds(c)
      PROVE  Flags'
  <2>1. CASE Submit(c)
    BY <2>1, Zenon DEF Submit, ActivityBegin, Flags, powVars
  <2>8. CASE SubmitPipe(c)
    BY <2>8, Zenon DEF SubmitPipe, Flags, powVars
  <2>9. CASE EndOwn(c)
    BY <2>9, Zenon DEF EndOwn, CompletePipe, Flags, powVars
  <2>2. CASE CountDeferred(c)
    BY <2>2, Zenon DEF CountDeferred, Flags, powVars, actVars
  <2>3. CASE Collect(c)
    BY <2>3, Zenon DEF Collect, Flags, powVars, actVars
  <2>4. CASE EndTask(c)
    BY <2>4, Zenon DEF EndTask, AbortPipe, Flags, powVars
  <2>5. CASE CancelTransfer(c)
    BY <2>5, Zenon DEF CancelTransfer, Fault, AbortPipe, Flags, powVars
  <2>6. CASE Send(c)
    BY <2>6, Zenon DEF Send, Flags, powVars, actVars
  <2>7. CASE TransferEnds(c)
    BY <2>7, Zenon DEF TransferEnds, Flags, powVars
  <2> QED BY <1>1, <2>1, <2>2, <2>3, <2>4, <2>5, <2>6, <2>7, <2>8, <2>9, Zenon DEF Caller
<1>2. ASSUME NEW t \in Task, Resume(t)
      PROVE  Flags'
  <2>1. CASE HubResumeDevice(t)
    BY <2>1, Zenon DEF HubResumeDevice, Fault, Flags, actVars
  <2>2. CASE RestartRings(t)
    BY <2>2, Zenon DEF RestartRings, Fault, Flags, actVars
  <2>3. CASE ResumeBindings(t)
    BY <2>3, Zenon DEF ResumeBindings, Flags, actVars
  <2>4. CASE ReleaseIfBinding(t)
    BY <2>4, Zenon DEF ReleaseIfBinding, Flags, actVars
  <2> QED BY <1>2, <2>1, <2>2, <2>3, <2>4, Zenon DEF Resume
<1>3. ASSUME NEW s \in Suspender, Suspend(s)
      PROVE  Flags'
  <2>1. CASE SuspendBindings(s)
    BY <2>1, Zenon DEF SuspendBindings, Flags, actVars
  <2>2. CASE ArmRemoteWakeup(s)
    BY <2>2, Zenon DEF ArmRemoteWakeup, Flags, powVars
  <2>3. CASE QuiesceRings(s)
    BY <2>3, Zenon DEF QuiesceRings, Fault, Rollback, Flags, actVars
  <2>4. CASE HubSuspendDevice(s)
    BY <2>4, Zenon DEF HubSuspendDevice, Fault, Rollback, Flags, actVars
  <2> QED BY <1>3, <2>1, <2>2, <2>3, <2>4, Zenon DEF Suspend
<1>4. CASE RelayTake
  BY <1>4, Zenon DEF RelayTake, Flags, powVars, actVars
<1>5. CASE RelayReply
  BY <1>5, Zenon DEF RelayReply, Flags, powVars
<1>12. CASE Deliver
  BY <1>12, Zenon DEF Deliver, CompletePipe, Flags, powVars
<1>13. CASE RelayUncount
  BY <1>13, Zenon DEF RelayUncount, Flags, powVars
<1>6. CASE HubStatus
  BY <1>6, Zenon DEF HubStatus, Flags, actVars
<1>7. CASE SuspendChange
  BY <1>7, Zenon DEF SuspendChange, Flags, actVars
<1>8. CASE IdleSweep
  BY <1>8, Zenon DEF IdleSweep, SuspendDevice, Flags, powVars
<1>9. CASE UserSuspend
  BY <1>9, Zenon DEF UserSuspend, SuspendDevice, Flags, powVars, actVars
<1>10. CASE RemoteWakeup
  BY <1>10, Zenon DEF RemoteWakeup, Fault, Flags, actVars
<1>11. CASE UNCHANGED vars
  BY <1>11, Zenon DEF Flags, vars, powVars, actVars
<1> QED BY <1>1, <1>2, <1>3, <1>4, <1>5, <1>6, <1>7, <1>8, <1>9, <1>10, <1>11, <1>12, <1>13,
        Zenon DEF Next, Work

-----------------------------------------------------------------------------
\* The state has the shape TypeOK names, and each of a device's tasks a place of its
\* own code (psdSendPipe, pCompletePipe, psdSuspendDevice, psdResumeDevice).
THEOREM DeviceIOTypeCorrect == Spec => []TypeOK
<1>1. Init => Flags /\ Bounds
  <2>1. Init => Flags
    BY Zenon DEF Init, Flags
  <2>2. Init => Bounds
    BY BoundAssumption DEF Init, Bounds
  <2> QED BY <2>1, <2>2
<1>2. Flags /\ Bounds /\ [Next]_vars => (Flags /\ Bounds)'
  BY BoundsGo, FlagsGo, Zenon
<1>3. IInv /\ Flags /\ Bounds => TypeOK
  <2> SUFFICES ASSUME IInv, Flags, Bounds PROVE TypeOK
    OBVIOUS
  <2>1. busy \in Int /\ reg \in [Task -> Int] /\ torn \subseteq {"busy", "msgs"} /\ msgs \in Int
    BY DEF IInv, Shape, Counts
  <2>2. tasks \in Seq({"io", "abort"} \X Client) /\ replies \in Seq(Client)
    BY DEF IInv, Shape, Queues, Message
  <2>3. /\ mode \in {"direct", "quick", "relay"} /\ supports \subseteq Client /\ canWake \in BOOLEAN
        /\ listens \subseteq Client /\ stamp \in BOOLEAN /\ {flag, rings, change, lost} \subseteq BOOLEAN
    BY Zenon DEF IInv, Shape, TheKind, Flags
  <2>4. "busy" \notin torn => busy \in Nat
    <3>1. act \ listens \subseteq Client
      BY DEF IInv, Shape, Pipes
    <3>2. IsFiniteSet(act \ listens)
      BY <3>1, TaskAssumption, FS_Subset
    <3>3. Cardinality(act \ listens) \in Nat
      BY <3>2, FS_CardinalityType
    <3> QED BY <3>3 DEF IInv, Active
  <2> QED BY <2>1, <2>2, <2>3, <2>4 DEF IInv, Shape, Control, Pipes, Power, Bounds, TypeOK
<1> QED BY Invariant, <1>1, <1>2, <1>3, PTL DEF Spec

\* As long as no update has overwritten another, pd_IOBusyCount is the number of
\* transfers that were not replied, listeners aside, and phw_MsgCount what the driver
\* has, but for the deferred ones their callers have yet to count, whoever completes
\* or aborts a transfer and however the controller takes it (pActivityBegin,
\* pCompletePipe, pSubmitPipeReq, pDeviceTask).
THEOREM CountsAreRight == Spec => []CountsRight
<1>1. IInv => CountsRight
  <2> SUFFICES ASSUME IInv PROVE CountsRight
    OBVIOUS
  <2>1. act \ listens = {c \in Client \ listens : msg[c] = "pending"}
    BY DEF IInv, Active, Pending
  <2> QED BY <2>1 DEF IInv, Active, Relayed, Counting, CountsRight
<1> QED BY Invariant, <1>1, PTL

\* When no suspend, resume or rollback goes on and no change of the port is left
\* to read, a device flagged suspended is parked, with only what the suspend left on its wire,
\* and one that is not has its port, rings and bindings up (psdSuspendDevice,
\* psdResumeDevice, psdResumeBindings, nHandleHubPortChange).
THEOREM NeverHalfSuspended == Spec => []NotHalfSuspended
<1>1. IInv => NotHalfSuspended
  <2> SUFFICES ASSUME IInv, Quiet, ~lost
      PROVE  IF flag THEN port = "parked" /\ \A c \in wire : LeftOut(c)
                      ELSE Up /\ running = Client
    BY DEF NotHalfSuspended
  <2>1. /\ port \in {"on", "parked"} /\ running \subseteq Client /\ wire \subseteq Client
        /\ back \subseteq Suspender /\ ~change
    BY DEF IInv, Shape, Pipes, Power, Control, Quiet
  <2>2. \A t \in Task : pc[t] \notin {"unpark", "ring", "bind", "release", "arm", "quiesce", "park"}
    BY DEF IInv, Shape, Control, InHand, Quiet, HubFree, Task
  <2>3. CASE flag
    <3>1. port = "parked"
      BY <2>1, <2>3 DEF IInv, FlagFollows
    <3>2. ASSUME NEW c \in wire
          PROVE  LeftOut(c)
      <4>1. c \in Pending /\ c \in Client
        BY <2>1 DEF IInv, Places, OnWire, Pending
      <4>2. releaser[c] = NoTask
        BY <2>2, <4>1 DEF IInv, Shape, Control, Releases
      <4> QED BY <2>3, <4>1, <4>2 DEF IInv, LateOnly, Agreed
    <3> QED BY <2>3, <3>1, <3>2
  <2>4. CASE ~flag
    <3>1. port = "on"
      BY <2>1, <2>2, <2>4 DEF IInv, FlagFollows, Task
    <3>2. mode = "direct" => rings
      BY <2>2, <2>4 DEF IInv, RingsFollow
    <3>3. running = Client
      BY <2>2, <2>4 DEF IInv, BindingsFollow
    <3> QED BY <2>4, <3>1, <3>2, <3>3 DEF Up
  <2> QED BY <2>3, <2>4
<1> QED BY Invariant, <1>1, PTL
=============================================================================
