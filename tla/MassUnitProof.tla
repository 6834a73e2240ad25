---------------------------- MODULE MassUnitProof ----------------------------
(***************************************************************************)
(* The unit of the mass storage class, for any number of clients, tags,    *)
(* requests and releases: its type invariant, that a status is taken for   *)
(* the command it belongs to, that only an overtaken request is left       *)
(* behind, that a request is held in one place until it is replied, and    *)
(* that the unit is idle where it is taken for idle.  There are two        *)
(* invariants: IInv, of the tags and the device, and on top of it HoldInv, *)
(* of the requests.                                                        *)
(***************************************************************************)
EXTENDS MassUnit, SequenceTheorems, FiniteSetTheorems, TLAPS

USE TagsAssumption, ClientsAssumption, BoundsAssumption

-----------------------------------------------------------------------------
\* The device owns nothing of this tag, if it never lied to the host.
Closed(g) == \/ g.st = "free"
             \/ g.st = "running" /\ (StatusSeen(g) \/ ~g.sent)

\* Without a lost command IU the device's commands are those the tags say.
DevKnown == ~doubt => \A t \in Tag :
                        /\ "old" \notin dev[t]
                        /\ pc # "reset" /\ Closed(tag[t]) => dev[t] = {}

\* Only a tag that runs is on the wire.
OffUnlessRunning == \A t \in Tag : tag[t].st # "running" => tag[t].status = "off"

\* The tag in hand.
InHand ==
  /\ pc = "bind" => depth # 0 /\ at \in Tag /\ tag[at].st = "free" /\ tm.pipe # at
  /\ pc \in {"cmd", "chunk", "scmd"} =>
       /\ at \in Tag /\ tag[at].st = "running" /\ ~tag[at].sent
       /\ StatusSeen(tag[at]) => doubt
  /\ pc \in {"sstat", "sdata"} => at \in Tag /\ tag[at].st = "running"

\* Task management targets a quarantined tag, over a pipe no command has.
TaskManagement ==
  /\ tm.pipe # 0 => tm.target \in Tag /\ tag[tm.target].st = "quarantine"
  /\ tm.pipe = 0 => tm.res = "off"
  /\ tm.pipe \in Tag => tag[tm.pipe].st = "free"
  /\ tm.res = "good" /\ ~doubt => dev[tm.target] = {}
  /\ pc = "reset" => tm = NoTM

\* No tag is in use without a queue depth, nor when the task has ended.
TagsGone == depth = 0 \/ pc \in {"free", "off"} => \A t \in Tag : tag[t].st = "free"

\* What the engine is turned for.
Turning ==
  /\ pc \in {"fetch", "dispatch", "bind", "cmd", "wait"} => ctx = "main"
  /\ pc = "drained" => ctx = "drain"
  /\ pc \in {"bind"} => cur \in Client

\* A task that ends denies requests, and leaves none it knows.
Ending ==
  /\ pc \in {"free", "off"} \/ (ctx = "drain" /\ cur = None) => deny
  /\ pc = "off" => owed = {}
  /\ StrandedOnlyIfOvertaken

IInv == /\ TypeOK /\ DevKnown /\ OffUnlessRunning /\ InHand /\ TaskManagement
        /\ TagsGone /\ Turning /\ Ending

-----------------------------------------------------------------------------
\* What is done to a tag leaves a tag, in a state its last state tells.
LEMMA TagOperators ==
  ASSUME NEW g \in TagType
  PROVE  /\ FreshTag \in TagType
         /\ SignalAbort(g) \in TagType /\ AbortArmed(g) \in TagType
         /\ Armed(g) \in TagType /\ Finalized(g) \in TagType
BY DEF TagType, FreshTag, SignalAbort, AbortArmed, Armed, Finalized, Aborted, StatusSeen

LEMMA TagEdits ==
  ASSUME NEW f \in [Tag -> TagType], NEW t
  PROVE  /\ [f EXCEPT ![t].sent = TRUE] \in [Tag -> TagType]
         /\ [f EXCEPT ![t].abort = TRUE] \in [Tag -> TagType]
         /\ \A r \in {"good", "bad", "err"} : [f EXCEPT ![t].status = r] \in [Tag -> TagType]
         /\ \A r \in {"ok", "err"} : [f EXCEPT ![t].data = r] \in [Tag -> TagType]
         /\ \A d \in {"off", "wire"} :
               [f EXCEPT ![t].sent = TRUE, ![t].data = d] \in [Tag -> TagType]
<1>1. [f EXCEPT ![t].sent = TRUE] \in [Tag -> TagType]
  BY DEF TagType
<1>2. [f EXCEPT ![t].abort = TRUE] \in [Tag -> TagType]
  BY DEF TagType
<1>3. ASSUME NEW r \in {"good", "bad", "err"} PROVE [f EXCEPT ![t].status = r] \in [Tag -> TagType]
  BY DEF TagType
<1>4. ASSUME NEW r \in {"ok", "err"} PROVE [f EXCEPT ![t].data = r] \in [Tag -> TagType]
  BY DEF TagType
<1>5. ASSUME NEW d \in {"off", "wire"}
      PROVE  [f EXCEPT ![t].sent = TRUE, ![t].data = d] \in [Tag -> TagType]
  BY DEF TagType
<1> QED
  BY <1>1, <1>2, <1>3, <1>4, <1>5

LEMMA DevEdits ==
  ASSUME NEW f \in [Tag -> SUBSET {"old", "cur"}], NEW t
  PROVE  /\ [f EXCEPT ![t] = @ \cup {"cur"}] \in [Tag -> SUBSET {"old", "cur"}]
         /\ \A o : [f EXCEPT ![t] = @ \ {o}] \in [Tag -> SUBSET {"old", "cur"}]
OBVIOUS

LEMMA Fresh ==
  /\ FreshTag \in TagType
  /\ NoTM \in [pipe : 0..TMStream, target : 0..NumTags, res : {"off", "wire", "good", "bad"}]
  /\ [t \in Tag |-> FreshTag] \in [Tag -> TagType]
BY DEF FreshTag, TagType, NoTM, TMStream

\* What an action's parts leave is of the type of what they change.
LEMMA AnswerType ==
  ASSUME TypeOK, NEW S, Answer(S)
  PROVE  /\ rq' \in [Client -> {"idle", "passed", "sent"}] /\ kind' \in [Client -> Kinds]
         /\ overtaken' \subseteq Client
BY DEF TypeOK, Answer, Kinds

LEMMA OweType ==
  ASSUME TypeOK, NEW reqs \in SUBSET (Client \cup {None}), Owe(reqs)
  PROVE  owed' \subseteq Client
BY DEF TypeOK, Owe

LEMMA RequestType ==
  ASSUME TypeOK, NEW t \in Tag
  PROVE  tag[t] \in TagType /\ tag[t].req \in Client \cup {None}
BY DEF TypeOK, TagType

LEMMA RearmType ==
  ASSUME TypeOK, NEW t, Rearm(t)
  PROVE  dev' \in [Tag -> SUBSET {"old", "cur"}]
BY DEF TypeOK, Rearm

LEMMA AfterType ==
  ASSUME TypeOK
  PROVE  After \in {"fetch", "drained", "claimed"}
BY DEF TypeOK, After

LEMMA EscalateType ==
  ASSUME TypeOK, Escalate(tag)
  PROVE  /\ tag' \in [Tag -> TagType] /\ owed' \subseteq Client
         /\ tm' = NoTM /\ pc' = "reset"
<1>1. ASSUME NEW t \in Tag
      PROVE  Finalized([AbortArmed(tag[t]) EXCEPT !.sent = FALSE]) \in TagType
  <2>1. AbortArmed(tag[t]) \in TagType
    BY RequestType, TagOperators
  <2>2. [AbortArmed(tag[t]) EXCEPT !.sent = FALSE] \in TagType
    BY <2>1 DEF TagType
  <2> QED
    BY <2>2, TagOperators
<1>2. tag' \in [Tag -> TagType]
  BY <1>1, RequestType DEF Escalate
<1>3. owed' \subseteq Client
  <2>1. {tag[t].req : t \in Tag} \in SUBSET (Client \cup {None})
    BY RequestType
  <2> QED
    BY <2>1, OweType DEF Escalate
<1> QED
  BY <1>2, <1>3 DEF Escalate

LEMMA ClaimTagType ==
  ASSUME TypeOK, ClaimTag
  PROVE  /\ at' \in 0..NumTags /\ tag' \in [Tag -> TagType]
         /\ dev' \in [Tag -> SUBSET {"old", "cur"}] /\ pc' = "scmd"
<1>1. at' \in 0..NumTags
  BY DEF ClaimTag, First, FreeTags, TypeOK
<1>2. [FreshTag EXCEPT !.st = "running", !.status = "wire"] \in TagType
  BY DEF FreshTag, TagType
<1> QED
  BY <1>1, <1>2, RearmType DEF ClaimTag, TypeOK

LEMMA DirectDoneType ==
  ASSUME TypeOK, DirectDone
  PROVE  /\ rq' \in [Client -> {"idle", "passed", "sent"}] /\ kind' \in [Client -> Kinds]
         /\ overtaken' \subseteq Client /\ cur' = None /\ at' = 0
         /\ ctx' = "main" /\ pc' = "dispatch"
BY AnswerType DEF DirectDone

LEMMA DevType ==
  ASSUME TypeOK
  PROVE  dev \in [Tag -> SUBSET {"old", "cur"}] /\ doubt \in BOOLEAN
BY DEF TypeOK

LEMMA SentType ==
  ASSUME TypeOK, NEW t
  PROVE  [dev EXCEPT ![t] = @ \cup {"cur"}] \in [Tag -> SUBSET {"old", "cur"}]
BY DevType, DevEdits

LEMMA IULostType ==
  ASSUME TypeOK, NEW t, IULost(t)
  PROVE  dev' \in [Tag -> SUBSET {"old", "cur"}] /\ doubt' \in BOOLEAN
BY DevType, SentType DEF IULost

LEMMA TagEnds ==
  ASSUME NEW g \in TagType
  PROVE  /\ [g EXCEPT !.status = Aborted(@)] \in TagType
         /\ [g EXCEPT !.data = Aborted(@)] \in TagType
         /\ [g EXCEPT !.sArm = FALSE] \in TagType
         /\ [g EXCEPT !.dArm = FALSE] \in TagType
         /\ g.req \in Client \cup {None}
         /\ SignalAbort(g).req = g.req
         /\ [g EXCEPT !.sArm = FALSE].req = g.req
         /\ [g EXCEPT !.dArm = FALSE].req = g.req
BY DEF TagType, Aborted, SignalAbort

\* One tag is changed.
LEMMA OneTag ==
  ASSUME TypeOK, NEW t, NEW g \in TagType
  PROVE  [tag EXCEPT ![t] = g] \in [Tag -> TagType]
BY DEF TypeOK

LEMMA WithoutType ==
  ASSUME NEW S, NEW s \in Seq(S), NEW c \in InSeq(s)
  PROVE  Without(s, c) \in Seq(S)
<1> DEFINE i == CHOOSE i \in DOMAIN s : s[i] = c
<1>1. i \in 1..Len(s)
  BY DEF InSeq
<1>2. SubSeq(s, 1, i - 1) \in Seq(S) /\ SubSeq(s, i + 1, Len(s)) \in Seq(S)
  <2> HIDE DEF i
  <2>1. \A j \in 1..i-1 : s[j] \in S
    BY <1>1
  <2>2. \A j \in i+1..Len(s) : s[j] \in S
    BY <1>1
  <2>3. 1 \in Nat /\ i - 1 \in Nat /\ i + 1 \in Nat /\ Len(s) \in Nat
    BY <1>1
  <2> QED
    BY <1>1, <2>1, <2>2, <2>3, SubSeqProperties
<1> QED
  BY <1>2 DEF Without

LEMMA TypeStep == TypeOK /\ InHand /\ [Next]_vars => TypeOK'
<1> SUFFICES ASSUME TypeOK, InHand, [Next]_vars PROVE TypeOK'
  OBVIOUS
<1> USE DEF TypeOK, cliVars, curVars, engVars, cntVars
<1>1. CASE ProcessAborts
  BY <1>1, TagOperators, RequestType, AfterType DEF ProcessAborts
<1>2. CASE ReapDone
  BY <1>2, TagOperators DEF ReapDone
<1>3. CASE ReapTMF
  BY <1>3, EscalateType, Fresh DEF ReapTMF
<1>4. CASE IssueTMF
  BY <1>4, EscalateType, AfterType DEF IssueTMF, NoTM, First, Quarantine, Lenders, TMStream, Tag
<1>5. CASE SendTMF
  BY <1>5, EscalateType, AfterType, Fresh DEF SendTMF
<1>6. CASE ResetDevice
  <2>1. [t \in Tag |-> IF tag[t].st = "quarantine" THEN FreshTag ELSE tag[t]] \in [Tag -> TagType]
    BY Fresh
  <2>2. tag' \in [Tag -> TagType]
    BY <1>6, <2>1, Fresh DEF ResetDevice
  <2>3. reserved' \in BOOLEAN /\ depth' \in {0, NumTags} /\ deny' \in BOOLEAN /\ doubt' \in BOOLEAN
    BY <1>6 DEF ResetDevice
  <2>4. dev' \in [Tag -> SUBSET {"old", "cur"}]
    BY <1>6 DEF ResetDevice
  <2>5. pc' \in {"fetch", "drained", "claimed"}
    BY <1>6, AfterType DEF ResetDevice
  <2> QED
    BY <1>6, <2>2, <2>3, <2>4, <2>5 DEF ResetDevice
<1>7. CASE SendCommand
  <2>1. tag' \in [Tag -> TagType]
    <3>1. CASE tag' = [tag EXCEPT ![at].sent = TRUE]
      BY <3>1, TagEdits
    <3>2. CASE tag' = [tag EXCEPT ![at] = Finalized(AbortArmed(@))]
      BY <3>2, TagOperators
    <3> QED
      BY <1>7, <3>1, <3>2 DEF SendCommand
  <2>2. dev' \in [Tag -> SUBSET {"old", "cur"}] /\ doubt' \in BOOLEAN
    <3> HIDE DEF TypeOK
    <3> QED
      BY <1>7, DevType, SentType, IULostType DEF SendCommand
  <2>3. owed' \subseteq Client
    <3>1. at \in Tag
      BY <1>7 DEF SendCommand, InHand
    <3>2. ASSUME Owe({tag[at].req}) PROVE owed' \subseteq Client
      <4> HIDE DEF TypeOK
      <4>1. {tag[at].req} \in SUBSET (Client \cup {None})
        BY <3>1, RequestType
      <4> QED
        BY <3>2, <4>1, OweType
    <3> QED
      BY <1>7, <3>2 DEF SendCommand
  <2> QED
    BY <1>7, <2>1, <2>2, <2>3 DEF SendCommand, KeepSignal
<1>8. CASE FetchRequests
  BY <1>8, TagOperators DEF FetchRequests
<1>9. CASE DispatchDone
  BY <1>9, TagOperators DEF DispatchDone
<1>10. CASE TakeRequest
  BY <1>10, TagOperators DEF TakeRequest, First, FreeTags
<1>11. CASE SubmitTag
  <2>1. [Armed(FreshTag) EXCEPT !.st = "running", !.req = cur] \in TagType
    BY DEF Armed, FreshTag, TagType
  <2> QED
    BY <1>11, <2>1, RearmType DEF SubmitTag, None
<1>12. CASE ScsiDirect
  BY <1>12, DirectDoneType, ClaimTagType DEF ScsiDirect
<1>13. CASE BulkDone
  BY <1>13, DirectDoneType DEF BulkDone
<1>14. CASE ClaimAfterPump
  BY <1>14, DirectDoneType, ClaimTagType DEF ClaimAfterPump
<1>15. CASE DirectCommand
  <2>1. tag' \in [Tag -> TagType]
    <3>1. CASE tag' = [tag EXCEPT ![at].sent = TRUE,
                                  ![at].data = IF kind[cur] = "stop" THEN "off" ELSE "wire"]
      BY <3>1, TagEdits
    <3>2. CASE tag' = [tag EXCEPT ![at] = Finalized([tag[at] EXCEPT !.status = Aborted(@)])]
      <4> HIDE DEF TypeOK
      <4>1. at \in Tag
        BY <1>15 DEF DirectCommand, InHand
      <4>2. Finalized([tag[at] EXCEPT !.status = Aborted(@)]) \in TagType
        BY <4>1, TagEnds, TagOperators, RequestType
      <4> QED
        BY <3>2, <4>2, OneTag
    <3> QED
      BY <1>15, <3>1, <3>2 DEF DirectCommand
  <2>2. dev' \in [Tag -> SUBSET {"old", "cur"}] /\ doubt' \in BOOLEAN
    <3> HIDE DEF TypeOK
    <3> QED
      BY <1>15, DevType, SentType, IULostType DEF DirectCommand
  <2>3. /\ rq' \in [Client -> {"idle", "passed", "sent"}] /\ kind' \in [Client -> Kinds]
        /\ overtaken' \subseteq Client /\ cur' \in Client \cup {None} /\ at' \in 0..NumTags
        /\ ctx' \in {"main", "drain", "claim"} /\ pc' \in {"sstat", "dispatch"}
    BY <1>15, DirectDoneType DEF DirectCommand
  <2> QED
    BY <1>15, <2>1, <2>2, <2>3 DEF DirectCommand, KeepSignal
<1>16. CASE DirectStatus
  <2>1. tag' \in [Tag -> TagType]
    <3> HIDE DEF TypeOK
    <3>1. at \in Tag
      BY <1>16 DEF DirectStatus, InHand
    <3>2. Finalized([tag[at] EXCEPT !.data = Aborted(@)]) \in TagType
      BY <3>1, TagEnds, TagOperators, RequestType
    <3>3. tag \in [Tag -> TagType]
      BY DEF TypeOK
    <3> QED
      BY <1>16, <3>2, <3>3, OneTag DEF DirectStatus, DirectEnd
  <2> QED
    BY <1>16, <2>1, DirectDoneType DEF DirectStatus, KeepSignal, DirectEnd, None
<1>17. CASE DirectData
  <2>1. [tag EXCEPT ![at] = Finalized(tag[at])] \in [Tag -> TagType]
    BY TagOperators
  <2> QED
    BY <1>17, <2>1, DirectDoneType DEF DirectData, KeepSignal, DirectEnd, None
<1>18. CASE DrainAfterPump
  BY <1>18, TagOperators DEF DrainAfterPump
<1>19. CASE Flush
  BY <1>19, AnswerType DEF Flush
<1>20. CASE TaskWait
  BY <1>20, TagOperators DEF TaskWait
<1>21. CASE MainWait
  BY <1>21, TagOperators DEF MainWait
<1>22. CASE FreeMS
  <2>1. /\ rq' \in [Client -> {"idle", "passed", "sent"}] /\ kind' \in [Client -> Kinds]
        /\ overtaken' \subseteq Client /\ port' = <<>> /\ queue' = <<>>
    BY <1>22, AnswerType DEF FreeMS, ReplyLeftovers
  <2>2. /\ tag' \in [Tag -> TagType]
        /\ tm' \in [pipe : 0..TMStream, target : 0..NumTags, res : {"off", "wire", "good", "bad"}]
    BY <1>22, Fresh DEF FreeMS
  <2>3. port' \in Seq(Client) /\ queue' \in Seq(Client)
    BY <2>1
  <2>4. pc' = "off" /\ depth' = 0 /\ reserved' = FALSE /\ sigs' = {}
    BY <1>22 DEF FreeMS
  <2> QED
    BY <1>22, <2>1, <2>2, <2>3, <2>4 DEF FreeMS
<1>23. ASSUME NEW t \in Tag, CollectStatus(t) \/ CollectData(t) PROVE TypeOK'
  <2>1. ASSUME NEW g \in TagType, g.req \in Client \cup {None}, PipeDone(t, g)
        PROVE  /\ tag' \in [Tag -> TagType] /\ owed' \subseteq Client
               /\ pc' \in {pc, "chunk"} /\ at' \in 0..NumTags
               /\ dev' \in [Tag -> SUBSET {"old", "cur"}] /\ sends' \in 0..MaxSends
    <3>1. Armed(g) \in TagType /\ Finalized(g) \in TagType
      BY TagOperators
    <3>2. Owe({g.req}) => owed' \subseteq Client
      BY <2>1, OweType
    <3>3. t \in 0..NumTags
      BY DEF Tag
    <3> QED
      BY <2>1, <3>1, <3>2, <3>3, RearmType DEF PipeDone
  <2>2. CASE CollectStatus(t)
    <3> DEFINE g == [tag[t] EXCEPT !.sArm = FALSE]
               h == IF g.status # "good" THEN SignalAbort(g) ELSE g
    <3>1. h \in TagType /\ h.req \in Client \cup {None}
      <4> HIDE DEF TypeOK
      <4>1. tag[t] \in TagType /\ g \in TagType
        BY RequestType, TagEnds
      <4>2. SignalAbort(g) \in TagType
        BY <4>1, TagOperators
      <4>3. h \in TagType
        BY <4>1, <4>2
      <4> QED
        BY <4>3, TagEnds
    <3>2. PipeDone(t, h)
      BY <2>2 DEF CollectStatus
    <3> QED
      BY <2>1, <2>2, <3>1, <3>2 DEF CollectStatus
  <2>3. CASE CollectData(t)
    <3> DEFINE g == [tag[t] EXCEPT !.dArm = FALSE]
               h == IF g.data = "err" THEN SignalAbort(g) ELSE g
    <3>1. h \in TagType /\ h.req \in Client \cup {None}
      <4> HIDE DEF TypeOK
      <4>1. tag[t] \in TagType /\ g \in TagType
        BY RequestType, TagEnds
      <4>2. SignalAbort(g) \in TagType
        BY <4>1, TagOperators
      <4>3. h \in TagType
        BY <4>1, <4>2
      <4> QED
        BY <4>3, TagEnds
    <3>2. PipeDone(t, h)
      BY <2>3 DEF CollectData
    <3> QED
      BY <2>1, <2>3, <3>1, <3>2 DEF CollectData
  <2> QED
    BY <1>23, <2>2, <2>3
<1>24. CASE ReplyOwed
  BY <1>24, AnswerType DEF ReplyOwed
<1>25. CASE ReleaseBinding
  BY <1>25, TagOperators DEF ReleaseBinding, Signal, Alive
<1>26. CASE Bind
  BY <1>26, TagOperators DEF Bind, Alive
<1>27. CASE TMReply
  <2>1. /\ \/ tm' = [tm EXCEPT !.res = "good"] /\ dev' = [dev EXCEPT ![tm.target] = {}]
           \/ tm' = [tm EXCEPT !.res = "bad"] /\ dev' = dev
        /\ sigs' \in {sigs, sigs \cup {"task"}}
    BY <1>27 DEF TMReply, Signal, Alive
  <2>2. dev' \in [Tag -> SUBSET {"old", "cur"}]
    BY <2>1
  <2>3. /\ tm' \in [pipe : 0..TMStream, target : 0..NumTags, res : {"off", "wire", "good", "bad"}]
        /\ sigs' \subseteq {"unit", "task", "break"}
    BY <2>1
  <2>4. UNCHANGED <<cliVars, deny, port, queue, curVars, owed, pc, ctx, depth, reserved, tag,
                    doubt, cntVars>>
    BY <1>27 DEF TMReply
  <2> QED BY <2>2, <2>3, <2>4
<1>28. ASSUME NEW t \in Tag, StatusReply(t) \/ DataReply(t) PROVE TypeOK'
  <2>1. /\ tag' \in [Tag -> TagType] /\ dev' \in [Tag -> SUBSET {"old", "cur"}]
        /\ sigs' \subseteq {"unit", "task", "break"}
    <3>1. tag' \in [Tag -> TagType]
      <4> HIDE DEF TypeOK
      <4>1. tag \in [Tag -> TagType]
        BY DEF TypeOK
      <4>2. CASE \E r \in {"good", "bad", "err"} : tag' = [tag EXCEPT ![t].status = r]
        <5>1. PICK r \in {"good", "bad", "err"} : tag' = [tag EXCEPT ![t].status = r]
          BY <4>2
        <5>2. [tag EXCEPT ![t].status = r] \in [Tag -> TagType]
          BY <4>1, TagEdits
        <5> QED
          BY <5>1, <5>2
      <4>3. CASE \E r \in {"ok", "err"} : tag' = [tag EXCEPT ![t].data = r]
        <5>1. PICK r \in {"ok", "err"} : tag' = [tag EXCEPT ![t].data = r]
          BY <4>3
        <5>2. [tag EXCEPT ![t].data = r] \in [Tag -> TagType]
          BY <4>1, TagEdits
        <5> QED
          BY <5>1, <5>2
      <4>4. StatusReply(t) => \E r \in {"good", "bad", "err"} : tag' = [tag EXCEPT ![t].status = r]
        BY DEF StatusReply
      <4>5. DataReply(t) => \E r \in {"ok", "err"} : tag' = [tag EXCEPT ![t].data = r]
        BY DEF DataReply
      <4> QED
        BY <1>28, <4>2, <4>3, <4>4, <4>5
    <3>2. dev' \in [Tag -> SUBSET {"old", "cur"}]
      BY <1>28, DevEdits DEF StatusReply, DataReply
    <3>3. sigs' \subseteq {"unit", "task", "break"}
      BY <1>28 DEF StatusReply, DataReply, Signal
    <3> QED
      BY <3>1, <3>2, <3>3
  <2> QED
    BY <1>28, <2>1 DEF StatusReply, DataReply
<1>29. ASSUME NEW c \in Client, BeginIO(c) \/ PutRequest(c) \/ AbortIO(c) PROVE TypeOK'
  <2>1. CASE BeginIO(c)
    BY <2>1 DEF BeginIO, Kinds
  <2>2. CASE PutRequest(c)
    BY <2>2 DEF PutRequest, Signal, Alive
  <2>3. CASE AbortIO(c)
    <3>1. c \in InSeq(queue) => Without(queue, c) \in Seq(Client)
      BY WithoutType
    <3>2. \A t \in Tag : [tag EXCEPT ![t].abort = TRUE] \in [Tag -> TagType]
      BY TagEdits
    <3> QED
      BY <2>3, <3>1, <3>2, AnswerType DEF AbortIO, Signal, Alive
  <2> QED
    BY <1>29, <2>1, <2>2, <2>3
<1>30. CASE UNCHANGED vars
  BY <1>30 DEF vars
<1>31. CASE Startup \/ Inquiry
  BY <1>31, TagOperators DEF Startup, Inquiry
<1> QED
  BY <1>1, <1>2, <1>3, <1>4, <1>5, <1>6, <1>7, <1>8, <1>9, <1>10, <1>11, <1>12, <1>13, <1>14,
     <1>15, <1>16, <1>17, <1>18, <1>19, <1>20, <1>21, <1>22, <1>23, <1>24, <1>25, <1>26, <1>27,
     <1>28, <1>29, <1>30, <1>31 DEF Next, UnitTask, TaskStep, TransferEnds

-----------------------------------------------------------------------------
\* What an operator on tags does to the fields the invariant is about.
LEMMA Shapes ==
  ASSUME NEW g \in TagType
  PROVE  /\ FreshTag.st = "free" /\ FreshTag.status = "off"
         /\ SignalAbort(g).st = g.st /\ SignalAbort(g).sent = g.sent
         /\ StatusSeen(SignalAbort(g)) <=> StatusSeen(g)
         /\ g.status = "off" => SignalAbort(g).status = "off"
         /\ Armed(g).st = g.st /\ Armed(g).status = "wire" /\ ~Armed(g).sent
         /\ Finalized(g).status = "off" /\ Finalized(g).st \in {"free", "quarantine"}
         /\ Finalized(g).st = "free" => ~g.sent \/ StatusSeen(g)
         /\ ~g.sent => Finalized(g).st = "free"
         /\ AbortArmed(g).st = g.st /\ AbortArmed(g).sent = g.sent
         /\ StatusSeen(AbortArmed(g)) <=> StatusSeen(g)
BY DEF TagType, FreshTag, SignalAbort, AbortArmed, Armed, Finalized, Aborted, StatusSeen

\* Where a revolution of the engine leads, by what it is turned for.
LEMMA AfterTurning ==
  ASSUME TypeOK
  PROVE  /\ After \in {"fetch", "drained", "claimed"}
         /\ After = "fetch" => ctx = "main"
         /\ After = "drained" => ctx = "drain"
BY DEF TypeOK, After

\* What the engine is turned for stays with where it is.
LEMMA TurningStep == IInv /\ [Next]_vars => Turning'
<1> SUFFICES ASSUME IInv, [Next]_vars PROVE Turning'
  OBVIOUS
<1> USE DEF Turning, IInv, cliVars, curVars, engVars, cntVars
<1>1. CASE ProcessAborts
  BY <1>1, AfterTurning DEF ProcessAborts
<1>2. CASE ReapDone
  BY <1>2, AfterTurning DEF ReapDone
<1>3. CASE ReapTMF
  BY <1>3, AfterTurning DEF ReapTMF, Escalate
<1>4. CASE IssueTMF
  <2>1. pc' \in {After, "tmcmd", "reset"} /\ ctx' = ctx
    <3> HIDE DEF IInv, Turning
    <3> QED
      BY <1>4 DEF IssueTMF, Escalate
  <2> QED
    BY <2>1, AfterTurning
<1>5. CASE SendTMF
  BY <1>5, AfterTurning DEF SendTMF, Escalate
<1>6. CASE ResetDevice
  BY <1>6, AfterTurning DEF ResetDevice
<1>7. CASE SendCommand
  BY <1>7, AfterTurning DEF SendCommand
<1>8. CASE FetchRequests
  BY <1>8, AfterTurning DEF FetchRequests
<1>9. CASE DispatchDone
  BY <1>9, AfterTurning DEF DispatchDone
<1>10. CASE TakeRequest
  <2>1. queue # <<>> => Head(queue) \in Client
    BY DEF TypeOK
  <2> QED
    BY <1>10, <2>1 DEF TakeRequest
<1>11. CASE SubmitTag
  BY <1>11, AfterTurning DEF SubmitTag
<1>12. CASE ScsiDirect
  BY <1>12, AfterTurning DEF ScsiDirect, DirectDone, ClaimTag
<1>13. CASE BulkDone
  BY <1>13, AfterTurning DEF BulkDone, DirectDone
<1>14. CASE ClaimAfterPump
  BY <1>14, AfterTurning DEF ClaimAfterPump, DirectDone, ClaimTag
<1>15. CASE DirectCommand
  BY <1>15, AfterTurning DEF DirectCommand, DirectDone
<1>16. CASE DirectStatus
  BY <1>16, AfterTurning DEF DirectStatus, DirectDone, DirectEnd
<1>17. CASE DirectData
  BY <1>17, AfterTurning DEF DirectData, DirectDone, DirectEnd
<1>18. CASE DrainAfterPump
  BY <1>18, AfterTurning DEF DrainAfterPump
<1>19. CASE Flush
  BY <1>19, AfterTurning DEF Flush
<1>20. CASE TaskWait
  BY <1>20, AfterTurning DEF TaskWait
<1>21. CASE MainWait
  BY <1>21, AfterTurning DEF MainWait
<1>22. CASE owed = {} /\ FreeMS
  BY <1>22, AfterTurning DEF FreeMS
<1>23. ASSUME NEW t \in Tag, CollectStatus(t) \/ CollectData(t) PROVE Turning'
  BY <1>23 DEF CollectStatus, CollectData, PipeDone
<1>24. CASE ReplyOwed
  BY <1>24, AfterTurning DEF ReplyOwed
<1>25. CASE ReleaseBinding
  BY <1>25, AfterTurning DEF ReleaseBinding
<1>26. CASE Bind
  BY <1>26, AfterTurning DEF Bind
<1>27. CASE TMReply
  BY <1>27, AfterTurning DEF TMReply
<1>28. ASSUME NEW t \in Tag, StatusReply(t) \/ DataReply(t) PROVE Turning'
  BY <1>28 DEF StatusReply, DataReply
<1>29. ASSUME NEW c \in Client, BeginIO(c) \/ PutRequest(c) \/ AbortIO(c) PROVE Turning'
  BY <1>29 DEF BeginIO, PutRequest, AbortIO
<1>30. CASE UNCHANGED vars
  BY <1>30 DEF vars
<1>31. CASE Startup \/ Inquiry
  BY <1>31 DEF Startup, Inquiry
<1> QED
  BY <1>1, <1>2, <1>3, <1>4, <1>5, <1>6, <1>7, <1>8, <1>9, <1>10, <1>11, <1>12, <1>13,
     <1>14, <1>15, <1>16, <1>17, <1>18, <1>19, <1>20, <1>21, <1>22, <1>23, <1>24, <1>25,
     <1>26, <1>27, <1>28, <1>29, <1>30, <1>31 DEF Next, UnitTask, TaskStep, TransferEnds


LEMMA InSeqAppend ==
  ASSUME NEW S, NEW s \in Seq(S), NEW c \in S
  PROVE  InSeq(Append(s, c)) = InSeq(s) \cup {c}
<1>1. /\ DOMAIN s = 1..Len(s) /\ DOMAIN Append(s, c) = 1..(Len(s) + 1) /\ Len(s) \in Nat
      /\ \A i \in 1..Len(s) : Append(s, c)[i] = s[i]
      /\ Append(s, c)[Len(s) + 1] = c
  OBVIOUS
<1>2. \A i \in 1..(Len(s) + 1) : i \in 1..Len(s) \/ i = Len(s) + 1
  BY <1>1
<1> QED
  BY <1>1, <1>2 DEF InSeq

\* A task that ends denies requests and drains its queue and its port; what
\* comes after that overtook the denial.
LEMMA EndingStep == IInv /\ [Next]_vars => Ending'
<1> SUFFICES ASSUME IInv, [Next]_vars PROVE Ending'
  OBVIOUS
<1> USE DEF Ending, Turning, StrandedOnlyIfOvertaken, IInv, cliVars, curVars, engVars, cntVars
<1>1. CASE ProcessAborts
  BY <1>1, AfterTurning DEF ProcessAborts
<1>2. CASE ReapDone
  BY <1>2, AfterTurning DEF ReapDone
<1>3. CASE ReapTMF
  BY <1>3, AfterTurning DEF ReapTMF, Escalate
<1>4. CASE IssueTMF
  <2>1. /\ pc' \in {"fetch", "drained", "claimed", "tmcmd", "reset"}
        /\ ctx' = ctx /\ cur' = cur /\ deny' = deny
    <3>1. TypeOK
      OBVIOUS
    <3> HIDE DEF IInv, Ending, Turning
    <3> QED
      BY <1>4, <3>1, AfterTurning DEF IssueTMF, Escalate
  <2> QED
    BY <1>4, <2>1
<1>5. CASE SendTMF
  BY <1>5, AfterTurning DEF SendTMF, Escalate
<1>6. CASE ResetDevice
  BY <1>6, AfterTurning DEF ResetDevice
<1>7. CASE SendCommand
  BY <1>7, AfterTurning DEF SendCommand
<1>8. CASE FetchRequests
  BY <1>8, AfterTurning DEF FetchRequests
<1>9. CASE DispatchDone
  BY <1>9, AfterTurning DEF DispatchDone
<1>10. CASE TakeRequest
  <2>1. queue # <<>> => Head(queue) \in Client
    BY DEF TypeOK
  <2> QED
    BY <1>10, <2>1 DEF TakeRequest, None, Client
<1>11. CASE SubmitTag
  BY <1>11, AfterTurning DEF SubmitTag
<1>12. CASE ScsiDirect
  BY <1>12, AfterTurning DEF ScsiDirect, DirectDone, ClaimTag
<1>13. CASE BulkDone
  BY <1>13, AfterTurning DEF BulkDone, DirectDone
<1>14. CASE ClaimAfterPump
  BY <1>14, AfterTurning DEF ClaimAfterPump, DirectDone, ClaimTag
<1>15. CASE DirectCommand
  BY <1>15, AfterTurning DEF DirectCommand, DirectDone
<1>16. CASE DirectStatus
  BY <1>16, AfterTurning DEF DirectStatus, DirectDone, DirectEnd
<1>17. CASE DirectData
  BY <1>17, AfterTurning DEF DirectData, DirectDone, DirectEnd
<1>18. CASE DrainAfterPump
  BY <1>18, AfterTurning DEF DrainAfterPump
<1>19. CASE Flush
  BY <1>19, AfterTurning DEF Flush
<1>20. CASE TaskWait
  BY <1>20, AfterTurning DEF TaskWait
<1>21. CASE MainWait
  BY <1>21, AfterTurning DEF MainWait
<1>22. CASE owed = {} /\ FreeMS
  BY <1>22 DEF FreeMS, ReplyLeftovers, InSeq
<1>23. ASSUME NEW t \in Tag, CollectStatus(t) \/ CollectData(t) PROVE Ending'
  BY <1>23 DEF CollectStatus, CollectData, PipeDone
<1>24. CASE ReplyOwed
  BY <1>24 DEF ReplyOwed, TypeOK
<1>25. CASE ReleaseBinding
  BY <1>25, AfterTurning DEF ReleaseBinding, Alive
<1>26. CASE Bind
  BY <1>26, AfterTurning DEF Bind, Alive
<1>27. CASE TMReply
  BY <1>27, AfterTurning DEF TMReply
<1>28. ASSUME NEW t \in Tag, StatusReply(t) \/ DataReply(t) PROVE Ending'
  BY <1>28 DEF StatusReply, DataReply
<1>29. ASSUME NEW c \in Client, BeginIO(c) \/ PutRequest(c) \/ AbortIO(c) PROVE Ending'
  <2>1. CASE BeginIO(c)
    BY <1>29, <2>1 DEF BeginIO
  <2>2. CASE PutRequest(c)
    <3>1. InSeq(port') = InSeq(port) \cup {c}
      BY <2>2, InSeqAppend DEF PutRequest, TypeOK
    <3> QED
      BY <2>2, <3>1 DEF PutRequest
  <2>3. CASE AbortIO(c)
    <3>1. pc = "off" => queue' = queue /\ UNCHANGED overtaken
      BY <2>3 DEF AbortIO, InSeq
    <3> QED
      BY <2>3, <3>1 DEF AbortIO
  <2> QED
    BY <1>29, <2>1, <2>2, <2>3
<1>30. CASE UNCHANGED vars
  BY <1>30 DEF vars
<1>31. CASE Startup \/ Inquiry
  BY <1>31 DEF Startup, Inquiry
<1> QED
  BY <1>1, <1>2, <1>3, <1>4, <1>5, <1>6, <1>7, <1>8, <1>9, <1>10, <1>11, <1>12, <1>13,
     <1>14, <1>15, <1>16, <1>17, <1>18, <1>19, <1>20, <1>21, <1>22, <1>23, <1>24, <1>25,
     <1>26, <1>27, <1>28, <1>29, <1>30, <1>31 DEF Next, UnitTask, TaskStep, TransferEnds

\* What each group of actions does to the tags and to what the device owns.
LEMMA TagsAre ==
  ASSUME TypeOK
  PROVE  /\ tag \in [Tag -> TagType] /\ dev \in [Tag -> SUBSET {"old", "cur"}]
         /\ depth \in {0, NumTags} /\ tm.pipe \in 0..TMStream
BY DEF TypeOK

LEMMA FreeTagFacts ==
  ASSUME TypeOK, at' \in First(FreeTags)
  PROVE  at' \in Tag /\ depth # 0 /\ tag[at'].st = "free" /\ tm.pipe # at'
BY TagsAre DEF First, FreeTags, Tag

LEMMA ClaimTagFacts ==
  ASSUME TypeOK, ClaimTag
  PROVE  /\ at' \in Tag /\ depth # 0 /\ tag[at'].st = "free" /\ tm.pipe # at'
         /\ tag'[at'].st = "running" /\ tag'[at'].status = "wire" /\ ~tag'[at'].sent
         /\ \A u \in Tag : u # at' => tag'[u] = tag[u]
         /\ pc' = "scmd" /\ Rearm(at')
<1>1. at' \in Tag /\ depth # 0 /\ tag[at'].st = "free" /\ tm.pipe # at'
  BY FreeTagFacts DEF ClaimTag
<1>2. tag' = [tag EXCEPT ![at'] = [FreshTag EXCEPT !.st = "running", !.status = "wire"]]
  BY DEF ClaimTag
<1>3. tag'[at'] = [FreshTag EXCEPT !.st = "running", !.status = "wire"]
  BY <1>1, <1>2, TagsAre
<1>4. tag'[at'].st = "running" /\ tag'[at'].status = "wire" /\ ~tag'[at'].sent
  BY <1>3 DEF FreshTag
<1> QED
  BY <1>1, <1>2, <1>4, TagsAre DEF ClaimTag

LEMMA EscalateFacts ==
  ASSUME TypeOK, Escalate(tag)
  PROVE  /\ \A t \in Tag : IF tag[t].st = "running"
                             THEN tag'[t].st = "free" /\ tag'[t].status = "off"
                             ELSE tag'[t] = tag[t]
         /\ tm' = NoTM /\ pc' = "reset"
<1>1. ASSUME NEW t \in Tag, tag[t].st = "running"
      PROVE  tag'[t].st = "free" /\ tag'[t].status = "off"
  <2> DEFINE g == [AbortArmed(tag[t]) EXCEPT !.sent = FALSE]
  <2>1. AbortArmed(tag[t]) \in TagType
    BY RequestType, TagOperators
  <2>2. g \in TagType /\ ~g.sent
    BY <2>1 DEF TagType
  <2>3. tag'[t] = Finalized(g)
    BY <1>1 DEF Escalate
  <2> HIDE DEF g
  <2> QED
    BY <2>2, <2>3, Shapes
<1>2. ASSUME NEW t \in Tag, tag[t].st # "running" PROVE tag'[t] = tag[t]
  BY <1>2 DEF Escalate
<1> QED
  BY <1>1, <1>2 DEF Escalate

LEMMA PipeDoneFacts ==
  ASSUME TypeOK, NEW t \in Tag, NEW g \in TagType, PipeDone(t, g)
  PROVE  /\ \A u \in Tag : u # t => tag'[u] = tag[u]
         /\ \/ tag'[t] = g /\ UNCHANGED <<pc, at, dev>>
            \/ tag'[t] = Armed(g) /\ StatusSeen(g) /\ pc' = "chunk" /\ at' = t /\ Rearm(t)
            \/ tag'[t] = Finalized(g) /\ UNCHANGED <<pc, at, dev>>
BY TagsAre DEF PipeDone, StatusSeen

LEMMA CollectFacts ==
  ASSUME TypeOK, NEW t \in Tag, CollectStatus(t) \/ CollectData(t)
  PROVE  /\ tag[t].st = "running" /\ pc = "reap"
         /\ \A u \in Tag : u # t => tag'[u] = tag[u]
         /\ \/ /\ tag'[t].st = "running" /\ tag'[t].sent = tag[t].sent
               /\ StatusSeen(tag'[t]) <=> StatusSeen(tag[t])
               /\ UNCHANGED <<pc, at, dev>>
            \/ /\ tag'[t].st = "running" /\ tag'[t].status = "wire" /\ ~tag'[t].sent
               /\ StatusSeen(tag[t]) /\ pc' = "chunk" /\ at' = t /\ Rearm(t)
            \/ /\ tag'[t].st \in {"free", "quarantine"} /\ tag'[t].status = "off"
               /\ tag'[t].st = "free" => ~tag[t].sent \/ StatusSeen(tag[t])
               /\ UNCHANGED <<pc, at, dev>>
         /\ UNCHANGED <<depth, tm, doubt>>
<1> DEFINE a == [tag[t] EXCEPT !.sArm = FALSE]
           b == [tag[t] EXCEPT !.dArm = FALSE]
           h(g, bad) == IF bad THEN SignalAbort(g) ELSE g
<1>1. tag[t] \in TagType
  BY RequestType
<1>2. /\ a \in TagType /\ a.st = tag[t].st /\ a.sent = tag[t].sent /\ a.status = tag[t].status
      /\ b \in TagType /\ b.st = tag[t].st /\ b.sent = tag[t].sent /\ b.status = tag[t].status
  BY <1>1 DEF TagType
<1>3. PICK g \in TagType :
        /\ g.st = tag[t].st /\ g.sent = tag[t].sent /\ (StatusSeen(g) <=> StatusSeen(tag[t]))
        /\ PipeDone(t, g)
  <2>1. CASE CollectStatus(t)
    <3>1. PipeDone(t, h(a, a.status # "good"))
      BY <2>1 DEF CollectStatus
    <3> HIDE DEF a
    <3>0. /\ SignalAbort(a) \in TagType /\ SignalAbort(a).st = a.st
          /\ SignalAbort(a).sent = a.sent /\ (StatusSeen(SignalAbort(a)) <=> StatusSeen(a))
          /\ StatusSeen(a) <=> StatusSeen(tag[t])
      <4>1. StatusSeen(a) <=> StatusSeen(tag[t])
        BY <1>2 DEF StatusSeen
      <4> QED
        BY <1>2, <4>1, TagOperators, Shapes
    <3>2. /\ h(a, a.status # "good") \in TagType
          /\ h(a, a.status # "good").st = tag[t].st /\ h(a, a.status # "good").sent = tag[t].sent
          /\ StatusSeen(h(a, a.status # "good")) <=> StatusSeen(tag[t])
      BY <1>2, <3>0
    <3> QED
      BY <3>1, <3>2
  <2>2. CASE CollectData(t)
    <3>1. PipeDone(t, h(b, b.data = "err"))
      BY <2>2 DEF CollectData
    <3> HIDE DEF b
    <3>0. /\ SignalAbort(b) \in TagType /\ SignalAbort(b).st = b.st
          /\ SignalAbort(b).sent = b.sent /\ (StatusSeen(SignalAbort(b)) <=> StatusSeen(b))
          /\ StatusSeen(b) <=> StatusSeen(tag[t])
      <4>1. StatusSeen(b) <=> StatusSeen(tag[t])
        BY <1>2 DEF StatusSeen
      <4> QED
        BY <1>2, <4>1, TagOperators, Shapes
    <3>2. /\ h(b, b.data = "err") \in TagType
          /\ h(b, b.data = "err").st = tag[t].st /\ h(b, b.data = "err").sent = tag[t].sent
          /\ StatusSeen(h(b, b.data = "err")) <=> StatusSeen(tag[t])
      BY <1>2, <3>0
    <3> QED
      BY <3>1, <3>2
  <2> QED
    BY <2>1, <2>2
<1>4. tag[t].st = "running" /\ pc = "reap" /\ UNCHANGED <<depth, tm, doubt>>
  BY DEF CollectStatus, CollectData, engVars
<1> HIDE DEF a, b, h
<1> QED
  BY <1>3, <1>4, PipeDoneFacts, Shapes

LEMMA SendFacts ==
  ASSUME TypeOK, InHand, SendCommand \/ DirectCommand
  PROVE  /\ at \in Tag /\ tag[at].st = "running" /\ ~tag[at].sent
         /\ \A u \in Tag : u # at => tag'[u] = tag[u]
         /\ \/ /\ tag'[at].st = "running" /\ tag'[at].sent /\ tag'[at].status = tag[at].status
               /\ dev' = [dev EXCEPT ![at] = @ \cup {"cur"}] /\ doubt' = doubt
               /\ (pc' = "sstat" /\ at' = at) \/ pc' \in {"dispatch", "reap"}
            \/ /\ tag'[at].st = "free" /\ tag'[at].status = "off"
               /\ IULost(at) /\ pc' \in {"dispatch", "reap"}
         /\ UNCHANGED <<depth, tm>>
<1>1. at \in Tag /\ tag[at].st = "running" /\ ~tag[at].sent
  BY DEF SendCommand, DirectCommand, InHand
<1>2. tag[at] \in TagType /\ tag \in [Tag -> TagType]
  BY <1>1, RequestType, TagsAre
<1>3. UNCHANGED <<depth, tm>>
  BY DEF SendCommand, DirectCommand, engVars
<1>4. CASE SendCommand
  <2>1. AbortArmed(tag[at]) \in TagType /\ ~AbortArmed(tag[at]).sent
    BY <1>1, <1>2, TagOperators, Shapes
  <2>2. Finalized(AbortArmed(tag[at])).st = "free" /\ Finalized(AbortArmed(tag[at])).status = "off"
    BY <2>1, Shapes
  <2>3. CASE /\ tag' = [tag EXCEPT ![at].sent = TRUE]
             /\ dev' = [dev EXCEPT ![at] = @ \cup {"cur"}] /\ doubt' = doubt
    BY <1>1, <1>2, <1>3, <1>4, <2>3 DEF SendCommand, TagType
  <2>4. CASE tag' = [tag EXCEPT ![at] = Finalized(AbortArmed(@))] /\ IULost(at)
    BY <1>1, <1>2, <1>3, <1>4, <2>2, <2>4 DEF SendCommand
  <2> QED
    BY <1>4, <2>3, <2>4 DEF SendCommand
<1>5. CASE DirectCommand
  <2> DEFINE g == [tag[at] EXCEPT !.status = Aborted(@)]
  <2>1. g \in TagType /\ ~g.sent
    BY <1>1, <1>2, TagEnds DEF TagType
  <2>2. Finalized(g).st = "free" /\ Finalized(g).status = "off"
    <3> HIDE DEF g
    <3> QED
      BY <2>1, Shapes
  <2>3. CASE /\ tag' = [tag EXCEPT ![at].sent = TRUE,
                               ![at].data = IF kind[cur] = "stop" THEN "off" ELSE "wire"]
             /\ dev' = [dev EXCEPT ![at] = @ \cup {"cur"}] /\ pc' = "sstat"
             /\ UNCHANGED <<at, doubt>>
    BY <1>1, <1>2, <1>3, <2>3 DEF TagType
  <2>4. CASE tag' = [tag EXCEPT ![at] = Finalized(g)] /\ IULost(at) /\ DirectDone
    <3> HIDE DEF g
    <3> QED
      BY <1>1, <1>2, <1>3, <2>2, <2>4 DEF DirectDone
  <2> QED
    BY <1>5, <2>3, <2>4 DEF DirectCommand
<1> QED
  BY <1>4, <1>5

LEMMA DirectEndFacts ==
  ASSUME TypeOK, InHand, DirectStatus \/ DirectData
  PROVE  /\ at \in Tag /\ tag[at].st = "running" /\ UNCHANGED <<depth, tm, dev, doubt>>
         /\ \/ UNCHANGED <<tag, at>> /\ pc' = "sdata"
            \/ /\ \A u \in Tag : u # at => tag'[u] = tag[u]
               /\ tag'[at].st \in {"free", "quarantine"} /\ tag'[at].status = "off"
               /\ tag'[at].st = "free" => ~tag[at].sent \/ StatusSeen(tag[at])
               /\ pc' = "dispatch"
<1>1. /\ at \in Tag /\ tag[at].st = "running" /\ UNCHANGED <<depth, tm, dev, doubt>>
      /\ tag \in [Tag -> TagType] /\ tag[at] \in TagType
  BY TagsAre DEF DirectStatus, DirectData, InHand, engVars
<1>2. ASSUME NEW g \in TagType, DirectEnd(g), g.sent = tag[at].sent, g.status = tag[at].status
      PROVE  /\ \A u \in Tag : u # at => tag'[u] = tag[u]
             /\ tag'[at].st \in {"free", "quarantine"} /\ tag'[at].status = "off"
             /\ tag'[at].st = "free" => ~tag[at].sent \/ StatusSeen(tag[at])
             /\ pc' = "dispatch"
  <2>1. /\ Finalized(g).st \in {"free", "quarantine"} /\ Finalized(g).status = "off"
        /\ Finalized(g).st = "free" => ~g.sent \/ StatusSeen(g)
    BY Shapes
  <2>2. tag' = [tag EXCEPT ![at] = Finalized(g)] /\ pc' = "dispatch"
    BY <1>2 DEF DirectEnd, DirectDone
  <2> QED
    BY <1>1, <1>2, <2>1, <2>2 DEF StatusSeen
<1>3. CASE DirectData
  BY <1>1, <1>2, <1>3 DEF DirectData
<1>4. CASE DirectStatus
  <2> DEFINE g == [tag[at] EXCEPT !.data = Aborted(@)]
  <2>1. g \in TagType /\ g.sent = tag[at].sent /\ g.status = tag[at].status
    BY <1>1, TagEnds DEF TagType
  <2>2. DirectEnd(g) \/ (UNCHANGED <<tag, at>> /\ pc' = "sdata")
    BY <1>4 DEF DirectStatus
  <2> HIDE DEF g
  <2> QED
    BY <1>1, <1>2, <2>1, <2>2
<1> QED
  BY <1>3, <1>4

LEMMA ReplyFacts ==
  ASSUME TypeOK, NEW t \in Tag, StatusReply(t) \/ DataReply(t)
  PROVE  /\ UNCHANGED <<depth, tm, doubt, pc, at>>
         /\ \A u \in Tag : u # t => tag'[u] = tag[u] /\ dev'[u] = dev[u]
         /\ tag'[t].st = tag[t].st /\ tag'[t].sent = tag[t].sent
         /\ \/ tag'[t].status = tag[t].status /\ dev' = dev
            \/ /\ tag[t].status = "wire"
               /\ \/ tag'[t].status = "err" /\ dev' = dev
                  \/ dev[t] # {} /\ \E o \in dev[t] : dev'[t] = dev[t] \ {o}
<1>1. tag \in [Tag -> TagType] /\ tag[t] \in TagType /\ dev \in [Tag -> SUBSET {"old", "cur"}]
  BY TagsAre
<1>2. UNCHANGED <<depth, tm, doubt, pc, at>>
  BY DEF StatusReply, DataReply, engVars, curVars
<1>3. CASE DataReply(t)
  <2>1. PICK d \in {"ok", "err"} : tag' = [tag EXCEPT ![t].data = d]
    BY <1>3 DEF DataReply
  <2>2. dev' = dev
    BY <1>3 DEF DataReply
  <2> QED
    BY <1>1, <1>2, <2>1, <2>2 DEF TagType
<1>4. CASE StatusReply(t)
  <2>1. tag[t].status = "wire"
    BY <1>4 DEF StatusReply
  <2>2. CASE tag' = [tag EXCEPT ![t].status = "err"] /\ dev' = dev
    BY <1>1, <1>2, <2>1, <2>2 DEF TagType
  <2>3. CASE \E o \in dev[t], r \in {"good", "bad"} :
               tag' = [tag EXCEPT ![t].status = r] /\ dev' = [dev EXCEPT ![t] = @ \ {o}]
    <3>1. PICK o \in dev[t], r \in {"good", "bad"} :
            tag' = [tag EXCEPT ![t].status = r] /\ dev' = [dev EXCEPT ![t] = @ \ {o}]
      BY <2>3
    <3>2. dev'[t] = dev[t] \ {o} /\ \A u \in Tag : u # t => dev'[u] = dev[u]
      BY <1>1, <3>1
    <3>3. /\ tag'[t].st = tag[t].st /\ tag'[t].sent = tag[t].sent
          /\ \A u \in Tag : u # t => tag'[u] = tag[u]
      BY <1>1, <3>1 DEF TagType
    <3> QED
      BY <1>2, <2>1, <3>2, <3>3
  <2> QED
    BY <1>4, <2>2, <2>3 DEF StatusReply
<1> QED
  BY <1>3, <1>4

LEMMA AbortFacts ==
  ASSUME TypeOK, NEW c \in Client, BeginIO(c) \/ PutRequest(c) \/ AbortIO(c)
  PROVE  /\ UNCHANGED <<depth, tm, dev, doubt, pc, at>>
         /\ \A t \in Tag : /\ tag'[t].st = tag[t].st /\ tag'[t].sent = tag[t].sent
                           /\ tag'[t].status = tag[t].status
<1>1. tag \in [Tag -> TagType]
  BY TagsAre
<1>2. UNCHANGED <<depth, tm, dev, doubt, pc, at>>
  BY DEF BeginIO, PutRequest, AbortIO, engVars, curVars
<1>3. tag' = tag \/ \E t \in Tag : tag' = [tag EXCEPT ![t].abort = TRUE]
  BY DEF BeginIO, PutRequest, AbortIO
<1> QED
  BY <1>1, <1>2, <1>3 DEF TagType

LEMMA ProcessAbortsFacts ==
  ASSUME TypeOK, ProcessAborts
  PROVE  /\ UNCHANGED <<depth, tm, dev, doubt, at>>
         /\ \A t \in Tag : /\ tag'[t].st = tag[t].st /\ tag'[t].sent = tag[t].sent
                           /\ tag[t].status = "off" => tag'[t].status = "off"
                           /\ StatusSeen(tag'[t]) <=> StatusSeen(tag[t])
<1>1. UNCHANGED <<depth, tm, dev, doubt, at>>
  BY DEF ProcessAborts, engVars, curVars
<1>2. \A t \in Tag : tag[t] \in TagType /\ tag'[t] \in {tag[t], SignalAbort(tag[t])}
  BY TagsAre DEF ProcessAborts
<1> QED
  BY <1>1, <1>2, Shapes

LEMMA DeviceFacts ==
  ASSUME TypeOK, NEW t \in Tag
  PROVE  /\ Rearm(t) => /\ dev[t] = {} => dev'[t] = {}
                        /\ \A u \in Tag : u # t => dev'[u] = dev[u]
         /\ IULost(t) => \/ UNCHANGED <<dev, doubt>>
                         \/ doubt' /\ \A u \in Tag : u # t => dev'[u] = dev[u]
BY TagsAre DEF Rearm, IULost

LEMMA TMReplyFacts ==
  ASSUME TypeOK, TMReply
  PROVE  /\ tm.res = "wire" /\ tm'.pipe = tm.pipe /\ tm'.target = tm.target /\ pc' = pc /\ at' = at
         /\ UNCHANGED <<depth, tag, doubt>>
         /\ \/ tm'.res = "good" /\ dev' = [dev EXCEPT ![tm.target] = {}]
            \/ tm'.res = "bad" /\ dev' = dev
<1>1. tm \in [pipe : 0..TMStream, target : 0..NumTags, res : {"off", "wire", "good", "bad"}]
  BY DEF TypeOK
<1> QED
  BY <1>1 DEF TMReply, curVars

LEMMA SubmitFacts ==
  ASSUME TypeOK, InHand, SubmitTag
  PROVE  /\ at \in Tag /\ depth # 0 /\ tag[at].st = "free" /\ tm.pipe # at
         /\ tag'[at].st = "running" /\ tag'[at].status = "wire" /\ ~tag'[at].sent
         /\ \A u \in Tag : u # at => tag'[u] = tag[u]
         /\ pc' = "cmd" /\ Rearm(at) /\ UNCHANGED <<depth, tm, doubt, at>>
<1>1. at \in Tag /\ depth # 0 /\ tag[at].st = "free" /\ tm.pipe # at
  BY DEF SubmitTag, InHand
<1>2. tag'[at] = [Armed(FreshTag) EXCEPT !.st = "running", !.req = cur]
  BY <1>1, TagsAre DEF SubmitTag
<1>3. tag'[at].st = "running" /\ tag'[at].status = "wire" /\ ~tag'[at].sent
  BY <1>2 DEF Armed, FreshTag
<1>4. \A u \in Tag : u # at => tag'[u] = tag[u]
  BY TagsAre DEF SubmitTag
<1> QED
  BY <1>1, <1>3, <1>4 DEF SubmitTag, engVars

\* A reset: every tag is fresh, or the quarantined ones are and the host is in doubt.
LEMMA ResetFacts ==
  ASSUME TypeOK, ResetDevice
  PROVE  /\ tm' = tm /\ at' = at /\ pc' \in {"fetch", "drained", "claimed"}
         /\ depth' \in {0, depth}
         /\ \A t \in Tag : tag'[t] \in {tag[t], FreshTag}
         /\ \/ \A t \in Tag : tag'[t] = FreshTag /\ dev'[t] = {}
            \/ doubt' /\ depth' = depth
<1>1. tm' = tm /\ at' = at /\ depth' \in {0, depth}
  BY DEF ResetDevice, curVars
<1>2. pc' \in {"fetch", "drained", "claimed"}
  BY AfterTurning DEF ResetDevice
<1>3. /\ \A t \in Tag : tag'[t] \in {tag[t], FreshTag}
      /\ \/ \A t \in Tag : tag'[t] = FreshTag /\ dev'[t] = {}
         \/ doubt' /\ depth' = depth
  BY DEF ResetDevice
<1> QED
  BY <1>1, <1>2, <1>3

\* The engine's task management, but for an escalation, moves no tag on the wire.
LEMMA TMFFacts ==
  ASSUME TypeOK, TaskManagement, ReapTMF \/ IssueTMF \/ SendTMF
  PROVE  /\ UNCHANGED <<depth, dev, doubt, at>> /\ pc \in {"tmf", "tmcmd"}
         /\ \/ Escalate(tag)
            \/ /\ ReapTMF /\ pc' = pc /\ tm' = NoTM /\ tm.res = "good" /\ tm.target \in Tag
               /\ tag'[tm.target] = FreshTag
               /\ \A u \in Tag : u # tm.target => tag'[u] = tag[u]
            \/ /\ IssueTMF /\ tag' = tag /\ pc' = "tmcmd" /\ tm.pipe = 0
               /\ tm'.target \in Tag /\ tag[tm'.target].st = "quarantine"
               /\ tm'.pipe # 0 /\ (tm'.pipe \in Tag => tag[tm'.pipe].st = "free")
               /\ tm'.res = "wire"
            \/ /\ UNCHANGED <<tag, tm>> /\ pc' \in {"fetch", "drained", "claimed"}
<1>1. UNCHANGED <<depth, dev, doubt, at>> /\ pc \in {"tmf", "tmcmd"}
  BY DEF ReapTMF, IssueTMF, SendTMF, curVars
<1>2. CASE ReapTMF
  <2>1. CASE tm.res = "good"
    <3>1. tm.target \in Tag /\ tag[tm.target].st = "quarantine"
      BY <1>2 DEF ReapTMF, TaskManagement
    <3>2. tag' = [tag EXCEPT ![tm.target] = IF @.st = "quarantine" THEN FreshTag ELSE @]
      BY <1>2, <2>1 DEF ReapTMF
    <3>3. pc' = pc /\ tm' = NoTM
      BY <1>2, <2>1 DEF ReapTMF
    <3> QED
      BY <1>1, <1>2, <2>1, <3>1, <3>2, <3>3, TagsAre
  <2>2. CASE tm.res # "good"
    BY <1>1, <1>2, <2>2 DEF ReapTMF
  <2> QED
    BY <2>1, <2>2
<1>3. CASE IssueTMF
  <2>1. CASE tm.pipe # 0 \/ Quarantine = {}
    BY <1>1, <1>3, <2>1, AfterTurning DEF IssueTMF
  <2>2. CASE ~(tm.pipe # 0 \/ Quarantine = {})
    <3>1. PICK target \in First(Quarantine) :
            LET pipes == IF reserved THEN {TMStream} ELSE Lenders(target) IN
              \/ /\ \E p \in First(pipes) :
                      tm' = [pipe |-> p, target |-> target, res |-> "wire"]
                 /\ pc' = "tmcmd" /\ UNCHANGED <<tag, owed>>
              \/ pipes = {} /\ depth = 1 /\ Escalate(tag)
              \/ pipes = {} /\ depth # 1 /\ pc' = After /\ UNCHANGED <<tm, tag, owed>>
      BY <1>3, <2>2 DEF IssueTMF
    <3> DEFINE pipes == IF reserved THEN {TMStream} ELSE Lenders(target)
    <3>2. CASE Escalate(tag)
      BY <1>1, <3>2
    <3>3. CASE pc' = After /\ UNCHANGED <<tm, tag>>
      BY <1>1, <3>3, AfterTurning
    <3>4. ASSUME NEW p \in First(pipes),
                 tm' = [pipe |-> p, target |-> target, res |-> "wire"],
                 pc' = "tmcmd", tag' = tag
          PROVE  /\ tm'.target \in Tag /\ tag[tm'.target].st = "quarantine"
                 /\ tm'.pipe # 0 /\ (tm'.pipe \in Tag => tag[tm'.pipe].st = "free")
                 /\ tm'.res = "wire"
      <4>1. target \in Tag /\ tag[target].st = "quarantine"
        BY DEF First, Quarantine
      <4>2. p \in pipes
        BY DEF First
      <4>3. p = TMStream \/ (p \in 1..depth /\ tag[p].st = "free")
        BY <4>2 DEF Lenders
      <4>4. p # 0 /\ (p \in Tag => tag[p].st = "free")
        BY <4>3 DEF TMStream, Tag
      <4> QED
        BY <3>4, <4>1, <4>4
    <3> QED
      BY <1>1, <1>3, <2>2, <3>1, <3>2, <3>3, <3>4
  <2> QED
    BY <2>1, <2>2
<1>4. CASE SendTMF
  BY <1>1, <1>4, AfterTurning DEF SendTMF
<1> QED
  BY <1>2, <1>3, <1>4

LEMMA Shapes0 == FreshTag.st = "free" /\ FreshTag.status = "off" /\ ~FreshTag.sent
BY DEF FreshTag

\* A tag that does not run is off the wire.
LEMMA OffStep == IInv /\ [Next]_vars => OffUnlessRunning'
<1> SUFFICES ASSUME IInv, [Next]_vars PROVE OffUnlessRunning'
  OBVIOUS
<1>0. TypeOK /\ InHand /\ TaskManagement /\ TagsGone /\ OffUnlessRunning /\ DevKnown
  BY DEF IInv
<1> USE <1>0
<1>1. CASE ProcessAborts
  BY <1>1, ProcessAbortsFacts, Shapes0 DEF OffUnlessRunning
<1>2. CASE ReapDone
  BY <1>2 DEF ReapDone, engVars, curVars, OffUnlessRunning
<1>3. CASE ReapTMF
  BY <1>3, TMFFacts, EscalateFacts, Shapes0 DEF OffUnlessRunning
<1>4. CASE IssueTMF
  BY <1>4, TMFFacts, EscalateFacts, Shapes0 DEF OffUnlessRunning
<1>5. CASE SendTMF
  BY <1>5, TMFFacts, EscalateFacts, Shapes0 DEF OffUnlessRunning
<1>6. CASE ResetDevice
  BY <1>6, ResetFacts, Shapes0 DEF OffUnlessRunning
<1>7. CASE SendCommand
  BY <1>7, SendFacts, DeviceFacts, Shapes0 DEF OffUnlessRunning
<1>8. CASE FetchRequests
  BY <1>8 DEF FetchRequests, engVars, curVars, OffUnlessRunning
<1>9. CASE DispatchDone
  BY <1>9 DEF DispatchDone, engVars, curVars, OffUnlessRunning
<1>10. CASE TakeRequest
  BY <1>10, FreeTagFacts DEF TakeRequest, engVars, OffUnlessRunning
<1>11. CASE SubmitTag
  BY <1>11, SubmitFacts, DeviceFacts, Shapes0 DEF OffUnlessRunning
<1>12. CASE ScsiDirect
  BY <1>12, ClaimTagFacts, DeviceFacts DEF ScsiDirect, DirectDone, engVars, curVars,
     OffUnlessRunning
<1>13. CASE BulkDone
  BY <1>13 DEF BulkDone, DirectDone, engVars, curVars, OffUnlessRunning
<1>14. CASE ClaimAfterPump
  BY <1>14, ClaimTagFacts, DeviceFacts DEF ClaimAfterPump, DirectDone, engVars, curVars,
     OffUnlessRunning
<1>15. CASE DirectCommand
  BY <1>15, SendFacts, DeviceFacts, Shapes0 DEF OffUnlessRunning
<1>16. CASE DirectStatus
  BY <1>16, DirectEndFacts, Shapes0 DEF OffUnlessRunning
<1>17. CASE DirectData
  BY <1>17, DirectEndFacts, Shapes0 DEF OffUnlessRunning
<1>18. CASE DrainAfterPump
  BY <1>18 DEF DrainAfterPump, engVars, curVars, OffUnlessRunning
<1>19. CASE Flush
  BY <1>19 DEF Flush, engVars, curVars, OffUnlessRunning
<1>20. CASE TaskWait
  BY <1>20 DEF TaskWait, engVars, curVars, OffUnlessRunning
<1>21. CASE MainWait
  BY <1>21 DEF MainWait, engVars, curVars, OffUnlessRunning
<1>22. CASE owed = {} /\ FreeMS
  BY <1>22, Shapes0 DEF FreeMS, curVars, NoTM, OffUnlessRunning
<1>23. ASSUME NEW t \in Tag, CollectStatus(t) \/ CollectData(t) PROVE OffUnlessRunning'
  BY <1>23, CollectFacts, DeviceFacts, Shapes0 DEF OffUnlessRunning
<1>24. CASE ReplyOwed
  BY <1>24 DEF ReplyOwed, engVars, curVars, OffUnlessRunning
<1>25. CASE ReleaseBinding
  BY <1>25 DEF ReleaseBinding, engVars, curVars, OffUnlessRunning
<1>26. CASE Bind
  BY <1>26 DEF Bind, engVars, curVars, OffUnlessRunning
<1>27. CASE TMReply
  BY <1>27 DEF TMReply, engVars, curVars, OffUnlessRunning
<1>28. ASSUME NEW t \in Tag, StatusReply(t) \/ DataReply(t) PROVE OffUnlessRunning'
  BY <1>28, ReplyFacts, Shapes0 DEF OffUnlessRunning
<1>29. ASSUME NEW c \in Client, BeginIO(c) \/ PutRequest(c) \/ AbortIO(c) PROVE OffUnlessRunning'
  BY <1>29, AbortFacts, Shapes0 DEF OffUnlessRunning
<1>30. CASE UNCHANGED vars
  BY <1>30 DEF vars, cliVars, engVars, curVars, OffUnlessRunning
<1>31. CASE Startup \/ Inquiry
  BY <1>31 DEF Startup, Inquiry, OffUnlessRunning
<1> QED
  BY <1>1, <1>2, <1>3, <1>4, <1>5, <1>6, <1>7, <1>8, <1>9, <1>10, <1>11, <1>12, <1>13,
     <1>14, <1>15, <1>16, <1>17, <1>18, <1>19, <1>20, <1>21, <1>22, <1>23, <1>24, <1>25,
     <1>26, <1>27, <1>28, <1>29, <1>30, <1>31 DEF Next, UnitTask, TaskStep, TransferEnds

\* Without a queue depth no tag is taken.
LEMMA GoneStep == IInv /\ [Next]_vars => TagsGone'
<1> SUFFICES ASSUME IInv, [Next]_vars PROVE TagsGone'
  OBVIOUS
<1>0. TypeOK /\ InHand /\ TaskManagement /\ TagsGone /\ OffUnlessRunning /\ DevKnown
  BY DEF IInv
<1> USE <1>0
<1>1. CASE ProcessAborts
  BY <1>1, ProcessAbortsFacts, AfterTurning DEF ProcessAborts, TagsGone
<1>2. CASE ReapDone
  BY <1>2 DEF ReapDone, engVars, curVars, TagsGone, Alive
<1>3. CASE ReapTMF
  BY <1>3, TMFFacts, EscalateFacts, Shapes0 DEF TagsGone, Alive
<1>4. CASE IssueTMF
  BY <1>4, TMFFacts, EscalateFacts, Shapes0 DEF TagsGone, Alive
<1>5. CASE SendTMF
  BY <1>5, TMFFacts, EscalateFacts, Shapes0 DEF TagsGone, Alive
<1>6. CASE ResetDevice
  BY <1>6, ResetFacts, Shapes0 DEF TagsGone, Alive
<1>7. CASE SendCommand
  BY <1>7, SendFacts, DeviceFacts, Shapes0 DEF TagsGone, Alive
<1>8. CASE FetchRequests
  BY <1>8 DEF FetchRequests, engVars, curVars, TagsGone, Alive
<1>9. CASE DispatchDone
  BY <1>9 DEF DispatchDone, engVars, curVars, TagsGone, Alive
<1>10. CASE TakeRequest
  BY <1>10, FreeTagFacts DEF TakeRequest, engVars, TagsGone, Alive
<1>11. CASE SubmitTag
  BY <1>11, SubmitFacts, DeviceFacts, Shapes0 DEF TagsGone, Alive
<1>12. CASE ScsiDirect
  BY <1>12, ClaimTagFacts, DeviceFacts DEF ScsiDirect, DirectDone, engVars, curVars, TagsGone, Alive
<1>13. CASE BulkDone
  BY <1>13 DEF BulkDone, DirectDone, engVars, curVars, TagsGone, Alive
<1>14. CASE ClaimAfterPump
  BY <1>14, ClaimTagFacts, DeviceFacts DEF ClaimAfterPump, DirectDone, engVars, curVars,
     TagsGone, Alive
<1>15. CASE DirectCommand
  BY <1>15, SendFacts, DeviceFacts, Shapes0 DEF TagsGone, Alive
<1>16. CASE DirectStatus
  BY <1>16, DirectEndFacts, Shapes0 DEF TagsGone, Alive
<1>17. CASE DirectData
  BY <1>17, DirectEndFacts, Shapes0 DEF TagsGone, Alive
<1>18. CASE DrainAfterPump
  BY <1>18, TagsAre DEF DrainAfterPump, engVars, curVars, TagsIdle, TagsGone
<1>19. CASE Flush
  BY <1>19 DEF Flush, engVars, curVars, TagsGone, Alive
<1>20. CASE TaskWait
  BY <1>20 DEF TaskWait, engVars, curVars, TagsGone, Alive
<1>21. CASE MainWait
  BY <1>21 DEF MainWait, engVars, curVars, TagsGone, Alive
<1>22. CASE owed = {} /\ FreeMS
  BY <1>22, Shapes0 DEF FreeMS, curVars, NoTM, TagsGone, Alive
<1>23. ASSUME NEW t \in Tag, CollectStatus(t) \/ CollectData(t) PROVE TagsGone'
  BY <1>23, CollectFacts, DeviceFacts, Shapes0 DEF TagsGone, Alive
<1>24. CASE ReplyOwed
  BY <1>24 DEF ReplyOwed, engVars, curVars, TagsGone, Alive
<1>25. CASE ReleaseBinding
  BY <1>25 DEF ReleaseBinding, engVars, curVars, TagsGone, Alive
<1>26. CASE Bind
  BY <1>26 DEF Bind, engVars, curVars, TagsGone, Alive
<1>27. CASE TMReply
  BY <1>27 DEF TMReply, engVars, curVars, TagsGone, Alive
<1>28. ASSUME NEW t \in Tag, StatusReply(t) \/ DataReply(t) PROVE TagsGone'
  BY <1>28, ReplyFacts, Shapes0 DEF TagsGone, Alive
<1>29. ASSUME NEW c \in Client, BeginIO(c) \/ PutRequest(c) \/ AbortIO(c) PROVE TagsGone'
  BY <1>29, AbortFacts, Shapes0 DEF TagsGone, Alive
<1>30. CASE UNCHANGED vars
  BY <1>30 DEF vars, cliVars, engVars, curVars, TagsGone, Alive
<1>31. CASE Startup \/ Inquiry
  BY <1>31 DEF Startup, Inquiry, engVars, TagsGone
<1> QED
  BY <1>1, <1>2, <1>3, <1>4, <1>5, <1>6, <1>7, <1>8, <1>9, <1>10, <1>11, <1>12, <1>13,
     <1>14, <1>15, <1>16, <1>17, <1>18, <1>19, <1>20, <1>21, <1>22, <1>23, <1>24, <1>25,
     <1>26, <1>27, <1>28, <1>29, <1>30, <1>31 DEF Next, UnitTask, TaskStep, TransferEnds

\* The tag in hand is what the place in the code says.
LEMMA HandStep == IInv /\ [Next]_vars => InHand'
<1> SUFFICES ASSUME IInv, [Next]_vars PROVE InHand'
  OBVIOUS
<1>0. TypeOK /\ InHand /\ TaskManagement /\ TagsGone /\ OffUnlessRunning /\ DevKnown
  BY DEF IInv
<1> USE <1>0
<1>1. CASE ProcessAborts
  <2>1. pc' \in {"reap", "fetch", "drained", "claimed"}
    BY <1>1, AfterTurning DEF ProcessAborts
  <2> QED
    BY <2>1 DEF InHand
<1>2. CASE ReapDone
  BY <1>2 DEF ReapDone, engVars, curVars, InHand, StatusSeen
<1>3. CASE ReapTMF
  <2>1. pc' \notin {"bind", "cmd", "chunk", "scmd", "sstat", "sdata"}
    BY <1>3, TMFFacts, EscalateFacts
  <2> QED
    BY <2>1 DEF InHand
<1>4. CASE IssueTMF
  <2>1. pc' \notin {"bind", "cmd", "chunk", "scmd", "sstat", "sdata"}
    BY <1>4, TMFFacts, EscalateFacts
  <2> QED
    BY <2>1 DEF InHand
<1>5. CASE SendTMF
  <2>1. pc' \notin {"bind", "cmd", "chunk", "scmd", "sstat", "sdata"}
    BY <1>5, TMFFacts, EscalateFacts
  <2> QED
    BY <2>1 DEF InHand
<1>6. CASE ResetDevice
  BY <1>6, ResetFacts, Shapes0 DEF InHand, StatusSeen
<1>7. CASE SendCommand
  BY <1>7, SendFacts, DeviceFacts, Shapes0 DEF InHand, StatusSeen
<1>8. CASE FetchRequests
  BY <1>8 DEF FetchRequests, engVars, curVars, InHand, StatusSeen
<1>9. CASE DispatchDone
  BY <1>9 DEF DispatchDone, engVars, curVars, InHand, StatusSeen
<1>10. CASE TakeRequest
  BY <1>10, FreeTagFacts DEF TakeRequest, engVars, InHand, StatusSeen
<1>11. CASE SubmitTag
  BY <1>11, SubmitFacts, DeviceFacts, Shapes0 DEF InHand, StatusSeen
<1>12. CASE ScsiDirect
  <2>1. ClaimTag \/ pc' \in {"dispatch", "bulk", "pump"}
    BY <1>12 DEF ScsiDirect, DirectDone
  <2>2. UNCHANGED <<depth, tm, doubt>>
    BY <1>12 DEF ScsiDirect, engVars
  <2> QED
    BY <2>1, <2>2, ClaimTagFacts DEF InHand, StatusSeen
<1>13. CASE BulkDone
  BY <1>13 DEF BulkDone, DirectDone, engVars, curVars, InHand, StatusSeen
<1>14. CASE ClaimAfterPump
  <2>1. ClaimTag \/ pc' \in {"dispatch", "taskwait"}
    BY <1>14 DEF ClaimAfterPump, DirectDone
  <2>2. UNCHANGED <<depth, tm, doubt>>
    BY <1>14 DEF ClaimAfterPump, engVars
  <2> QED
    BY <2>1, <2>2, ClaimTagFacts DEF InHand, StatusSeen
<1>15. CASE DirectCommand
  BY <1>15, SendFacts, DeviceFacts, Shapes0 DEF InHand, StatusSeen
<1>16. CASE DirectStatus
  BY <1>16, DirectEndFacts, Shapes0 DEF InHand, StatusSeen
<1>17. CASE DirectData
  BY <1>17, DirectEndFacts, Shapes0 DEF InHand, StatusSeen
<1>18. CASE DrainAfterPump
  BY <1>18 DEF DrainAfterPump, engVars, curVars, InHand, StatusSeen
<1>19. CASE Flush
  BY <1>19 DEF Flush, engVars, curVars, InHand, StatusSeen
<1>20. CASE TaskWait
  BY <1>20 DEF TaskWait, engVars, curVars, InHand, StatusSeen
<1>21. CASE MainWait
  BY <1>21 DEF MainWait, engVars, curVars, InHand, StatusSeen
<1>22. CASE owed = {} /\ FreeMS
  BY <1>22, Shapes0 DEF FreeMS, curVars, NoTM, InHand, StatusSeen
<1>23. ASSUME NEW t \in Tag, CollectStatus(t) \/ CollectData(t) PROVE InHand'
  BY <1>23, CollectFacts, DeviceFacts, Shapes0 DEF InHand, StatusSeen
<1>24. CASE ReplyOwed
  BY <1>24 DEF ReplyOwed, engVars, curVars, InHand, StatusSeen
<1>25. CASE ReleaseBinding
  BY <1>25 DEF ReleaseBinding, engVars, curVars, InHand, StatusSeen
<1>26. CASE Bind
  BY <1>26 DEF Bind, engVars, curVars, InHand, StatusSeen
<1>27. CASE TMReply
  BY <1>27, TMReplyFacts DEF InHand
<1>28. ASSUME NEW t \in Tag, StatusReply(t) \/ DataReply(t) PROVE InHand'
  BY <1>28, ReplyFacts DEF InHand, StatusSeen, DevKnown, Closed
<1>29. ASSUME NEW c \in Client, BeginIO(c) \/ PutRequest(c) \/ AbortIO(c) PROVE InHand'
  BY <1>29, AbortFacts, Shapes0 DEF InHand, StatusSeen
<1>30. CASE UNCHANGED vars
  BY <1>30 DEF vars, cliVars, engVars, curVars, InHand, StatusSeen
<1>31. CASE Startup \/ Inquiry
  BY <1>31 DEF Startup, Inquiry, engVars, curVars, InHand, StatusSeen
<1> QED
  BY <1>1, <1>2, <1>3, <1>4, <1>5, <1>6, <1>7, <1>8, <1>9, <1>10, <1>11, <1>12, <1>13,
     <1>14, <1>15, <1>16, <1>17, <1>18, <1>19, <1>20, <1>21, <1>22, <1>23, <1>24, <1>25,
     <1>26, <1>27, <1>28, <1>29, <1>30, <1>31 DEF Next, UnitTask, TaskStep, TransferEnds

\* Task management keeps its target and its pipe.
LEMMA TMStep == IInv /\ [Next]_vars => TaskManagement'
<1> SUFFICES ASSUME IInv, [Next]_vars PROVE TaskManagement'
  OBVIOUS
<1>0. TypeOK /\ InHand /\ TaskManagement /\ TagsGone /\ OffUnlessRunning /\ DevKnown
  BY DEF IInv
<1> USE <1>0
<1>1. CASE ProcessAborts
  <2>1. pc' \in {"reap", "fetch", "drained", "claimed"}
    BY <1>1, AfterTurning DEF ProcessAborts
  <2> QED
    BY <1>1, <2>1, ProcessAbortsFacts DEF TaskManagement
<1>2. CASE ReapDone
  BY <1>2 DEF ReapDone, engVars, curVars, TaskManagement
<1>3. CASE ReapTMF
  BY <1>3, TMFFacts, EscalateFacts DEF TaskManagement, NoTM, Tag
<1>4. CASE IssueTMF
  BY <1>4, TMFFacts, EscalateFacts DEF TaskManagement, NoTM, Tag
<1>5. CASE SendTMF
  BY <1>5, TMFFacts, EscalateFacts DEF TaskManagement, NoTM, Tag
<1>6. CASE ResetDevice
  <2>1. tm = NoTM
    BY <1>6 DEF ResetDevice, TaskManagement
  <2> QED
    BY <1>6, <2>1, ResetFacts DEF TaskManagement, NoTM, Tag
<1>7. CASE SendCommand
  <2>1. /\ at \in Tag /\ tag[at].st = "running" /\ pc' # "reset" /\ tm' = tm
        /\ \A u \in Tag : u # at => tag'[u] = tag[u]
    BY <1>7, SendFacts
  <2>2. doubt' \/ (doubt' = doubt /\ \A u \in Tag : u # at => dev'[u] = dev[u])
    BY <1>7, SendFacts, DeviceFacts, TagsAre
  <2>3. tm.pipe # 0 => tm.target \in Tag /\ tm.target # at
    BY <2>1 DEF TaskManagement
  <2>4. tm.pipe \in Tag => tm.pipe # at
    BY <2>1 DEF TaskManagement
  <2>5. tm.res = "good" => tm.pipe # 0
    BY DEF TaskManagement
  <2> QED
    BY <2>1, <2>2, <2>3, <2>4, <2>5 DEF TaskManagement
<1>8. CASE FetchRequests
  BY <1>8 DEF FetchRequests, engVars, curVars, TaskManagement
<1>9. CASE DispatchDone
  BY <1>9 DEF DispatchDone, engVars, curVars, TaskManagement
<1>10. CASE TakeRequest
  BY <1>10, FreeTagFacts DEF TakeRequest, engVars, TaskManagement
<1>11. CASE SubmitTag
  BY <1>11, SubmitFacts, DeviceFacts, Shapes0 DEF TaskManagement
<1>12. CASE ScsiDirect
  BY <1>12, ClaimTagFacts, DeviceFacts DEF ScsiDirect, DirectDone, engVars, curVars, TaskManagement
<1>13. CASE BulkDone
  BY <1>13 DEF BulkDone, DirectDone, engVars, curVars, TaskManagement
<1>14. CASE ClaimAfterPump
  BY <1>14, ClaimTagFacts, DeviceFacts DEF ClaimAfterPump, DirectDone, engVars, curVars,
     TaskManagement
<1>15. CASE DirectCommand
  <2>1. /\ at \in Tag /\ tag[at].st = "running" /\ pc' # "reset" /\ tm' = tm
        /\ \A u \in Tag : u # at => tag'[u] = tag[u]
    BY <1>15, SendFacts
  <2>2. doubt' \/ (doubt' = doubt /\ \A u \in Tag : u # at => dev'[u] = dev[u])
    BY <1>15, SendFacts, DeviceFacts, TagsAre
  <2>3. tm.pipe # 0 => tm.target \in Tag /\ tm.target # at
    BY <2>1 DEF TaskManagement
  <2>4. tm.pipe \in Tag => tm.pipe # at
    BY <2>1 DEF TaskManagement
  <2>5. tm.res = "good" => tm.pipe # 0
    BY DEF TaskManagement
  <2> QED
    BY <2>1, <2>2, <2>3, <2>4, <2>5 DEF TaskManagement
<1>16. CASE DirectStatus
  BY <1>16, DirectEndFacts, Shapes0 DEF TaskManagement
<1>17. CASE DirectData
  BY <1>17, DirectEndFacts, Shapes0 DEF TaskManagement
<1>18. CASE DrainAfterPump
  BY <1>18 DEF DrainAfterPump, engVars, curVars, TaskManagement
<1>19. CASE Flush
  BY <1>19 DEF Flush, engVars, curVars, TaskManagement
<1>20. CASE TaskWait
  BY <1>20 DEF TaskWait, engVars, curVars, TaskManagement
<1>21. CASE MainWait
  BY <1>21 DEF MainWait, engVars, curVars, TaskManagement
<1>22. CASE owed = {} /\ FreeMS
  BY <1>22, Shapes0 DEF FreeMS, curVars, NoTM, TaskManagement
<1>23. ASSUME NEW t \in Tag, CollectStatus(t) \/ CollectData(t) PROVE TaskManagement'
  BY <1>23, CollectFacts, DeviceFacts, Shapes0 DEF TaskManagement
<1>24. CASE ReplyOwed
  BY <1>24 DEF ReplyOwed, engVars, curVars, TaskManagement
<1>25. CASE ReleaseBinding
  BY <1>25 DEF ReleaseBinding, engVars, curVars, TaskManagement
<1>26. CASE Bind
  BY <1>26 DEF Bind, engVars, curVars, TaskManagement
<1>27. CASE TMReply
  BY <1>27, TMReplyFacts, TagsAre DEF TaskManagement, NoTM
<1>28. ASSUME NEW t \in Tag, StatusReply(t) \/ DataReply(t) PROVE TaskManagement'
  BY <1>28, ReplyFacts, Shapes0 DEF TaskManagement
<1>29. ASSUME NEW c \in Client, BeginIO(c) \/ PutRequest(c) \/ AbortIO(c) PROVE TaskManagement'
  BY <1>29, AbortFacts, Shapes0 DEF TaskManagement
<1>30. CASE UNCHANGED vars
  BY <1>30 DEF vars, cliVars, engVars, curVars, TaskManagement
<1>31. CASE Startup \/ Inquiry
  BY <1>31 DEF Startup, Inquiry, engVars, curVars, TaskManagement
<1> QED
  BY <1>1, <1>2, <1>3, <1>4, <1>5, <1>6, <1>7, <1>8, <1>9, <1>10, <1>11, <1>12, <1>13,
     <1>14, <1>15, <1>16, <1>17, <1>18, <1>19, <1>20, <1>21, <1>22, <1>23, <1>24, <1>25,
     <1>26, <1>27, <1>28, <1>29, <1>30, <1>31 DEF Next, UnitTask, TaskStep, TransferEnds

\* What the device owns stays behind what the tags say.
LEMMA DevStep == IInv /\ [Next]_vars => DevKnown'
<1> SUFFICES ASSUME IInv, [Next]_vars PROVE DevKnown'
  OBVIOUS
<1>0. TypeOK /\ InHand /\ TaskManagement /\ TagsGone /\ OffUnlessRunning /\ DevKnown
  BY DEF IInv
<1> USE <1>0
<1>1. CASE ProcessAborts
  <2>1. pc # "reset"
    BY <1>1 DEF ProcessAborts
  <2>2. \A u \in Tag : Closed(tag'[u]) => Closed(tag[u])
    BY <1>1, ProcessAbortsFacts DEF Closed
  <2> QED
    BY <1>1, <2>1, <2>2, ProcessAbortsFacts DEF DevKnown
<1>2. CASE ReapDone
  BY <1>2 DEF ReapDone, engVars, curVars, DevKnown, Closed, StatusSeen
<1>3. CASE ReapTMF
  <2>1. dev' = dev /\ doubt' = doubt /\ pc # "reset"
    BY <1>3, TMFFacts
  <2>2. CASE Escalate(tag)
    BY <2>1, <2>2, EscalateFacts DEF DevKnown
  <2>3. CASE tag' = tag
    BY <2>1, <2>3 DEF DevKnown
  <2>4. CASE /\ tm.res = "good" /\ tm.target \in Tag
             /\ \A u \in Tag : u # tm.target => tag'[u] = tag[u]
    BY <2>1, <2>4 DEF DevKnown, TaskManagement
  <2> QED
    BY <1>3, <2>2, <2>3, <2>4, TMFFacts
<1>4. CASE IssueTMF
  <2>1. dev' = dev /\ doubt' = doubt /\ pc # "reset"
    BY <1>4, TMFFacts
  <2>2. CASE Escalate(tag)
    BY <2>1, <2>2, EscalateFacts DEF DevKnown
  <2>3. CASE tag' = tag
    BY <2>1, <2>3 DEF DevKnown
  <2>4. CASE /\ tm.res = "good" /\ tm.target \in Tag
             /\ \A u \in Tag : u # tm.target => tag'[u] = tag[u]
    BY <2>1, <2>4 DEF DevKnown, TaskManagement
  <2> QED
    BY <1>4, <2>2, <2>3, <2>4, TMFFacts
<1>5. CASE SendTMF
  <2>1. dev' = dev /\ doubt' = doubt /\ pc # "reset"
    BY <1>5, TMFFacts
  <2>2. CASE Escalate(tag)
    BY <2>1, <2>2, EscalateFacts DEF DevKnown
  <2>3. CASE tag' = tag
    BY <2>1, <2>3 DEF DevKnown
  <2>4. CASE /\ tm.res = "good" /\ tm.target \in Tag
             /\ \A u \in Tag : u # tm.target => tag'[u] = tag[u]
    BY <2>1, <2>4 DEF DevKnown, TaskManagement
  <2> QED
    BY <1>5, <2>2, <2>3, <2>4, TMFFacts
<1>6. CASE ResetDevice
  <2>1. CASE doubt'
    BY <2>1 DEF DevKnown
  <2>2. CASE \A t \in Tag : dev'[t] = {}
    BY <2>2 DEF DevKnown
  <2> QED
    BY <1>6, <2>1, <2>2, ResetFacts
<1>7. CASE SendCommand
  <2>1. pc \in {"cmd", "chunk", "scmd"}
    BY <1>7 DEF SendCommand, DirectCommand
  <2>2. /\ at \in Tag /\ Closed(tag[at]) /\ (StatusSeen(tag[at]) => doubt)
        /\ \A u \in Tag : u # at => tag'[u] = tag[u]
    BY <1>7, <2>1, SendFacts DEF InHand, Closed
  <2>3. CASE /\ tag'[at].st = "running" /\ tag'[at].sent /\ tag'[at].status = tag[at].status
             /\ dev' = [dev EXCEPT ![at] = @ \cup {"cur"}] /\ doubt' = doubt
    <3>1. Closed(tag'[at]) => doubt
      BY <2>2, <2>3 DEF Closed, StatusSeen
    <3> QED
      BY <2>1, <2>2, <2>3, <3>1, TagsAre DEF DevKnown
  <2>4. CASE UNCHANGED <<dev, doubt>>
    BY <2>1, <2>2, <2>4 DEF DevKnown
  <2>5. CASE doubt'
    BY <2>5 DEF DevKnown
  <2> QED
    BY <1>7, <2>2, <2>3, <2>4, <2>5, SendFacts, DeviceFacts
<1>8. CASE FetchRequests
  BY <1>8 DEF FetchRequests, engVars, curVars, DevKnown, Closed, StatusSeen
<1>9. CASE DispatchDone
  BY <1>9 DEF DispatchDone, engVars, curVars, DevKnown, Closed, StatusSeen
<1>10. CASE TakeRequest
  BY <1>10, FreeTagFacts DEF TakeRequest, engVars, DevKnown, Closed, StatusSeen
<1>11. CASE SubmitTag
  <2>1. pc # "reset" /\ doubt' = doubt
    BY <1>11 DEF SubmitTag
  <2>2. at \in Tag /\ Closed(tag[at]) /\ \A u \in Tag : u # at => tag'[u] = tag[u]
    BY <1>11, SubmitFacts DEF Closed
  <2>3. (dev[at] = {} => dev'[at] = {}) /\ \A u \in Tag : u # at => dev'[u] = dev[u]
    BY <1>11, <2>2, SubmitFacts, DeviceFacts
  <2> QED
    BY <2>1, <2>2, <2>3 DEF DevKnown
<1>12. CASE ScsiDirect
  <2>1. pc # "reset" /\ doubt' = doubt /\ (ClaimTag \/ UNCHANGED <<tag, dev>>)
    BY <1>12 DEF ScsiDirect, DirectDone
  <2>2. CASE ClaimTag
    <3>1. at' \in Tag /\ Closed(tag[at']) /\ \A u \in Tag : u # at' => tag'[u] = tag[u]
      BY <2>2, ClaimTagFacts DEF Closed
    <3>2. (dev[at'] = {} => dev'[at'] = {}) /\ \A u \in Tag : u # at' => dev'[u] = dev[u]
      BY <2>2, <3>1, ClaimTagFacts, DeviceFacts
    <3> QED
      BY <2>1, <3>1, <3>2 DEF DevKnown
  <2>3. CASE UNCHANGED <<tag, dev>>
    BY <2>1, <2>3 DEF DevKnown
  <2> QED
    BY <2>1, <2>2, <2>3
<1>13. CASE BulkDone
  BY <1>13 DEF BulkDone, DirectDone, engVars, curVars, DevKnown, Closed, StatusSeen
<1>14. CASE ClaimAfterPump
  <2>1. pc # "reset" /\ doubt' = doubt /\ (ClaimTag \/ UNCHANGED <<tag, dev>>)
    BY <1>14 DEF ClaimAfterPump, DirectDone
  <2>2. CASE ClaimTag
    <3>1. at' \in Tag /\ Closed(tag[at']) /\ \A u \in Tag : u # at' => tag'[u] = tag[u]
      BY <2>2, ClaimTagFacts DEF Closed
    <3>2. (dev[at'] = {} => dev'[at'] = {}) /\ \A u \in Tag : u # at' => dev'[u] = dev[u]
      BY <2>2, <3>1, ClaimTagFacts, DeviceFacts
    <3> QED
      BY <2>1, <3>1, <3>2 DEF DevKnown
  <2>3. CASE UNCHANGED <<tag, dev>>
    BY <2>1, <2>3 DEF DevKnown
  <2> QED
    BY <2>1, <2>2, <2>3
<1>15. CASE DirectCommand
  <2>1. pc \in {"cmd", "chunk", "scmd"}
    BY <1>15 DEF SendCommand, DirectCommand
  <2>2. /\ at \in Tag /\ Closed(tag[at]) /\ (StatusSeen(tag[at]) => doubt)
        /\ \A u \in Tag : u # at => tag'[u] = tag[u]
    BY <1>15, <2>1, SendFacts DEF InHand, Closed
  <2>3. CASE /\ tag'[at].st = "running" /\ tag'[at].sent /\ tag'[at].status = tag[at].status
             /\ dev' = [dev EXCEPT ![at] = @ \cup {"cur"}] /\ doubt' = doubt
    <3>1. Closed(tag'[at]) => doubt
      BY <2>2, <2>3 DEF Closed, StatusSeen
    <3> QED
      BY <2>1, <2>2, <2>3, <3>1, TagsAre DEF DevKnown
  <2>4. CASE UNCHANGED <<dev, doubt>>
    BY <2>1, <2>2, <2>4 DEF DevKnown
  <2>5. CASE doubt'
    BY <2>5 DEF DevKnown
  <2> QED
    BY <1>15, <2>2, <2>3, <2>4, <2>5, SendFacts, DeviceFacts
<1>16. CASE DirectStatus
  <2>1. pc \in {"sstat", "sdata"}
    BY <1>16 DEF DirectStatus, DirectData
  <2>2. \A u \in Tag : Closed(tag'[u]) => Closed(tag[u])
    BY <1>16, DirectEndFacts DEF Closed
  <2> QED
    BY <1>16, <2>1, <2>2, DirectEndFacts DEF DevKnown
<1>17. CASE DirectData
  <2>1. pc \in {"sstat", "sdata"}
    BY <1>17 DEF DirectStatus, DirectData
  <2>2. \A u \in Tag : Closed(tag'[u]) => Closed(tag[u])
    BY <1>17, DirectEndFacts DEF Closed
  <2> QED
    BY <1>17, <2>1, <2>2, DirectEndFacts DEF DevKnown
<1>18. CASE DrainAfterPump
  BY <1>18 DEF DrainAfterPump, engVars, curVars, DevKnown, Closed, StatusSeen
<1>19. CASE Flush
  BY <1>19 DEF Flush, engVars, curVars, DevKnown, Closed, StatusSeen
<1>20. CASE TaskWait
  BY <1>20 DEF TaskWait, engVars, curVars, DevKnown, Closed, StatusSeen
<1>21. CASE MainWait
  BY <1>21 DEF MainWait, engVars, curVars, DevKnown, Closed, StatusSeen
<1>22. CASE owed = {} /\ FreeMS
  <2>1. \A t \in Tag : tag[t].st = "free"
    BY <1>22 DEF FreeMS, TagsGone
  <2> QED
    BY <1>22, <2>1 DEF FreeMS, DevKnown, Closed
<1>23. ASSUME NEW t \in Tag, CollectStatus(t) \/ CollectData(t) PROVE DevKnown'
  BY <1>23, CollectFacts, DeviceFacts, Shapes0 DEF DevKnown, Closed, StatusSeen
<1>24. CASE ReplyOwed
  BY <1>24 DEF ReplyOwed, engVars, curVars, DevKnown, Closed, StatusSeen
<1>25. CASE ReleaseBinding
  BY <1>25 DEF ReleaseBinding, engVars, curVars, DevKnown, Closed, StatusSeen
<1>26. CASE Bind
  BY <1>26 DEF Bind, engVars, curVars, DevKnown, Closed, StatusSeen
<1>27. CASE TMReply
  <2>1. /\ doubt' = doubt /\ tag' = tag /\ pc' = pc
        /\ \A u \in Tag : dev'[u] \in {dev[u], {}}
    BY <1>27, TMReplyFacts, TagsAre
  <2> QED
    BY <2>1 DEF DevKnown
<1>28. ASSUME NEW t \in Tag, StatusReply(t) \/ DataReply(t) PROVE DevKnown'
  <2> SUFFICES ASSUME ~doubt PROVE DevKnown'
    BY <1>28, ReplyFacts DEF DevKnown
  <2>1. \A u \in Tag : u # t => tag'[u] = tag[u] /\ dev'[u] = dev[u]
    BY <1>28, ReplyFacts
  <2>2. "old" \notin dev'[t] /\ (dev' = dev \/ dev'[t] = {})
    <3>1. dev[t] \subseteq {"cur"}
      BY TagsAre DEF DevKnown
    <3> QED
      BY <1>28, <3>1, ReplyFacts DEF DevKnown
  <2>3. pc' = pc /\ (dev' = dev /\ Closed(tag'[t]) => Closed(tag[t]) \/ dev'[t] = {})
    BY <1>28, ReplyFacts DEF Closed, StatusSeen
  <2> QED
    BY <2>1, <2>2, <2>3 DEF DevKnown
<1>29. ASSUME NEW c \in Client, BeginIO(c) \/ PutRequest(c) \/ AbortIO(c) PROVE DevKnown'
  BY <1>29, AbortFacts, Shapes0 DEF DevKnown, Closed, StatusSeen
<1>30. CASE UNCHANGED vars
  BY <1>30 DEF vars, cliVars, engVars, curVars, DevKnown, Closed, StatusSeen
<1>31. CASE Startup \/ Inquiry
  BY <1>31 DEF Startup, Inquiry, DevKnown, Closed, StatusSeen
<1> QED
  BY <1>1, <1>2, <1>3, <1>4, <1>5, <1>6, <1>7, <1>8, <1>9, <1>10, <1>11, <1>12, <1>13,
     <1>14, <1>15, <1>16, <1>17, <1>18, <1>19, <1>20, <1>21, <1>22, <1>23, <1>24, <1>25,
     <1>26, <1>27, <1>28, <1>29, <1>30, <1>31 DEF Next, UnitTask, TaskStep, TransferEnds

-----------------------------------------------------------------------------
LEMMA Initially == Init => IInv
<1> SUFFICES ASSUME Init PROVE IInv
  OBVIOUS
<1>1. TypeOK
  <2>1. /\ rq \in [Client -> {"idle", "passed", "sent"}] /\ kind \in [Client -> Kinds]
        /\ overtaken \subseteq Client /\ owed \subseteq Client /\ cur \in Client \cup {None}
        /\ deny \in BOOLEAN /\ doubt \in BOOLEAN
    BY DEF Init, Kinds
  <2>2. port \in Seq(Client) /\ queue \in Seq(Client)
    BY DEF Init
  <2>3. /\ tag \in [Tag -> TagType] /\ dev \in [Tag -> SUBSET {"old", "cur"}]
        /\ tm \in [pipe : 0..TMStream, target : 0..NumTags, res : {"off", "wire", "good", "bad"}]
    BY Fresh DEF Init
  <2>4. depth \in {0, NumTags} /\ reserved \in BOOLEAN
    BY DEF Init
  <2>5. pc = "startup" /\ ctx = "main" /\ at = 0 /\ sigs = {} /\ sends = 0 /\ releases = 0
    BY DEF Init
  <2> QED
    BY <2>1, <2>2, <2>3, <2>4, <2>5 DEF TypeOK
<1>2. \A t \in Tag : tag[t] = FreshTag /\ dev[t] = {}
  BY DEF Init
<1>3. pc = "startup" /\ ctx = "main" /\ tm = NoTM
  BY DEF Init
<1>4. OffUnlessRunning /\ TagsGone /\ DevKnown
  BY <1>2, Shapes0 DEF OffUnlessRunning, TagsGone, DevKnown
<1>5. InHand /\ Turning /\ Ending /\ TaskManagement
  BY <1>3 DEF InHand, Turning, Ending, TaskManagement, StrandedOnlyIfOvertaken, NoTM, Tag
<1> QED
  BY <1>1, <1>4, <1>5 DEF IInv

LEMMA Inductive == IInv /\ [Next]_vars => IInv'
BY TypeStep, TurningStep, EndingStep, OffStep, GoneStep, HandStep, TMStep, DevStep DEF IInv

LEMMA Invariant == Spec => []IInv
BY Initially, Inductive, PTL DEF Spec

\* The variables of the unit keep their types: whatever is aborted, reset or
\* released, the unit task indexes its tags with a tag and its queue holds
\* requests.
THEOREM UnitTypeCorrect == Spec => []TypeOK
<1>1. IInv => TypeOK
  BY DEF IInv
<1> QED
  BY Invariant, <1>1, PTL

\* For any number of tags, a Sense IU is taken for the command it belongs to:
\* no status pipe is armed anew while the device may answer an older command
\* with the tag, and none that task management uses carries a command
\* (nUasFinalizeTag's quarantine, nUasReapTMF, nUasFreeTag, nUasIssueTMF).
THEOREM StatusesOwn == Spec => []StatusIsOwn
<1>1. IInv => NoStaleStatus
  BY DEF IInv, DevKnown, NoStaleStatus
<1>2. IInv => TMAlone
  <2>1. ASSUME IInv, tm.pipe \in Tag PROVE tag[tm.pipe].st = "free" /\ tag[tm.pipe].status # "wire"
    BY <2>1 DEF IInv, TaskManagement, OffUnlessRunning
  <2> QED
    BY <2>1 DEF TMAlone
<1>3. IInv => StatusIsOwn
  BY <1>1, <1>2 DEF StatusIsOwn
<1> QED
  BY Invariant, <1>3, PTL

\* For any number of clients, a request that is left in the port of a unit
\* whose task has ended came after its release: the port and the queue were
\* drained before (nFreeMS), and a release denies requests first.
THEOREM OnlyOvertakenStranded == Spec => []StrandedOnlyIfOvertaken
<1>1. IInv => StrandedOnlyIfOvertaken
  BY DEF IInv, Ending
<1> QED
  BY Invariant, <1>1, PTL

-----------------------------------------------------------------------------
\* Where the requests that were sent are: the clients in P on the port, in Q in
\* the queue, in O let go of, r[t] on tag t, and u executed; S are all of them.
Riding(r) == {r[t] : t \in Tag} \ {None}

Placed(P, Q, r, u, O, S) ==
  /\ P \in SUBSET Client /\ Q \in SUBSET Client /\ O \in SUBSET Client
  /\ r \in [Tag -> Client \cup {None}] /\ u \in Client \cup {None}
  /\ S = P \cup Q \cup O \cup ({u} \ {None}) \cup Riding(r)
  /\ P \cap Q = {} /\ P \cap O = {} /\ Q \cap O = {} /\ u \notin P \cup Q \cup O
  /\ \A t \in Tag : r[t] # None => r[t] \notin P \cup Q \cup O \cup {u}
  /\ \A t, v \in Tag : r[t] # None /\ r[t] = r[v] => t = v

\* The moves of a request from one place to another.
LEMMA PlacedTake ==
  ASSUME NEW P, NEW Q, NEW r, NEW O, NEW S, NEW c \in Q, Placed(P, Q, r, None, O, S)
  PROVE  Placed(P, Q \ {c}, r, c, O, S)
BY DEF Placed, None, Client

LEMMA PlacedFetch ==
  ASSUME NEW P, NEW Q, NEW r, NEW u, NEW O, NEW S, Placed(P, Q, r, u, O, S)
  PROVE  Placed({}, Q \cup P, r, u, O, S)
BY DEF Placed

LEMMA PlacedSubmit ==
  ASSUME NEW P, NEW Q, NEW r, NEW u, NEW O, NEW S, Placed(P, Q, r, u, O, S),
         NEW t \in Tag, r[t] = None, u # None
  PROVE  Placed(P, Q, [r EXCEPT ![t] = u], None, O, S)
<1> DEFINE q == [r EXCEPT ![t] = u]
<1>1. /\ q \in [Tag -> Client \cup {None}] /\ q[t] = u
      /\ \A v \in Tag : v # t => q[v] = r[v]
  BY DEF Placed
<1> HIDE DEF q
<1>2. Riding(q) = Riding(r) \cup {u}
  BY <1>1 DEF Riding
<1>3. None \notin Client
  BY DEF None, Client
<1>4. \A v \in Tag : q[v] # None => q[v] \notin P \cup Q \cup O \cup {None}
  BY <1>1 DEF Placed
<1>5. \A v, w \in Tag : q[v] # None /\ q[v] = q[w] => v = w
  BY <1>1 DEF Placed
<1>6. S = P \cup Q \cup O \cup ({None} \ {None}) \cup Riding(q)
  BY <1>2 DEF Placed
<1> QED
  BY <1>1, <1>3, <1>4, <1>5, <1>6 DEF Placed, q

LEMMA PlacedFinish ==
  ASSUME NEW P, NEW Q, NEW r, NEW u, NEW O, NEW S, Placed(P, Q, r, u, O, S), NEW t \in Tag
  PROVE  Placed(P, Q, [r EXCEPT ![t] = None], u, O \cup ({r[t]} \ {None}), S)
<1> DEFINE q == [r EXCEPT ![t] = None]
<1>1. /\ q \in [Tag -> Client \cup {None}] /\ q[t] = None
      /\ \A v \in Tag : v # t => q[v] = r[v]
  BY DEF Placed
<1> HIDE DEF q
<1>2. Riding(r) = Riding(q) \cup ({r[t]} \ {None})
  BY <1>1 DEF Riding
<1>3. \A v \in Tag : q[v] # None => q[v] \notin P \cup Q \cup (O \cup ({r[t]} \ {None})) \cup {u}
  BY <1>1 DEF Placed
<1>4. \A v, w \in Tag : q[v] # None /\ q[v] = q[w] => v = w
  BY <1>1 DEF Placed
<1>5. S = P \cup Q \cup (O \cup ({r[t]} \ {None})) \cup ({u} \ {None}) \cup Riding(q)
  BY <1>2 DEF Placed
<1>6. /\ O \cup ({r[t]} \ {None}) \in SUBSET Client
      /\ P \cap (O \cup ({r[t]} \ {None})) = {} /\ Q \cap (O \cup ({r[t]} \ {None})) = {}
      /\ u \notin P \cup Q \cup (O \cup ({r[t]} \ {None}))
  BY DEF Placed
<1> QED
  BY <1>1, <1>3, <1>4, <1>5, <1>6 DEF Placed, q

LEMMA PlacedEscalate ==
  ASSUME NEW P, NEW Q, NEW r, NEW u, NEW O, NEW S, Placed(P, Q, r, u, O, S)
  PROVE  Placed(P, Q, [t \in Tag |-> None], u, O \cup Riding(r), S)
<1> DEFINE q == [t \in Tag |-> None]
<1>1. q \in [Tag -> Client \cup {None}] /\ \A v \in Tag : q[v] = None
  OBVIOUS
<1> HIDE DEF q
<1>2. Riding(q) = {}
  BY <1>1 DEF Riding
<1>3. /\ Riding(r) \in SUBSET Client
      /\ P \cap Riding(r) = {} /\ Q \cap Riding(r) = {} /\ u \notin Riding(r)
  BY DEF Placed, Riding
<1> QED
  BY <1>1, <1>2, <1>3 DEF Placed, q

LEMMA PlacedReply ==
  ASSUME NEW P, NEW Q, NEW r, NEW u, NEW O, NEW S, Placed(P, Q, r, u, O, S), NEW c \in O
  PROVE  Placed(P, Q, r, u, O \ {c}, S \ {c})
BY DEF Placed, Riding, None, Client

LEMMA PlacedAbort ==
  ASSUME NEW P, NEW Q, NEW r, NEW u, NEW O, NEW S, Placed(P, Q, r, u, O, S), NEW c \in Q
  PROVE  Placed(P, Q \ {c}, r, u, O, S \ {c})
BY DEF Placed, Riding, None, Client

LEMMA PlacedPut ==
  ASSUME NEW P, NEW Q, NEW r, NEW u, NEW O, NEW S, Placed(P, Q, r, u, O, S),
         NEW c \in Client, c \notin S
  PROVE  Placed(P \cup {c}, Q, r, u, O, S \cup {c})
BY DEF Placed, Riding, None, Client

LEMMA PlacedDirect ==
  ASSUME NEW P, NEW Q, NEW r, NEW u, NEW O, NEW S, Placed(P, Q, r, u, O, S), u # None
  PROVE  Placed(P, Q, r, None, O, S \ {u})
BY DEF Placed, Riding, None, Client

LEMMA PlacedFlush ==
  ASSUME NEW P, NEW Q, NEW r, NEW u, NEW O, NEW S, Placed(P, Q, r, u, O, S), u # None
  PROVE  Placed(P, {}, r, None, O, S \ (Q \cup {u}))
<1>1. Riding(r) \cap (Q \cup {u}) = {}
  BY DEF Placed, Riding
<1>2. S \ (Q \cup {u}) = P \cup {} \cup O \cup ({None} \ {None}) \cup Riding(r)
  BY <1>1 DEF Placed
<1>3. \A t \in Tag : r[t] # None => r[t] \notin P \cup {} \cup O \cup {None}
  BY DEF Placed
<1>4. None \notin Client
  BY DEF None, Client
<1> QED
  BY <1>2, <1>3, <1>4 DEF Placed

LEMMA PlacedLeftovers ==
  ASSUME NEW P, NEW Q, NEW r, NEW u, NEW O, NEW S, Placed(P, Q, r, u, O, S)
  PROVE  Placed({}, {}, r, u, O, S \ (P \cup Q))
<1>1. Riding(r) \cap (P \cup Q) = {}
  BY DEF Placed, Riding
<1>2. S \ (P \cup Q) = {} \cup {} \cup O \cup ({u} \ {None}) \cup Riding(r)
  BY <1>1 DEF Placed
<1>3. \A t \in Tag : r[t] # None => r[t] \notin {} \cup {} \cup O \cup {u}
  BY DEF Placed
<1> QED
  BY <1>2, <1>3 DEF Placed

-----------------------------------------------------------------------------
\* A sequence names each of its elements once, and still does after every
\* operation on port and queue.
OneEach(s) == \A i, j \in DOMAIN s : s[i] = s[j] => i = j

LEMMA OneEachAppend ==
  ASSUME NEW s \in Seq(Client), NEW c \in Client, OneEach(s), c \notin InSeq(s)
  PROVE  OneEach(Append(s, c)) /\ InSeq(Append(s, c)) = InSeq(s) \cup {c}
<1>1. InSeq(Append(s, c)) = InSeq(s) \cup {c}
  BY InSeqAppend
<1>2. /\ DOMAIN Append(s, c) = 1..Len(s) + 1 /\ DOMAIN s = 1..Len(s)
      /\ Append(s, c)[Len(s) + 1] = c
      /\ \A i \in 1..Len(s) : Append(s, c)[i] = s[i]
  BY AppendProperties
<1>3. \A i \in 1..Len(s) : s[i] # c
  BY <1>2 DEF InSeq
<1>4. \A i \in 1..Len(s) + 1 : i \in 1..Len(s) \/ i = Len(s) + 1
  OBVIOUS
<1>5. OneEach(Append(s, c))
  BY <1>2, <1>3, <1>4 DEF OneEach
<1> QED
  BY <1>1, <1>5

LEMMA OneEachConcat ==
  ASSUME NEW S, NEW s \in Seq(S), NEW p \in Seq(S), OneEach(s), OneEach(p),
         InSeq(s) \cap InSeq(p) = {}
  PROVE  OneEach(s \o p) /\ InSeq(s \o p) = InSeq(s) \cup InSeq(p)
<1>1. /\ DOMAIN (s \o p) = 1..Len(s) + Len(p) /\ DOMAIN s = 1..Len(s) /\ DOMAIN p = 1..Len(p)
      /\ \A i \in 1..Len(s) + Len(p) : (s \o p)[i] = IF i <= Len(s) THEN s[i] ELSE p[i - Len(s)]
  BY ConcatProperties
<1>2. Len(s) \in Nat /\ Len(p) \in Nat
  OBVIOUS
<1>3. \A i \in 1..Len(s), j \in 1..Len(p) : s[i] # p[j]
  BY <1>1 DEF InSeq
<1>4. \A i \in 1..Len(s) + Len(p) : i > Len(s) => i - Len(s) \in 1..Len(p)
  BY <1>2
<1>5. \A i \in 1..Len(s) + Len(p) : i <= Len(s) => i \in 1..Len(s)
  BY <1>2
<1>6. ASSUME NEW i \in 1..Len(s) + Len(p), NEW j \in 1..Len(s) + Len(p), (s \o p)[i] = (s \o p)[j]
      PROVE  i = j
  <2>1. CASE i <= Len(s) /\ j <= Len(s)
    BY <1>1, <1>5, <1>6, <2>1 DEF OneEach
  <2>2. CASE i > Len(s) /\ j > Len(s)
    <3>1. p[i - Len(s)] = p[j - Len(s)]
      BY <1>1, <1>2, <1>6, <2>2
    <3>2. i - Len(s) = j - Len(s)
      BY <1>1, <1>4, <2>2, <3>1 DEF OneEach
    <3> QED BY <1>2, <3>2
  <2>3. CASE i <= Len(s) /\ j > Len(s)
    BY <1>1, <1>2, <1>3, <1>4, <1>5, <1>6, <2>3
  <2>4. CASE i > Len(s) /\ j <= Len(s)
    BY <1>1, <1>2, <1>3, <1>4, <1>5, <1>6, <2>4
  <2> QED BY <1>2, <2>1, <2>2, <2>3, <2>4
<1>7. InSeq(s) \subseteq InSeq(s \o p)
  BY <1>1, <1>2 DEF InSeq
<1>8. InSeq(p) \subseteq InSeq(s \o p)
  <2>1. \A j \in 1..Len(p) : j + Len(s) \in 1..Len(s) + Len(p) /\ (s \o p)[j + Len(s)] = p[j]
    BY <1>1, <1>2
  <2> QED BY <1>1, <2>1 DEF InSeq
<1>9. InSeq(s \o p) \subseteq InSeq(s) \cup InSeq(p)
  BY <1>1, <1>4, <1>5 DEF InSeq
<1> QED
  BY <1>1, <1>6, <1>7, <1>8, <1>9 DEF OneEach

LEMMA OneEachTail ==
  ASSUME NEW s \in Seq(Client), s # <<>>, OneEach(s)
  PROVE  /\ OneEach(Tail(s)) /\ InSeq(Tail(s)) = InSeq(s) \ {Head(s)} /\ Head(s) \in InSeq(s)
<1>1. /\ Len(s) \in Nat /\ Len(s) > 0 /\ DOMAIN s = 1..Len(s) /\ Head(s) = s[1]
      /\ DOMAIN Tail(s) = 1..Len(s) - 1
      /\ \A i \in 1..Len(s) - 1 : Tail(s)[i] = s[i + 1]
  BY HeadTailProperties, EmptySeq
<1>2. \A i \in 1..Len(s) - 1 : i + 1 \in 1..Len(s)
  BY <1>1
<1>3. OneEach(Tail(s))
  BY <1>1, <1>2 DEF OneEach
<1>4. InSeq(Tail(s)) \subseteq InSeq(s) \ {s[1]}
  <2>1. \A i \in 1..Len(s) - 1 : s[i + 1] # s[1]
    <3>1. \A i \in 1..Len(s) - 1 : i + 1 # 1 /\ 1 \in 1..Len(s)
      BY <1>1
    <3> QED BY <1>1, <1>2, <3>1 DEF OneEach
  <2> QED BY <1>1, <1>2, <2>1 DEF InSeq
<1>5. InSeq(s) \ {s[1]} \subseteq InSeq(Tail(s))
  <2>1. \A i \in 1..Len(s) : i = 1 \/ (i - 1 \in 1..Len(s) - 1 /\ (i - 1) + 1 = i)
    BY <1>1
  <2>2. \A i \in 1..Len(s) : i = 1 \/ (i - 1 \in 1..Len(s) - 1 /\ Tail(s)[i - 1] = s[i])
    BY <1>1, <2>1
  <2>3. \A j \in 1..Len(s) - 1 : Tail(s)[j] \in InSeq(Tail(s))
    BY <1>1 DEF InSeq
  <2>4. \A i \in 1..Len(s) : i = 1 \/ s[i] \in InSeq(Tail(s))
    BY <2>2, <2>3
  <2> QED BY <1>1, <2>4 DEF InSeq
<1>6. Head(s) \in InSeq(s)
  BY <1>1 DEF InSeq
<1> QED
  BY <1>1, <1>3, <1>4, <1>5, <1>6

LEMMA OneEachWithout ==
  ASSUME NEW S, NEW s \in Seq(S), NEW c \in InSeq(s), OneEach(s)
  PROVE  OneEach(Without(s, c)) /\ InSeq(Without(s, c)) = InSeq(s) \ {c}
<1> DEFINE i == CHOOSE i \in DOMAIN s : s[i] = c
           a == SubSeq(s, 1, i - 1)
           b == SubSeq(s, i + 1, Len(s))
<1>1. i \in 1..Len(s) /\ s[i] = c /\ Len(s) \in Nat /\ DOMAIN s = 1..Len(s)
  BY DEF InSeq
<1> HIDE DEF i
<1>2. /\ a \in Seq(S) /\ Len(a) = i - 1
      /\ \A j \in 1..i - 1 : a[j] = s[j]
  <2>1. \A j \in 1..i - 1 : s[j] \in S
    BY <1>1
  <2> QED BY <1>1, <2>1, SubSeqProperties
<1>3. /\ b \in Seq(S) /\ Len(b) = Len(s) - i
      /\ \A j \in 1..Len(s) - i : b[j] = s[i + j]
  <2>1. \A j \in i + 1..Len(s) : s[j] \in S
    BY <1>1
  <2>2. i + 1 \in Nat /\ i \in Nat /\ i + 1 <= Len(s) + 1 /\ Len(s) - (i + 1) + 1 = Len(s) - i
    BY <1>1
  <2>3. b \in Seq(S)
    <3>1. \A j \in i + 1..Len(s) : s[j] \in S
      BY <1>1, <2>1
    <3>2. i + 1 \in Int /\ Len(s) \in Int
      BY <1>1
    <3> QED BY <3>1, <3>2, SubSeqProperties
  <2>4. Len(b) = Len(s) - i
    <3>1. Len(b) = IF i + 1 <= Len(s) THEN Len(s) - (i + 1) + 1 ELSE 0
      <4>1. i + 1 \in Int /\ Len(s) \in Int
        BY <1>1
      <4> QED BY <2>1, <4>1, SubSeqProperties
    <3>2. \A n, k \in Nat : n <= k => (IF n + 1 <= k THEN k - (n + 1) + 1 ELSE 0) = k - n
      OBVIOUS
    <3>3. i \in Nat /\ Len(s) \in Nat /\ i <= Len(s)
      BY <1>1
    <3> HIDE DEF b
    <3> QED BY <3>1, <3>2, <3>3, Zenon
  <2>5. \A j \in 1..Len(s) - i : b[j] = s[i + j]
    <3>1. \A j \in 1..Len(s) - i : i + 1 + j - 1 = i + j
      BY <1>1
    <3> QED BY <1>1, <2>2, <3>1
  <2> QED BY <2>3, <2>4, <2>5
<1>4. Without(s, c) = a \o b
  BY DEF Without, i
<1> HIDE DEF a, b
<1>5. DOMAIN a = 1..i - 1 /\ DOMAIN b = 1..Len(s) - i
  BY <1>2, <1>3
<1>6. OneEach(a)
  <2>1. \A j \in 1..i - 1 : j \in 1..Len(s)
    BY <1>1
  <2> QED BY <1>1, <1>2, <1>5, <2>1 DEF OneEach
<1>7. OneEach(b)
  <2>1. \A j \in 1..Len(s) - i : i + j \in 1..Len(s)
    BY <1>1
  <2>2. \A j, k \in 1..Len(s) - i : b[j] = b[k] => i + j = i + k
    BY <1>1, <1>3, <2>1 DEF OneEach
  <2> QED BY <1>1, <1>5, <2>2 DEF OneEach
<1>8. InSeq(a) \cap InSeq(b) = {}
  <2>1. \A j \in 1..i - 1, k \in 1..Len(s) - i : j \in 1..Len(s) /\ i + k \in 1..Len(s) /\ j # i + k
    BY <1>1
  <2>2. \A j \in 1..i - 1, k \in 1..Len(s) - i : a[j] # b[k]
    <3>1. \A j \in 1..i - 1, k \in 1..Len(s) - i : s[j] # s[i + k]
      BY <1>1, <2>1 DEF OneEach
    <3> QED BY <1>2, <1>3, <3>1
  <2> QED BY <1>5, <2>2 DEF InSeq
<1>9. InSeq(a) \cup InSeq(b) = InSeq(s) \ {c}
  <2>1. InSeq(a) \cup InSeq(b) \subseteq InSeq(s) \ {c}
    <3>1. \A j \in 1..i - 1 : j \in 1..Len(s) /\ j # i
      BY <1>1
    <3>2. \A j \in 1..Len(s) - i : i + j \in 1..Len(s) /\ i + j # i
      BY <1>1
    <3>3. \A j \in 1..i - 1 : a[j] \in InSeq(s) \ {c}
      <4>1. \A j \in 1..i - 1 : s[j] # s[i] /\ s[j] \in InSeq(s)
        BY <1>1, <3>1 DEF OneEach, InSeq
      <4> QED BY <1>1, <1>2, <4>1
    <3>4. \A j \in 1..Len(s) - i : b[j] \in InSeq(s) \ {c}
      <4>1. \A j \in 1..Len(s) - i : s[i + j] # s[i] /\ s[i + j] \in InSeq(s)
        BY <1>1, <3>2 DEF OneEach, InSeq
      <4> QED BY <1>1, <1>3, <4>1
    <3> QED BY <1>5, <3>3, <3>4 DEF InSeq
  <2>2. ASSUME NEW j \in 1..Len(s), s[j] # c
        PROVE  s[j] \in InSeq(a) \cup InSeq(b)
    <3>1. CASE j < i
      BY <1>1, <1>2, <1>5, <3>1 DEF InSeq
    <3>2. CASE j > i
      <4>1. j - i \in 1..Len(s) - i /\ b[j - i] = s[j]
        <5>1. j - i \in 1..Len(s) - i /\ i + (j - i) = j
          BY <1>1, <3>2
        <5> QED BY <1>3, <5>1
      <4> QED BY <1>5, <4>1 DEF InSeq
    <3>3. CASE j = i
      BY <1>1, <2>2, <3>3
    <3> QED BY <1>1, <3>1, <3>2, <3>3
  <2> QED BY <1>1, <2>1, <2>2 DEF InSeq
<1> QED
  BY <1>2, <1>3, <1>4, <1>6, <1>7, <1>8, <1>9, OneEachConcat

-----------------------------------------------------------------------------
\* A second invariant: every request that was sent is in one place, a tag that
\* does not run has none and no data on the wire, and the task has a request in
\* hand where it executes one.
Req  == [t \in Tag |-> tag[t].req]
Sent == {c \in Client : rq[c] = "sent"}

Sole == /\ OneEach(port) /\ OneEach(queue)
        /\ Placed(InSeq(port), InSeq(queue), Req, cur, owed, Sent)

Bare(g) == g.req = None /\ g.data = "off"

Idlers ==
  /\ \A t \in Tag : tag[t].st # "running" => Bare(tag[t])
  /\ pc \in {"scmd", "sstat", "sdata"} => tag[at].req = None
  /\ pc = "reset" => \A t \in Tag : tag[t].st # "running"

\* The command that changes the medium has every tag to itself.
Alone == \A t \in Tag : (pc \in {"scmd", "sstat", "sdata"} /\ t = at) \/ tag[t].st = "free"

Executing ==
  /\ cur # None => pc = "bind" \/ ctx # "main"
  /\ pc \in {"free", "off"} => cur = None
  /\ pc = "tmcmd" => tm.pipe # 0
  /\ pc \in {"direct", "bulk", "scmd", "sstat", "sdata", "claimed"} => ctx = "claim"
  /\ ctx = "claim" \/ pc = "flush" => cur # None
  /\ ctx = "claim" /\ kind[cur] = "stop" =>
       pc \in {"direct", "bulk", "scmd", "sstat", "sdata"} /\ Alone

HoldInv == Sole /\ Idlers /\ Executing

\* What becomes of a tag in one step: it keeps its request, or lets it go, and
\* an escalation takes those of all the tags.
Goes(t) == /\ \A u \in Tag : u # t => tag'[u] = tag[u]
           /\ tag'[t].st = "running" /\ tag'[t].req = tag[t].req
           /\ owed' = owed

Ends(t) == /\ \A u \in Tag : u # t => tag'[u] = tag[u]
           /\ tag'[t].st # "running" /\ Bare(tag'[t])
           /\ owed' = owed \cup ({tag[t].req} \ {None})

Killed == /\ \A t \in Tag : tag'[t].st # "running" /\ Bare(tag'[t])
          /\ owed' = owed \cup Riding(Req)

Kept == \A t \in Tag : /\ tag'[t].st = tag[t].st /\ tag'[t].req = tag[t].req
                       /\ Bare(tag[t]) /\ tag[t].st # "running" => Bare(tag'[t])

LEMMA Bares0 == FreshTag.st # "running" /\ Bare(FreshTag)
BY DEF FreshTag, Bare

LEMMA Bares ==
  ASSUME NEW g \in TagType
  PROVE  /\ FreshTag.st # "running" /\ Bare(FreshTag)
         /\ Finalized(g).st # "running" /\ Bare(Finalized(g))
         /\ Armed(g).st = g.st /\ Armed(g).req = g.req
         /\ SignalAbort(g).st = g.st /\ SignalAbort(g).req = g.req
         /\ AbortArmed(g).st = g.st /\ AbortArmed(g).req = g.req
BY DEF TagType, FreshTag, Bare, Finalized, Armed, SignalAbort, AbortArmed, Aborted, StatusSeen

LEMMA ReqIs ==
  ASSUME TypeOK
  PROVE  /\ Req \in [Tag -> Client \cup {None}] /\ \A t \in Tag : Req[t] = tag[t].req
         /\ Riding(Req) = {tag[t].req : t \in Tag} \ {None}
BY RequestType DEF Req, Riding

LEMMA ReqKept == ASSUME \A t \in Tag : tag'[t].req = tag[t].req PROVE Req' = Req
BY DEF Req

LEMMA ReqGoes == ASSUME NEW t \in Tag, Goes(t) PROVE Req' = Req
<1>1. \A u \in Tag : tag'[u].req = tag[u].req
  BY DEF Goes
<1> QED
  BY <1>1, ReqKept

LEMMA ReqEnds == ASSUME NEW t \in Tag, Ends(t) PROVE Req' = [Req EXCEPT ![t] = None]
BY DEF Req, Ends, Bare

LEMMA ReqKilled == ASSUME Killed PROVE Req' = [t \in Tag |-> None]
BY DEF Req, Killed, Bare

LEMMA SentAnswered == ASSUME NEW S, Answer(S) PROVE Sent' = Sent \ S
BY DEF Sent, Answer

LEMMA SentKept == ASSUME rq' = rq PROVE Sent' = Sent
BY DEF Sent

LEMMA EscalateReqs ==
  ASSUME TypeOK, Idlers, Escalate(tag)
  PROVE  Killed
<1>1. ASSUME NEW t \in Tag, tag[t].st = "running"
      PROVE  tag'[t].st # "running" /\ Bare(tag'[t])
  <2> DEFINE g == [AbortArmed(tag[t]) EXCEPT !.sent = FALSE]
  <2>1. AbortArmed(tag[t]) \in TagType
    BY RequestType, TagOperators
  <2>2. g \in TagType
    BY <2>1 DEF TagType
  <2>3. tag'[t] = Finalized(g)
    BY <1>1 DEF Escalate
  <2> HIDE DEF g
  <2> QED
    BY <2>2, <2>3, Bares
<1>2. ASSUME NEW t \in Tag, tag[t].st # "running"
      PROVE  tag'[t].st # "running" /\ Bare(tag'[t])
  BY <1>2 DEF Escalate, Idlers
<1>3. owed' = owed \cup Riding(Req)
  BY ReqIs DEF Escalate, Owe
<1> QED
  BY <1>1, <1>2, <1>3 DEF Killed

LEMMA PipeDoneReqs ==
  ASSUME TypeOK, NEW t \in Tag, NEW g \in TagType, PipeDone(t, g),
         g.st = "running", g.req = tag[t].req
  PROVE  Goes(t) \/ Ends(t)
<1>1. CASE tag' = [tag EXCEPT ![t] = g] /\ owed' = owed
  BY <1>1, TagsAre DEF Goes
<1>2. CASE tag' = [tag EXCEPT ![t] = Armed(g)] /\ owed' = owed
  BY <1>2, TagsAre, Bares DEF Goes
<1>3. CASE tag' = [tag EXCEPT ![t] = Finalized(g)] /\ Owe({g.req})
  BY <1>3, TagsAre, Bares DEF Ends, Owe
<1> QED
  BY <1>1, <1>2, <1>3 DEF PipeDone

LEMMA CollectReqs ==
  ASSUME TypeOK, NEW t \in Tag, CollectStatus(t) \/ CollectData(t)
  PROVE  Goes(t) \/ Ends(t)
<1> DEFINE a == [tag[t] EXCEPT !.sArm = FALSE]
           b == [tag[t] EXCEPT !.dArm = FALSE]
<1>1. tag[t] \in TagType /\ tag[t].st = "running"
  BY RequestType DEF CollectStatus, CollectData
<1>2. /\ a \in TagType /\ a.st = tag[t].st /\ a.req = tag[t].req
      /\ b \in TagType /\ b.st = tag[t].st /\ b.req = tag[t].req
  BY <1>1 DEF TagType
<1>3. /\ CollectStatus(t) => PipeDone(t, IF a.status # "good" THEN SignalAbort(a) ELSE a)
      /\ CollectData(t) => PipeDone(t, IF b.data = "err" THEN SignalAbort(b) ELSE b)
  BY DEF CollectStatus, CollectData
<1> HIDE DEF a, b
<1>4. /\ SignalAbort(a) \in TagType /\ SignalAbort(a).st = a.st /\ SignalAbort(a).req = a.req
      /\ SignalAbort(b) \in TagType /\ SignalAbort(b).st = b.st /\ SignalAbort(b).req = b.req
  BY <1>2, TagOperators, Bares
<1>5. PICK g \in TagType : PipeDone(t, g) /\ g.st = "running" /\ g.req = tag[t].req
  BY <1>1, <1>2, <1>3, <1>4
<1> QED
  BY <1>5, PipeDoneReqs

LEMMA SendReqs ==
  ASSUME TypeOK, InHand, Idlers, SendCommand \/ DirectCommand \/ DirectStatus \/ DirectData
  PROVE  /\ at \in Tag /\ (Goes(at) \/ Ends(at))
         /\ ~SendCommand => tag[at].req = None /\ owed' = owed /\ Req' = Req
<1>1. at \in Tag /\ tag[at].st = "running" /\ tag[at] \in TagType /\ tag \in [Tag -> TagType]
  BY RequestType, TagsAre DEF SendCommand, DirectCommand, DirectStatus, DirectData, InHand
<1>2. ASSUME NEW g \in TagType, tag' = [tag EXCEPT ![at] = Finalized(g)]
      PROVE  /\ \A u \in Tag : u # at => tag'[u] = tag[u]
             /\ tag'[at].st # "running" /\ Bare(tag'[at])
  BY <1>1, <1>2, Bares
<1>3. CASE SendCommand
  <2>1. CASE tag' = [tag EXCEPT ![at].sent = TRUE] /\ owed' = owed
    <3>1. tag'[at].st = "running" /\ tag'[at].req = tag[at].req
      BY <1>1, <2>1 DEF TagType
    <3> QED BY <1>1, <1>3, <2>1, <3>1 DEF Goes
  <2>2. CASE tag' = [tag EXCEPT ![at] = Finalized(AbortArmed(@))] /\ Owe({tag[at].req})
    <3>1. AbortArmed(tag[at]) \in TagType /\ tag' = [tag EXCEPT ![at] = Finalized(AbortArmed(tag[at]))]
      BY <1>1, <2>2, TagOperators
    <3> QED BY <1>1, <1>2, <1>3, <2>2, <3>1 DEF Ends, Owe
  <2> QED BY <1>3, <2>1, <2>2 DEF SendCommand
<1>4. CASE DirectCommand \/ DirectStatus \/ DirectData
  <2>1. tag[at].req = None /\ owed' = owed
    BY <1>4 DEF DirectCommand, DirectStatus, DirectData, Idlers
  <2>2. ASSUME tag' = [tag EXCEPT ![at].sent = TRUE,
                                  ![at].data = IF kind[cur] = "stop" THEN "off" ELSE "wire"]
        PROVE  Goes(at)
    <3>1. tag'[at].st = "running" /\ tag'[at].req = tag[at].req
      BY <1>1, <2>2 DEF TagType
    <3> QED BY <1>1, <2>1, <2>2, <3>1 DEF Goes
  <2>3. ASSUME NEW g \in TagType, tag' = [tag EXCEPT ![at] = Finalized(g)] PROVE Ends(at)
    BY <1>2, <2>1, <2>3 DEF Ends
  <2>4. Goes(at) \/ Ends(at)
    <3>1. CASE DirectCommand
      <4>1. [tag[at] EXCEPT !.status = Aborted(@)] \in TagType
        BY <1>1, TagEnds
      <4> QED BY <2>2, <2>3, <3>1, <4>1 DEF DirectCommand
    <3>2. CASE DirectStatus
      <4>1. [tag[at] EXCEPT !.data = Aborted(@)] \in TagType
        BY <1>1, TagEnds
      <4>2. UNCHANGED tag => Goes(at)
        BY <1>1, <2>1 DEF Goes
      <4> QED BY <2>3, <3>2, <4>1, <4>2 DEF DirectStatus, DirectEnd
    <3>3. CASE DirectData
      BY <1>1, <2>3, <3>3 DEF DirectData, DirectEnd
    <3> QED BY <1>4, <3>1, <3>2, <3>3
  <2>5. \A u \in Tag : tag'[u].req = tag[u].req
    BY <2>1, <2>4 DEF Goes, Ends, Bare
  <2> QED BY <1>1, <2>1, <2>4, <2>5, ReqKept
<1>5. SendCommand => ~DirectCommand /\ ~DirectStatus /\ ~DirectData
  BY DEF SendCommand, DirectCommand, DirectStatus, DirectData
<1> QED
  BY <1>1, <1>3, <1>4, <1>5

LEMMA TMFReqs ==
  ASSUME TypeOK, TaskManagement, Idlers, ReapTMF \/ IssueTMF \/ SendTMF
  PROVE  \/ Killed /\ pc' = "reset" /\ tm' = NoTM
         \/ /\ owed' = owed /\ Req' = Req /\ \A t \in Tag : Bare(tag[t]) => Bare(tag'[t])
            /\ \A t \in Tag : tag'[t] = tag[t] \/ (tag'[t] = FreshTag)
<1>1. CASE Escalate(tag)
  BY <1>1, EscalateReqs, EscalateFacts
<1>2. CASE ~Escalate(tag)
  <2>1. owed' = owed
    BY <1>2 DEF ReapTMF, IssueTMF, SendTMF
  <2>2. \A t \in Tag : tag'[t] = tag[t] \/ (tag'[t] = FreshTag /\ tag[t].st = "quarantine")
    <3>1. tm.pipe # 0 => tag[tm.target].st = "quarantine"
      BY DEF TaskManagement
    <3>2. ReapTMF => tm.pipe # 0
      BY DEF ReapTMF
    <3> QED BY <1>2, <3>1, <3>2, TMFFacts
  <2>3. \A t \in Tag : /\ tag'[t].req = tag[t].req /\ (Bare(tag[t]) => Bare(tag'[t]))
    BY <2>2, Bares0 DEF Idlers, Bare
  <2> QED BY <2>1, <2>2, <2>3, ReqKept
<1> QED
  BY <1>1, <1>2

LEMMA ResetReqs ==
  ASSUME TypeOK, Idlers, ResetDevice
  PROVE  /\ Req' = Req /\ \A t \in Tag : tag'[t].st # "running" /\ Bare(tag'[t])
         /\ \A t \in Tag : tag[t].st = "free" => tag'[t].st = "free"
<1>1. \A t \in Tag : tag[t].st # "running" /\ Bare(tag[t])
  BY DEF ResetDevice, Idlers
<1>2. \A t \in Tag : tag'[t] \in {tag[t], FreshTag}
  BY ResetFacts
<1>3. \A t \in Tag : tag'[t].req = tag[t].req /\ tag'[t].st # "running" /\ Bare(tag'[t])
  BY <1>1, <1>2, Bares0 DEF Bare
<1> QED
  BY <1>1, <1>2, <1>3, ReqKept, Shapes0

LEMMA KeptReqs ==
  ASSUME TypeOK, OffUnlessRunning, Idlers,
         \/ ProcessAborts \/ TMReply \/ \E t \in Tag : StatusReply(t) \/ DataReply(t)
         \/ \E c \in Client : BeginIO(c) \/ PutRequest(c) \/ AbortIO(c)
  PROVE  Kept
<1>1. tag \in [Tag -> TagType]
  BY TagsAre
<1>2. CASE tag' = tag
  BY <1>2 DEF Kept
<1>3. CASE ProcessAborts
  <2>1. ASSUME NEW t \in Tag
        PROVE  tag'[t] = tag[t] \/ (tag[t].st = "running" /\ tag'[t] = SignalAbort(tag[t]))
    BY <1>1, <1>3 DEF ProcessAborts
  <2> QED BY <1>1, <2>1, Bares DEF Kept
<1>4. ASSUME NEW t \in Tag, StatusReply(t) \/ DataReply(t) PROVE Kept
  <2>1. tag[t].st = "running"
    <3>1. tag[t].status = "wire" \/ tag[t].data = "wire"
      BY <1>4 DEF StatusReply, DataReply
    <3> QED BY <3>1 DEF OffUnlessRunning, Idlers, Bare
  <2>2. PICK r \in {"good", "bad", "err"}, d \in {"ok", "err"} :
          tag' \in {[tag EXCEPT ![t].status = r], [tag EXCEPT ![t].data = d]}
    BY <1>4 DEF StatusReply, DataReply
  <2>3. /\ tag'[t].st = "running" /\ tag'[t].req = tag[t].req
        /\ \A u \in Tag : u # t => tag'[u] = tag[u]
    BY <1>1, <2>1, <2>2 DEF TagType
  <2> QED BY <2>1, <2>3 DEF Kept
<1>5. ASSUME NEW c \in Client, AbortIO(c), tag' # tag PROVE Kept
  <2>1. PICK t \in Tag : tag' = [tag EXCEPT ![t].abort = TRUE]
    BY <1>5 DEF AbortIO
  <2>2. /\ tag'[t].st = tag[t].st /\ tag'[t].req = tag[t].req /\ tag'[t].data = tag[t].data
        /\ \A u \in Tag : u # t => tag'[u] = tag[u]
    BY <1>1, <2>1 DEF TagType
  <2> QED BY <2>2 DEF Kept, Bare
<1>6. TMReply \/ (\E c \in Client : BeginIO(c) \/ PutRequest(c)) => tag' = tag
  BY DEF TMReply, BeginIO, PutRequest
<1> QED
  BY <1>2, <1>3, <1>4, <1>5, <1>6

LEMMA KeptReq == ASSUME Kept PROVE Req' = Req
<1>1. \A t \in Tag : tag'[t].req = tag[t].req
  BY DEF Kept
<1> QED BY <1>1, ReqKept

-----------------------------------------------------------------------------
\* Every step moves a request from one place to another, or answers it.
LEMMA SoleMoves ==
  ASSUME TypeOK, Sole, UNCHANGED <<port, queue>>,
         Placed(InSeq(port), InSeq(queue), Req', cur', owed', Sent')
  PROVE  Sole'
BY DEF Sole, InSeq, OneEach

LEMMA SolePlaced ==
  ASSUME NEW P, NEW Q, NEW r, NEW u, NEW O, NEW S, Placed(P, Q, r, u, O, S),
         OneEach(port'), OneEach(queue'), InSeq(port') = P, InSeq(queue') = Q,
         Req' = r, cur' = u, owed' = O, Sent' = S
  PROVE  Sole'
BY DEF Sole

LEMMA SoleAnswered ==
  ASSUME TypeOK, Sole, DirectDone, cur # None, UNCHANGED <<port, queue, owed>>, Req' = Req
  PROVE  Sole'
<1>1. Sent' = Sent \ {cur} /\ cur' = None
  BY SentAnswered DEF DirectDone
<1>2. Placed(InSeq(port), InSeq(queue), Req, cur, owed, Sent)
  BY DEF Sole
<1>3. Placed(InSeq(port), InSeq(queue), Req, None, owed, Sent \ {cur})
  BY <1>2, PlacedDirect
<1> QED
  BY <1>1, <1>3, SoleMoves

LEMMA SoleStep == IInv /\ HoldInv /\ [Next]_vars => Sole'
<1> SUFFICES ASSUME IInv, HoldInv, [Next]_vars PROVE Sole'
  OBVIOUS
<1>0. /\ TypeOK /\ InHand /\ TaskManagement /\ TagsGone /\ OffUnlessRunning /\ Turning
      /\ Sole /\ Idlers /\ Executing
  BY DEF IInv, HoldInv
<1>a. /\ Placed(InSeq(port), InSeq(queue), Req, cur, owed, Sent)
      /\ OneEach(port) /\ OneEach(queue) /\ port \in Seq(Client) /\ queue \in Seq(Client)
  BY <1>0 DEF Sole, TypeOK
<1>b. ASSUME UNCHANGED <<port, queue, cur, owed, rq>>, Req' = Req PROVE Sole'
  BY <1>0, <1>a, <1>b, SentKept, SoleMoves
<1>c. ASSUME UNCHANGED tag PROVE Req' = Req
  BY <1>c, ReqKept
<1>d. ASSUME NEW t \in Tag, Goes(t) \/ Ends(t), UNCHANGED <<port, queue, cur, rq>> PROVE Sole'
  <2>1. CASE Goes(t)
    BY <1>b, <1>d, <2>1, ReqGoes DEF Goes
  <2>2. CASE Ends(t)
    <3>1. Req' = [Req EXCEPT ![t] = None] /\ owed' = owed \cup ({Req[t]} \ {None})
      BY <1>0, <2>2, ReqEnds, ReqIs DEF Ends
    <3> QED BY <1>0, <1>a, <1>d, <3>1, PlacedFinish, SentKept, SoleMoves
  <2> QED BY <1>d, <2>1, <2>2
<1>e. ASSUME Killed, UNCHANGED <<port, queue, cur, rq>> PROVE Sole'
  <2>1. Req' = [t \in Tag |-> None] /\ owed' = owed \cup Riding(Req)
    BY <1>e, ReqKilled DEF Killed
  <2> QED BY <1>0, <1>a, <1>e, <2>1, PlacedEscalate, SentKept, SoleMoves
<1>f. OneEach(<<>>) /\ InSeq(<<>>) = {}
  BY DEF OneEach, InSeq
<1>1. CASE ProcessAborts
  <2>1. Req' = Req
    BY <1>0, <1>1, KeptReqs, KeptReq
  <2> QED BY <1>1, <1>b, <2>1 DEF ProcessAborts, cliVars, curVars
<1>2. CASE ReapDone
  BY <1>2, <1>b, <1>c DEF ReapDone, cliVars, curVars
<1>3. CASE ReapTMF \/ IssueTMF \/ SendTMF
  <2>1. UNCHANGED <<port, queue, cur, rq>>
    BY <1>3 DEF ReapTMF, IssueTMF, SendTMF, cliVars, curVars
  <2> QED BY <1>0, <1>3, <1>b, <1>e, <2>1, TMFReqs
<1>6. CASE ResetDevice
  BY <1>0, <1>6, <1>b, ResetReqs DEF ResetDevice, cliVars, curVars
<1>7. CASE SendCommand
  BY <1>0, <1>7, <1>d, SendReqs DEF SendCommand, cliVars
<1>8. CASE FetchRequests
  <2>1. InSeq(queue) \cap InSeq(port) = {}
    BY <1>a DEF Placed
  <2>2. OneEach(queue \o port) /\ InSeq(queue \o port) = InSeq(queue) \cup InSeq(port)
    BY <1>a, <2>1, OneEachConcat
  <2>4. UNCHANGED <<cur, owed, rq, tag>> /\ queue' = queue \o port /\ port' = <<>>
    BY <1>8 DEF FetchRequests, cliVars, curVars
  <2>5. Placed({}, InSeq(queue) \cup InSeq(port), Req, cur, owed, Sent)
    BY <1>a, PlacedFetch
  <2>6. Req' = Req /\ Sent' = Sent
    BY <1>c, <2>4, SentKept
  <2> QED BY <1>f, <2>2, <2>4, <2>5, <2>6, SolePlaced
<1>9. CASE DispatchDone
  BY <1>9, <1>b, <1>c DEF DispatchDone, cliVars, curVars
<1>10. CASE TakeRequest
  <2>1. /\ UNCHANGED <<port, owed, rq, tag>> /\ pc = "dispatch" /\ queue # <<>>
        /\ cur' = Head(queue) /\ queue' = Tail(queue)
    BY <1>10 DEF TakeRequest, cliVars
  <2>2. cur = None
    BY <1>0, <2>1 DEF Turning, Executing
  <2>3. /\ OneEach(Tail(queue)) /\ InSeq(Tail(queue)) = InSeq(queue) \ {Head(queue)}
        /\ Head(queue) \in InSeq(queue)
    BY <1>a, <2>1, OneEachTail
  <2>4. Placed(InSeq(port), InSeq(queue) \ {Head(queue)}, Req, Head(queue), owed, Sent)
    BY <1>a, <2>2, <2>3, PlacedTake
  <2>5. Req' = Req /\ Sent' = Sent
    BY <1>c, <2>1, SentKept
  <2> QED BY <1>a, <2>1, <2>3, <2>4, <2>5, SolePlaced
<1>11. CASE SubmitTag
  <2>1. /\ UNCHANGED <<port, queue, owed, rq>> /\ cur' = None
        /\ tag' = [tag EXCEPT ![at] = [Armed(FreshTag) EXCEPT !.st = "running", !.req = cur]]
    BY <1>11 DEF SubmitTag, cliVars
  <2>2. at \in Tag /\ tag[at].st = "free" /\ cur # None
    BY <1>0, <1>11, SubmitFacts DEF SubmitTag, Turning, None, Client
  <2>3. Req[at] = None
    BY <1>0, <2>2, ReqIs DEF Idlers, Bare
  <2>4. [Armed(FreshTag) EXCEPT !.st = "running", !.req = cur].req = cur
    BY DEF Armed, FreshTag
  <2>5. Req' = [Req EXCEPT ![at] = cur]
    BY <1>0, <2>1, <2>2, <2>4, TagsAre DEF Req
  <2> QED BY <1>0, <1>a, <2>1, <2>2, <2>3, <2>5, PlacedSubmit, SentKept, SoleMoves
<1>12. CASE ScsiDirect \/ ClaimAfterPump
  <2>1. cur # None /\ UNCHANGED <<port, queue, owed>>
    BY <1>0, <1>12 DEF ScsiDirect, ClaimAfterPump, Executing
  <2>2. CASE DirectDone /\ tag' = tag
    BY <1>0, <1>c, <2>1, <2>2, SoleAnswered
  <2>3. CASE UNCHANGED <<cur, rq, tag>>
    BY <1>b, <1>c, <2>1, <2>3
  <2>4. CASE ClaimTag /\ UNCHANGED <<cur, rq>>
    <3>1. tag[at'].req = None
      BY <1>0, <2>4, ClaimTagFacts DEF Idlers, Bare
    <3>2. tag'[at'].req = None
      <4>1. tag'[at'] = [FreshTag EXCEPT !.st = "running", !.status = "wire"]
        BY <1>0, <2>4, ClaimTagFacts, TagsAre DEF ClaimTag
      <4> QED BY <4>1 DEF FreshTag
    <3>3. \A u \in Tag : tag'[u].req = tag[u].req
      BY <1>0, <2>4, <3>1, <3>2, ClaimTagFacts
    <3> QED BY <1>b, <2>1, <2>4, <3>3, ReqKept
  <2> QED BY <1>12, <2>2, <2>3, <2>4 DEF ScsiDirect, ClaimAfterPump, cliVars
<1>13. CASE BulkDone
  BY <1>0, <1>13, <1>c, SoleAnswered DEF BulkDone, Executing
<1>15. CASE DirectCommand \/ DirectStatus \/ DirectData
  <2>1. cur # None /\ UNCHANGED <<port, queue>>
    BY <1>0, <1>15 DEF DirectCommand, DirectStatus, DirectData, Executing
  <2>2. ~SendCommand
    BY <1>15 DEF SendCommand, DirectCommand, DirectStatus, DirectData
  <2>3. owed' = owed /\ Req' = Req
    BY <1>0, <1>15, <2>2, SendReqs
  <2>4. DirectDone \/ UNCHANGED <<cur, rq>>
    BY <1>15 DEF DirectCommand, DirectStatus, DirectData, DirectEnd, cliVars
  <2> QED BY <1>0, <1>b, <2>1, <2>3, <2>4, SoleAnswered
<1>18. CASE DrainAfterPump
  BY <1>18, <1>b, <1>c DEF DrainAfterPump, cliVars, curVars
<1>19. CASE Flush
  <2>1. /\ Answer(InSeq(queue) \cup {cur}) /\ queue' = <<>> /\ cur' = None
        /\ UNCHANGED <<port, owed, tag>> /\ cur # None
    BY <1>0, <1>19 DEF Flush, Executing
  <2>2. Placed(InSeq(port), {}, Req, None, owed, Sent \ (InSeq(queue) \cup {cur}))
    BY <1>a, <2>1, PlacedFlush
  <2>3. Req' = Req /\ Sent' = Sent \ (InSeq(queue) \cup {cur})
    BY <1>c, <2>1, SentAnswered
  <2> QED BY <1>a, <1>f, <2>1, <2>2, <2>3, SolePlaced
<1>20. CASE TaskWait \/ MainWait
  BY <1>20, <1>b, <1>c DEF TaskWait, MainWait, cliVars, curVars
<1>22. CASE owed = {} /\ FreeMS
  <2>1. /\ Answer(InSeq(port) \cup InSeq(queue)) /\ port' = <<>> /\ queue' = <<>>
        /\ UNCHANGED <<cur, owed>> /\ pc = "free" /\ tag' = [t \in Tag |-> FreshTag]
    BY <1>22 DEF FreeMS, ReplyLeftovers, curVars
  <2>2. \A t \in Tag : tag[t].req = None /\ tag'[t].req = None
    BY <1>0, <2>1, Bares0, Shapes0 DEF TagsGone, Idlers, Bare
  <2>3. Placed({}, {}, Req, cur, owed, Sent \ (InSeq(port) \cup InSeq(queue)))
    BY <1>a, PlacedLeftovers
  <2>4. Req' = Req /\ Sent' = Sent \ (InSeq(port) \cup InSeq(queue))
    BY <2>1, <2>2, ReqKept, SentAnswered
  <2> QED BY <1>f, <2>1, <2>3, <2>4, SolePlaced
<1>23. ASSUME NEW t \in Tag, CollectStatus(t) \/ CollectData(t) PROVE Sole'
  <2>1. UNCHANGED <<port, queue, cur, rq>>
    BY <1>23 DEF CollectStatus, CollectData, cliVars
  <2> QED BY <1>0, <1>23, <1>d, <2>1, CollectReqs
<1>24. CASE ReplyOwed
  <2>1. PICK c \in owed : Answer({c}) /\ owed' = owed \ {c}
    BY <1>24 DEF ReplyOwed
  <2>2. UNCHANGED <<port, queue, cur, tag>>
    BY <1>24 DEF ReplyOwed, curVars
  <2>3. Placed(InSeq(port), InSeq(queue), Req, cur, owed \ {c}, Sent \ {c})
    BY <1>a, PlacedReply
  <2>4. Req' = Req /\ Sent' = Sent \ {c}
    BY <1>c, <2>1, <2>2, SentAnswered
  <2> QED BY <1>0, <2>1, <2>2, <2>3, <2>4, SoleMoves
<1>25. CASE ReleaseBinding \/ Bind
  BY <1>25, <1>b, <1>c DEF ReleaseBinding, Bind, cliVars, curVars
<1>27. CASE TransferEnds
  <2>1. Req' = Req
    BY <1>0, <1>27, KeptReqs, KeptReq DEF TransferEnds
  <2>2. UNCHANGED <<port, queue, cur, owed, rq>>
    BY <1>27 DEF TransferEnds, TMReply, StatusReply, DataReply, cliVars, curVars
  <2> QED BY <1>b, <2>1, <2>2
<1>29. ASSUME NEW c \in Client, BeginIO(c) \/ PutRequest(c) \/ AbortIO(c) PROVE Sole'
  <2>1. Req' = Req
    BY <1>0, <1>29, KeptReqs, KeptReq
  <2>2. CASE BeginIO(c)
    <3>1. UNCHANGED <<port, queue, cur, owed>> /\ rq[c] = "idle"
          /\ rq' \in {rq, [rq EXCEPT ![c] = "passed"]}
      BY <2>2 DEF BeginIO, curVars
    <3>2. Sent' = Sent
      BY <1>0, <3>1 DEF Sent, TypeOK
    <3> QED BY <1>0, <1>a, <2>1, <3>1, <3>2, SoleMoves
  <2>3. CASE PutRequest(c)
    <3>1. /\ UNCHANGED <<queue, cur, owed>> /\ rq[c] = "passed" /\ port' = Append(port, c)
          /\ rq' = [rq EXCEPT ![c] = "sent"]
      BY <2>3 DEF PutRequest, curVars
    <3>2. c \notin Sent /\ Sent' = Sent \cup {c}
      BY <1>0, <3>1 DEF Sent, TypeOK
    <3>3. Placed(InSeq(port) \cup {c}, InSeq(queue), Req, cur, owed, Sent \cup {c})
      BY <1>a, <3>2, PlacedPut
    <3>4. OneEach(Append(port, c)) /\ InSeq(Append(port, c)) = InSeq(port) \cup {c}
      <4>1. c \notin InSeq(port)
        BY <1>a, <3>2 DEF Placed
      <4> QED BY <1>a, <4>1, OneEachAppend
    <3> QED BY <1>a, <2>1, <3>1, <3>2, <3>3, <3>4, SolePlaced
  <2>4. CASE AbortIO(c)
    <3>1. CASE c \in InSeq(queue) /\ queue' = Without(queue, c) /\ Answer({c})
      <4>1. OneEach(Without(queue, c)) /\ InSeq(Without(queue, c)) = InSeq(queue) \ {c}
        BY <1>a, <3>1, OneEachWithout
      <4>2. Placed(InSeq(port), InSeq(queue) \ {c}, Req, cur, owed, Sent \ {c})
        BY <1>a, <3>1, PlacedAbort
      <4>3. Sent' = Sent \ {c} /\ UNCHANGED <<port, cur, owed>>
        BY <2>4, <3>1, SentAnswered DEF AbortIO, curVars
      <4> QED BY <1>a, <2>1, <3>1, <4>1, <4>2, <4>3, SolePlaced
    <3>2. CASE UNCHANGED <<queue, rq>>
      BY <1>b, <2>1, <2>4, <3>2 DEF AbortIO, curVars
    <3> QED BY <2>4, <3>1, <3>2 DEF AbortIO, cliVars
  <2> QED BY <1>29, <2>2, <2>3, <2>4
<1>30. CASE UNCHANGED vars
  BY <1>30, <1>b, <1>c DEF vars, cliVars, curVars
<1>31. CASE Startup \/ Inquiry
  BY <1>31, <1>b, <1>c DEF Startup, Inquiry, cliVars, curVars
<1> QED
  BY <1>1, <1>2, <1>3, <1>6, <1>7, <1>8, <1>9, <1>10, <1>11, <1>12, <1>13, <1>15, <1>18,
     <1>19, <1>20, <1>22, <1>23, <1>24, <1>25, <1>27, <1>29, <1>30
 , <1>31 DEF Next, UnitTask, TaskStep

\* A tag that does not run has no request and no data on the wire.
LEMMA IdlersStep == IInv /\ HoldInv /\ [Next]_vars => Idlers'
<1> SUFFICES ASSUME IInv, HoldInv, [Next]_vars PROVE Idlers'
  OBVIOUS
<1>0. /\ TypeOK /\ InHand /\ TaskManagement /\ OffUnlessRunning /\ Turning /\ Idlers
  BY DEF IInv, HoldInv
<1>a. ASSUME UNCHANGED tag, pc' \notin {"scmd", "sstat", "sdata", "reset"} PROVE Idlers'
  BY <1>0, <1>a DEF Idlers
<1>b. ASSUME Kept, UNCHANGED <<pc, at>>, pc \in {"scmd", "sstat", "sdata"} => at \in Tag
      PROVE  Idlers'
  BY <1>0, <1>b DEF Idlers, Kept
<1>c. ASSUME NEW t \in Tag, Goes(t) \/ Ends(t), pc' \notin {"scmd", "sstat", "sdata", "reset"}
      PROVE  Idlers'
  BY <1>0, <1>c DEF Idlers, Goes, Ends
<1>d. pc \in {"scmd", "sstat", "sdata"} => at \in Tag
  BY <1>0 DEF InHand
<1>e. ASSUME ClaimTag PROVE Idlers'
  <2>1. tag'[at'] = [FreshTag EXCEPT !.st = "running", !.status = "wire"]
    BY <1>0, <1>e, ClaimTagFacts, TagsAre DEF ClaimTag
  <2>2. tag'[at'].req = None
    BY <2>1 DEF FreshTag
  <2> QED BY <1>0, <1>e, <2>2, ClaimTagFacts DEF Idlers
<1>f. After \in {"fetch", "drained", "claimed"}
  BY <1>0, AfterTurning
<1>1. CASE ProcessAborts
  <2>1. Kept /\ pc' \notin {"scmd", "sstat", "sdata", "reset"}
    BY <1>0, <1>1, <1>f, KeptReqs DEF ProcessAborts
  <2> QED BY <1>0, <2>1 DEF Idlers, Kept
<1>2. CASE ReapDone
  BY <1>2, <1>a DEF ReapDone
<1>3. CASE ReapTMF \/ IssueTMF \/ SendTMF
  <2>1. CASE Killed /\ pc' = "reset"
    BY <2>1 DEF Idlers, Killed
  <2>2. CASE /\ \A t \in Tag : Bare(tag[t]) => Bare(tag'[t])
             /\ \A t \in Tag : tag'[t] = tag[t] \/ tag'[t] = FreshTag
    <3>1. pc' \notin {"scmd", "sstat", "sdata", "reset"} \/ Escalate(tag)
      BY <1>0, <1>3, TMFFacts DEF ReapTMF
    <3>2. CASE Escalate(tag)
      BY <1>0, <3>2, EscalateReqs DEF Idlers, Killed, Escalate
    <3>3. CASE pc' \notin {"scmd", "sstat", "sdata", "reset"}
      BY <1>0, <2>2, <3>3, Bares0 DEF Idlers
    <3> QED BY <3>1, <3>2, <3>3
  <2> QED BY <1>0, <1>3, <2>1, <2>2, TMFReqs
<1>6. CASE ResetDevice
  BY <1>0, <1>6, <1>f, ResetReqs DEF ResetDevice, Idlers
<1>7. CASE SendCommand
  BY <1>0, <1>7, <1>c, SendReqs DEF SendCommand
<1>8. CASE FetchRequests \/ DispatchDone \/ TakeRequest
  BY <1>8, <1>a DEF FetchRequests, DispatchDone, TakeRequest
<1>11. CASE SubmitTag
  BY <1>0, <1>11, SubmitFacts DEF Idlers
<1>12. CASE ScsiDirect \/ ClaimAfterPump
  BY <1>12, <1>a, <1>e DEF ScsiDirect, ClaimAfterPump, DirectDone
<1>13. CASE BulkDone
  BY <1>13, <1>a DEF BulkDone, DirectDone
<1>15. CASE DirectCommand \/ DirectStatus \/ DirectData
  <2>1. at \in Tag /\ (Goes(at) \/ Ends(at)) /\ tag[at].req = None
    <3>1. ~SendCommand
      BY <1>15 DEF SendCommand, DirectCommand, DirectStatus, DirectData
    <3> QED BY <1>0, <1>15, <3>1, SendReqs
  <2>2. \/ pc' \in {"sstat", "sdata"} /\ at' = at
        \/ pc' = "dispatch"
    BY <1>15 DEF DirectCommand, DirectStatus, DirectData, DirectEnd, DirectDone
  <2>3. tag'[at].req = None
    BY <2>1 DEF Goes, Ends, Bare
  <2> QED BY <1>0, <2>1, <2>2, <2>3 DEF Idlers, Goes, Ends
<1>18. CASE DrainAfterPump \/ Flush \/ TaskWait \/ MainWait
  BY <1>18, <1>a DEF DrainAfterPump, Flush, TaskWait, MainWait
<1>22. CASE owed = {} /\ FreeMS
  BY <1>22, Bares0 DEF FreeMS, Idlers
<1>23. ASSUME NEW t \in Tag, CollectStatus(t) \/ CollectData(t) PROVE Idlers'
  <2>1. pc' \in {"reap", "chunk"}
    BY <1>23 DEF CollectStatus, CollectData, PipeDone
  <2> QED BY <1>0, <1>23, <1>c, <2>1, CollectReqs
<1>24. CASE ReplyOwed \/ ReleaseBinding \/ UNCHANGED vars
  BY <1>0, <1>24 DEF ReplyOwed, ReleaseBinding, vars, curVars, Idlers
<1>26. CASE Bind
  BY <1>26, <1>a DEF Bind
<1>27. CASE TransferEnds
  <2>1. UNCHANGED <<pc, at>>
    BY <1>27 DEF TransferEnds, TMReply, StatusReply, DataReply, curVars
  <2>2. Kept
    BY <1>0, <1>27, KeptReqs DEF TransferEnds
  <2> QED BY <1>b, <1>d, <2>1, <2>2
<1>29. ASSUME NEW c \in Client, BeginIO(c) \/ PutRequest(c) \/ AbortIO(c) PROVE Idlers'
  BY <1>0, <1>29, <1>b, <1>d, KeptReqs, AbortFacts
<1>31. CASE Startup \/ Inquiry
  BY <1>31, <1>a DEF Startup, Inquiry
<1> QED
  BY <1>1, <1>2, <1>3, <1>6, <1>7, <1>8, <1>11, <1>12, <1>13, <1>15, <1>18, <1>22, <1>23,
     <1>24, <1>26, <1>27, <1>29, <1>31 DEF Next, UnitTask, TaskStep

\* The request in hand is of the kind it was when the task took it.
LEMMA KindKept ==
  ASSUME TypeOK, Sole, cur # None,
         \/ UNCHANGED kind \/ ReplyOwed
         \/ \E c \in Client : BeginIO(c) \/ PutRequest(c) \/ AbortIO(c)
  PROVE  kind'[cur] = kind[cur]
<1>1. /\ cur \in Sent /\ cur \notin owed \cup InSeq(queue) /\ cur \in Client
      /\ kind \in [Client -> Kinds]
  BY DEF Sole, Placed, TypeOK
<1>2. CASE ReplyOwed
  BY <1>1, <1>2 DEF ReplyOwed, Answer
<1>3. ASSUME NEW c \in Client, BeginIO(c) PROVE kind'[cur] = kind[cur]
  BY <1>1, <1>3 DEF BeginIO, Sent
<1>4. ASSUME NEW c \in Client, AbortIO(c) PROVE kind'[cur] = kind[cur]
  BY <1>1, <1>4 DEF AbortIO, Answer, cliVars
<1> QED
  BY <1>2, <1>3, <1>4 DEF PutRequest

\* Where the task executes a request it has one, for the command it executes.
LEMMA ExecutingStep == IInv /\ HoldInv /\ [Next]_vars => Executing'
<1> SUFFICES ASSUME IInv, HoldInv, [Next]_vars PROVE Executing'
  OBVIOUS
<1>0. /\ TypeOK /\ InHand /\ TaskManagement /\ OffUnlessRunning /\ Turning /\ TagsGone
      /\ Sole /\ Idlers /\ Executing
  BY DEF IInv, HoldInv
<1>a. ASSUME Kept, UNCHANGED <<cur, pc, ctx, at>>, cur # None => kind'[cur] = kind[cur],
             tm'.pipe = tm.pipe
      PROVE  Executing'
  BY <1>0, <1>a DEF Executing, Alone, Kept
<1>b. ASSUME UNCHANGED tag PROVE Kept
  BY <1>b DEF Kept
<1>c. ASSUME DirectDone PROVE Executing'
  BY <1>c DEF DirectDone, Executing
<1>d. ASSUME UNCHANGED <<cur, ctx>>, pc \notin {"direct", "bulk", "scmd", "sstat", "sdata", "bind"},
             pc' \in {"inquiry", "pump", "reap", "tmf", "reset", "fetch", "drained", "claimed",
                      "chunk", "taskwait", "wait", "cmd", "dispatch"},
             UNCHANGED kind, pc' = "claimed" => ctx = "claim"
      PROVE  Executing'
  BY <1>0, <1>d DEF Executing
<1>e. /\ After \in {"fetch", "drained", "claimed"} /\ (After = "claimed" => ctx = "claim")
  BY <1>0 DEF After, TypeOK
<1>f. ASSUME ClaimTag, UNCHANGED <<cur, ctx, kind>>, pc \in {"direct", "claimed"} PROVE Executing'
  <2>1. \A u \in Tag : u # at' => tag'[u] = tag[u]
    BY <1>0, <1>f, ClaimTagFacts
  <2>2. pc' = "scmd"
    BY <1>f DEF ClaimTag
  <2> QED BY <1>0, <1>f, <2>1, <2>2 DEF Executing, Alone
<1>1. CASE ProcessAborts \/ ReapDone
  BY <1>1, <1>d, <1>e DEF ProcessAborts, ReapDone, cliVars, curVars
<1>3. CASE ReapTMF \/ IssueTMF \/ SendTMF
  <2>1. UNCHANGED <<cur, ctx, kind>> /\ pc \in {"tmf", "tmcmd"}
    BY <1>3 DEF ReapTMF, IssueTMF, SendTMF, cliVars, curVars
  <2>2. CASE pc' = "tmcmd"
    <3>1. tm'.pipe # 0
      BY <1>0, <1>3, <2>2, TMFFacts DEF Escalate, ReapTMF
    <3> QED BY <1>0, <2>1, <2>2, <3>1 DEF Executing
  <2>3. CASE pc' # "tmcmd"
    <3>1. pc' \in {"tmf", "reset", After}
      BY <1>3, <2>1, <2>3 DEF ReapTMF, IssueTMF, SendTMF, Escalate
    <3> QED BY <1>d, <1>e, <2>1, <3>1
  <2> QED BY <2>2, <2>3
<1>6. CASE ResetDevice
  BY <1>6, <1>d, <1>e DEF ResetDevice, cliVars, curVars
<1>7. CASE SendCommand
  BY <1>7, <1>d DEF SendCommand, cliVars
<1>8. CASE FetchRequests \/ DispatchDone
  BY <1>8, <1>d DEF FetchRequests, DispatchDone, cliVars, curVars
<1>10. CASE TakeRequest
  <2>1. Head(queue) # None /\ cur' = Head(queue) /\ UNCHANGED kind
    <3>1. queue # <<>> => Head(queue) \in Client
      BY <1>0 DEF TypeOK
    <3> QED BY <1>10, <3>1 DEF TakeRequest, cliVars, None, Client
  <2>2. ctx = "main"
    BY <1>0, <1>10 DEF TakeRequest, Turning
  <2> QED BY <1>10, <2>1, <2>2 DEF TakeRequest, Executing
<1>11. CASE SubmitTag
  <2>1. ctx' = "main" /\ cur' = None /\ pc' = "cmd"
    BY <1>0, <1>11 DEF SubmitTag, Turning
  <2> QED BY <2>1 DEF Executing
<1>12. CASE ScsiDirect
  <2>1. pc = "direct" /\ ctx = "claim" /\ cur # None
    BY <1>0, <1>12 DEF ScsiDirect, Executing
  <2>2. CASE ~DirectDone
    <3>1. UNCHANGED <<cur, ctx, kind>> /\ ~deny
      BY <1>12, <2>2 DEF ScsiDirect, cliVars
    <3>2. CASE depth = 0 /\ pc' = "bulk" /\ UNCHANGED <<at, tag>>
      BY <1>0, <2>1, <3>1, <3>2 DEF Executing, Alone
    <3>3. CASE ClaimTag
      BY <1>f, <2>1, <3>1, <3>3
    <3>4. CASE depth # 0 /\ FreeTags = {} /\ pc' = "pump"
      <4>1. kind[cur] # "stop"
        <5>1. SUFFICES ASSUME kind[cur] = "stop" PROVE FALSE
          OBVIOUS
        <5>2. \A t \in Tag : tag[t].st = "free"
          BY <1>0, <2>1, <5>1 DEF Executing, Alone
        <5>3. tm.pipe = 0
          BY <1>0, <5>2 DEF TaskManagement
        <5>4. depth = NumTags /\ 1 \in Tag
          BY <1>0, <3>4 DEF TypeOK, Tag
        <5>5. 1 \in FreeTags
          BY <5>2, <5>3, <5>4 DEF FreeTags, Tag
        <5> QED BY <3>4, <5>5
      <4> QED BY <2>1, <3>1, <3>4, <4>1 DEF Executing
    <3> QED BY <1>12, <2>2, <3>1, <3>2, <3>3, <3>4 DEF ScsiDirect
  <2> QED BY <1>c, <2>2
<1>13. CASE BulkDone
  BY <1>13, <1>c DEF BulkDone
<1>14. CASE ClaimAfterPump
  <2>1. CASE ClaimTag /\ UNCHANGED <<cliVars, cur, ctx>>
    BY <1>14, <1>f, <2>1 DEF ClaimAfterPump, cliVars
  <2>2. CASE pc' = "taskwait" /\ UNCHANGED <<cliVars, cur, ctx>>
    BY <1>14, <1>d, <2>2 DEF ClaimAfterPump, cliVars
  <2> QED BY <1>14, <1>c, <2>1, <2>2 DEF ClaimAfterPump
<1>15. CASE DirectCommand \/ DirectStatus \/ DirectData
  <2>1. CASE pc' \in {"sstat", "sdata"} /\ UNCHANGED <<cliVars, cur, ctx, at>>
    <3>1. at \in Tag /\ \A u \in Tag : u # at => tag'[u] = tag[u]
      <4>1. at \in Tag /\ (Goes(at) \/ Ends(at))
        BY <1>0, <1>15, SendReqs
      <4> QED BY <4>1 DEF Goes, Ends
    <3>2. pc \in {"scmd", "sstat"}
      BY <1>15, <2>1 DEF DirectCommand, DirectStatus, DirectData, DirectEnd, DirectDone
    <3> QED BY <1>0, <2>1, <3>1, <3>2 DEF Executing, Alone, cliVars
  <2> QED BY <1>15, <1>c, <2>1 DEF DirectCommand, DirectStatus, DirectData, DirectEnd
<1>18. CASE DrainAfterPump
  <2>1. ctx = "drain" /\ UNCHANGED <<cur, kind, tag>>
    BY <1>0, <1>18 DEF DrainAfterPump, Turning, cliVars, curVars
  <2>2. CASE pc' = "taskwait" /\ UNCHANGED ctx
    BY <2>1, <2>2 DEF Executing
  <2>3. CASE cur = None /\ pc' = "free" /\ UNCHANGED ctx
    BY <2>1, <2>3 DEF Executing
  <2>4. CASE cur # None /\ pc' = "direct" /\ ctx' = "claim" /\ (depth = 0 \/ TagsIdle)
    <3>1. \A t \in Tag : tag'[t].st = "free"
      BY <1>0, <2>1, <2>4 DEF TagsGone, TagsIdle
    <3> QED BY <2>1, <2>4, <3>1 DEF Executing, Alone
  <2>5. CASE cur # None /\ pc' = "flush" /\ UNCHANGED ctx
    BY <2>1, <2>5 DEF Executing
  <2>6. depth > 0 \/ depth = 0
    BY <1>0 DEF TypeOK
  <2> QED BY <1>18, <2>2, <2>3, <2>4, <2>5, <2>6 DEF DrainAfterPump
<1>19. CASE Flush
  BY <1>19 DEF Flush, Executing
<1>20. CASE TaskWait
  BY <1>20, <1>d DEF TaskWait, cliVars, curVars
<1>21. CASE MainWait
  <2>1. cur = None /\ ctx = "main" /\ cur' = cur /\ pc' = "pump" /\ ctx' \in {"drain", "main"}
    BY <1>0, <1>21 DEF MainWait, Turning, Executing, curVars
  <2> QED BY <2>1 DEF Executing
<1>22. CASE owed = {} /\ FreeMS
  <2>1. pc = "free" /\ pc' = "off" /\ UNCHANGED <<cur, ctx>>
    BY <1>22 DEF FreeMS, curVars
  <2> QED BY <1>0, <2>1 DEF Executing
<1>23. ASSUME NEW t \in Tag, CollectStatus(t) \/ CollectData(t) PROVE Executing'
  BY <1>23, <1>d DEF CollectStatus, CollectData, PipeDone, cliVars
<1>24. CASE ReplyOwed
  BY <1>0, <1>24, <1>a, <1>b, KindKept DEF ReplyOwed, engVars, curVars
<1>25. CASE ReleaseBinding \/ UNCHANGED vars
  BY <1>25, <1>a, <1>b DEF ReleaseBinding, vars, cliVars, engVars, curVars
<1>26. CASE Bind
  BY <1>0, <1>26 DEF Bind, Alive, Executing, curVars
<1>27. CASE TransferEnds
  <2>1. Kept
    BY <1>0, <1>27, KeptReqs DEF TransferEnds
  <2>2. UNCHANGED <<cur, pc, ctx, at, kind>>
    BY <1>27 DEF TransferEnds, TMReply, StatusReply, DataReply, cliVars, curVars
  <2>3. tm'.pipe = tm.pipe
    BY <1>0, <1>27, TMReplyFacts, ReplyFacts DEF TransferEnds
  <2> QED BY <1>a, <2>1, <2>2, <2>3
<1>29. ASSUME NEW c \in Client, BeginIO(c) \/ PutRequest(c) \/ AbortIO(c) PROVE Executing'
  <2>1. Kept
    BY <1>0, <1>29, KeptReqs
  <2>2. UNCHANGED <<cur, pc, ctx, at, tm>>
    BY <1>29 DEF BeginIO, PutRequest, AbortIO, engVars, curVars
  <2>3. cur # None => kind'[cur] = kind[cur]
    BY <1>0, <1>29, KindKept
  <2> QED BY <1>a, <2>1, <2>2, <2>3
<1>31. CASE Startup \/ Inquiry
  BY <1>31, <1>d DEF Startup, Inquiry, cliVars, curVars
<1> QED
  BY <1>1, <1>3, <1>6, <1>7, <1>8, <1>10, <1>11, <1>12, <1>13, <1>14, <1>15, <1>18, <1>19,
     <1>20, <1>21, <1>22, <1>23, <1>24, <1>25, <1>26, <1>27, <1>29, <1>31 DEF Next, UnitTask, TaskStep

LEMMA InitiallyHeld == Init => HoldInv
<1> SUFFICES ASSUME Init PROVE HoldInv
  OBVIOUS
<1>1. \A t \in Tag : tag[t] = FreshTag
  BY DEF Init
<1>2. /\ pc = "startup" /\ ctx = "main" /\ cur = None /\ owed = {}
      /\ port = <<>> /\ queue = <<>> /\ \A c \in Client : rq[c] = "idle"
  BY DEF Init
<1>3. Riding(Req) = {} /\ Req = [t \in Tag |-> None]
  BY <1>1 DEF Riding, Req, FreshTag
<1>4. Sent = {} /\ InSeq(<<>>) = {} /\ OneEach(<<>>)
  BY <1>2 DEF Sent, InSeq, OneEach
<1>5. Placed({}, {}, Req, None, {}, {})
  BY <1>3 DEF Placed
<1>6. Sole
  BY <1>2, <1>4, <1>5 DEF Sole
<1>7. Idlers
  BY <1>1, <1>2, Bares0 DEF Idlers
<1>8. Executing
  BY <1>2 DEF Executing
<1> QED
  BY <1>6, <1>7, <1>8 DEF HoldInv

LEMMA HoldInvariant == Spec => [](IInv /\ HoldInv)
<1>1. IInv /\ HoldInv /\ [Next]_vars => (IInv /\ HoldInv)'
  BY Inductive, SoleStep, IdlersStep, ExecutingStep DEF HoldInv
<1> QED
  BY Initially, InitiallyHeld, <1>1, PTL DEF Spec

LEMMA AtMostOne ==
  ASSUME NEW X, \A i, j \in X : i = j
  PROVE  Cardinality(X) = IF X = {} THEN 0 ELSE 1
<1>1. CASE X = {}
  BY <1>1, FS_EmptySet
<1>2. CASE X # {}
  <2>1. PICK i \in X : X = {i}
    BY <1>2
  <2> QED BY <1>2, <2>1, FS_Singleton
<1> QED
  BY <1>1, <1>2

\* For any number of clients and tags, a request that was sent is held in
\* exactly one place until it is replied, and in none before and after: whatever
\* AbortIO, the dispatcher, an escalation, a reset, a flush and the end of the
\* task do with it, nobody replies it twice and nobody forgets it (devAbortIO,
\* nUasFinalizeTag, nUasEscalateReset, nFreeMS).
THEOREM RequestsHeldOnce == Spec => []HeldOnce
<1>1. ASSUME TypeOK, Sole PROVE HeldOnce
  <2> SUFFICES ASSUME NEW c \in Client
               PROVE  Holders(c) = IF rq[c] = "sent" THEN 1 ELSE 0
    BY DEF HeldOnce
  <2>1. /\ OneEach(port) /\ OneEach(queue)
        /\ Placed(InSeq(port), InSeq(queue), Req, cur, owed, Sent)
    BY <1>1 DEF Sole
  <2>2. Cardinality({i \in DOMAIN port : port[i] = c}) = IF c \in InSeq(port) THEN 1 ELSE 0
    <3> DEFINE X == {i \in DOMAIN port : port[i] = c}
    <3>1. (X = {} <=> c \notin InSeq(port)) /\ \A i, j \in X : i = j
      BY <2>1 DEF InSeq, OneEach
    <3> HIDE DEF X
    <3>2. Cardinality(X) = IF c \in InSeq(port) THEN 1 ELSE 0
      BY <3>1, AtMostOne
    <3> QED BY <3>2 DEF X
  <2>3. Cardinality({i \in DOMAIN queue : queue[i] = c}) = IF c \in InSeq(queue) THEN 1 ELSE 0
    <3> DEFINE X == {i \in DOMAIN queue : queue[i] = c}
    <3>1. (X = {} <=> c \notin InSeq(queue)) /\ \A i, j \in X : i = j
      BY <2>1 DEF InSeq, OneEach
    <3> HIDE DEF X
    <3>2. Cardinality(X) = IF c \in InSeq(queue) THEN 1 ELSE 0
      BY <3>1, AtMostOne
    <3> QED BY <3>2 DEF X
  <2>4. c # None
    BY DEF Client, None
  <2>5. Cardinality({t \in Tag : tag[t].req = c}) = IF c \in Riding(Req) THEN 1 ELSE 0
    <3> DEFINE X == {t \in Tag : tag[t].req = c}
    <3>1. \A t \in Tag : Req[t] = tag[t].req
      BY <1>1, ReqIs
    <3>2. \A t, v \in X : t = v
      BY <2>1, <2>4, <3>1 DEF Placed
    <3>3. X = {} <=> c \notin Riding(Req)
      BY <2>4, <3>1 DEF Riding
    <3> HIDE DEF X
    <3>4. Cardinality(X) = IF c \in Riding(Req) THEN 1 ELSE 0
      BY <3>2, <3>3, AtMostOne
    <3> QED BY <3>4 DEF X
  <2>6. /\ rq[c] = "sent" <=> \/ c \in InSeq(port) \/ c \in InSeq(queue) \/ c \in Riding(Req)
                              \/ cur = c \/ c \in owed
        /\ c \in InSeq(port) => /\ c \notin InSeq(queue) /\ c \notin Riding(Req)
                                /\ cur # c /\ c \notin owed
        /\ c \in InSeq(queue) => c \notin Riding(Req) /\ cur # c /\ c \notin owed
        /\ c \in Riding(Req) => cur # c /\ c \notin owed
        /\ cur = c => c \notin owed
    <3>1. rq[c] = "sent" <=> c \in Sent
      BY DEF Sent
    <3>2. Riding(Req) \cap (InSeq(port) \cup InSeq(queue) \cup owed \cup {cur}) = {}
      BY <2>1 DEF Placed, Riding
    <3> QED BY <2>1, <2>4, <3>1, <3>2 DEF Placed
  <2> QED BY <2>2, <2>3, <2>5, <2>6 DEF Holders
<1> QED
  BY HoldInvariant, <1>1, PTL DEF IInv, HoldInv

\* For any number of tags, a command that changes the medium is on the wire
\* alone, and no other tag's command is the device's.  Apart from the reset of its
\* startup the unit agrees to a suspend only while none of its transfers, task
\* management and the startup's INQUIRY included, is on the wire (nUasDrainTags,
\* nScsiDirect, UCM_AttemptSuspendDevice).
THEOREM IdleIsQuiet == Spec => []IdleMeansQuiet
<1>1. ASSUME IInv, HoldInv PROVE IdleMeansQuiet
  <2>0. /\ TypeOK /\ DevKnown /\ OffUnlessRunning /\ InHand /\ TaskManagement /\ Idlers
        /\ Executing
    BY <1>1 DEF IInv, HoldInv
  <2>1. ASSUME pc \in {"scmd", "sstat", "sdata"}, kind[cur] = "stop", NEW t \in Tag \ {at}
        PROVE  tag[t].st = "free" /\ (dev[t] = {} \/ doubt)
    <3>1. tag[t].st = "free"
      BY <2>0, <2>1 DEF Executing, Alone
    <3> QED BY <2>0, <2>1, <3>1 DEF DevKnown, Closed
  <2>2. ASSUME AgreesToSuspend PROVE ~OnTheWire \/ pc = "startup"
    <3>1. ctx # "claim" /\ pc # "inquiry" /\ \A t \in Tag : tag[t].st = "free"
      BY <2>2 DEF AgreesToSuspend, TagsIdle
    <3>2. tm.pipe = 0 /\ tm.res = "off"
      BY <2>0, <3>1 DEF TaskManagement
    <3>3. pc \notin {"cmd", "chunk", "tmcmd", "scmd", "bulk"}
      BY <2>0, <3>1, <3>2 DEF InHand, Executing
    <3>4. \A t \in Tag : tag[t].status = "off" /\ tag[t].data = "off"
      BY <2>0, <3>1 DEF OffUnlessRunning, Idlers, Bare
    <3> QED BY <3>1, <3>2, <3>3, <3>4 DEF OnTheWire
  <2> QED BY <2>1, <2>2 DEF IdleMeansQuiet
<1> QED
  BY HoldInvariant, <1>1, PTL

=============================================================================
