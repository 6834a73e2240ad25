------------------------------- MODULE MassUnit -------------------------------
(***************************************************************************)
(* One unit of the mass storage class: the device's BeginIO and AbortIO,   *)
(* called by clients in their own tasks, the unit task (nMSTask) that      *)
(* takes the requests from the unit's port to its queue and executes them, *)
(* and the release and the new bind of its interface.                      *)
(*                                                                         *)
(* On UAS, block reads and writes ride on tags, several at a time; the     *)
(* other commands are synchronous and take a tag of their own, and those   *)
(* that change the medium, or flush, wait for every tag first.  A tag the  *)
(* device still owns after the host gave its command up is quarantined     *)
(* until ABORT TASK is answered or the device was reset.  A unit without   *)
(* tags (depth 0) is a bulk-only one: every command is synchronous.        *)
(***************************************************************************)
EXTENDS Naturals, Sequences, FiniteSets

CONSTANTS NumClients,
          NumTags,      \* the queue depth on UAS
          MaxSends,     \* bound: requests, and further chunks of them, in a run
          MaxReleases   \* bound: releases of the binding in a run

ASSUME TagsAssumption   == NumTags \in Nat \ {0}
ASSUME ClientsAssumption == NumClients \in Nat
ASSUME BoundsAssumption == MaxSends \in Nat /\ MaxReleases \in Nat

VARIABLES
  rq, kind,     \* each client's request: where its caller is, and what it asks
  overtaken,    \* requests queued after requests were denied
  deny,         \* ncm_DenyRequests
  port, queue,  \* the unit's message port, and ncm_XFerQueue
  cur,          \* the request the unit task executes
  owed,         \* requests it has let go of and replies next
  pc, ctx, at,  \* where it is, for whom it turns the engine, the tag in hand
  sigs,         \* its signals
  depth,        \* ncm_UasQueueDepth
  reserved,     \* ncm_UasTMTag: task management has a stream of its own
  tag, tm,      \* ncm_UasTags, and the task management transfer
  dev,          \* the commands the device owns, by tag
  doubt,        \* the host may have let go of a tag the device still owns
  sends, releases

cliVars == <<rq, kind, overtaken>>
curVars == <<cur, at>>
engVars == <<depth, reserved, tm>>
cntVars == <<sends, releases>>
vars == <<cliVars, deny, port, queue, curVars, owed, pc, ctx, sigs,
          engVars, tag, dev, doubt, cntVars>>

None == 0
Client == 1..NumClients
Tag  == 1..NumTags
TMStream == NumTags + 1     \* the stream reserved for task management

Kinds == {"data", "sync", "stop", "flush"}

\* A tag with nothing on its pipes.  A pipe is off, on the wire, or has a reply;
\* "err" is a transfer that failed or brought something else than a Sense IU.
FreshTag == [st |-> "free", req |-> None, status |-> "off", data |-> "off",
             sArm |-> FALSE, dArm |-> FALSE, abort |-> FALSE, sent |-> FALSE]

NoTM == [pipe |-> 0, target |-> 0, res |-> "off"]

Init == /\ rq = [c \in Client |-> "idle"] /\ kind = [c \in Client |-> "data"]
        /\ overtaken = {}
        /\ deny = FALSE
        /\ port = <<>> /\ queue = <<>>
        /\ cur = None /\ owed = {} /\ at = 0
        /\ pc = "startup" /\ ctx = "main"
        /\ sigs = {}
        /\ depth \in {0, NumTags}
        /\ reserved \in (IF depth = 0 THEN {FALSE} ELSE BOOLEAN)
        /\ tag = [t \in Tag |-> FreshTag] /\ tm = NoTM
        /\ dev = [t \in Tag |-> {}] /\ doubt = FALSE
        /\ sends = 0 /\ releases = 0

\* The requests in S go back to their clients.
Answer(S) == /\ rq'   = [c \in Client |-> IF c \in S THEN "idle" ELSE rq[c]]
             /\ kind' = [c \in Client |-> IF c \in S THEN "data" ELSE kind[c]]
             /\ overtaken' = overtaken \ S

InSeq(s) == {s[i] : i \in DOMAIN s}

Alive == pc # "off"

\* Mutant: a signal reaches the task only while it waits for one.
SignalWaiting(s) == sigs' = IF pc \in {"wait", "taskwait"} THEN sigs \cup {s} ELSE sigs

Signal(s) == sigs' = IF Alive THEN sigs \cup {s} ELSE sigs

-----------------------------------------------------------------------------
\* The clients.  They are interchangeable: the first idle one sends.
BeginIO(c) ==
  /\ rq[c] = "idle" /\ \A b \in Client : b < c => rq[b] # "idle"
  /\ sends < MaxSends /\ sends' = sends + 1
  /\ IF deny THEN UNCHANGED <<rq, kind>>
             ELSE /\ rq' = [rq EXCEPT ![c] = "passed"]
                  /\ \E k \in Kinds : kind' = [kind EXCEPT ![c] = k]
  /\ UNCHANGED <<overtaken, deny, port, queue, curVars, owed, pc, ctx, sigs, engVars, tag, dev,
                 doubt, releases>>

\* The test of ncm_DenyRequests and the PutMsg are not under Forbid.
PutRequest(c) ==
  /\ rq[c] = "passed"
  /\ rq' = [rq EXCEPT ![c] = "sent"]
  /\ port' = Append(port, c)
  /\ overtaken' = IF deny THEN overtaken \cup {c} ELSE overtaken
  /\ Signal("unit")
  /\ UNCHANGED <<kind, deny, queue, curVars, owed, pc, ctx, engVars, tag, dev,
                 doubt, cntVars>>

\* Mutant: the request is replied and stays in the queue.
WithoutNothing(s, c) == s

Without(s, c) == LET i == CHOOSE i \in DOMAIN s : s[i] = c
                 IN SubSeq(s, 1, i - 1) \o SubSeq(s, i + 1, Len(s))

\* A request on the unit's port, or being executed, is not aborted.
AbortIO(c) ==
  /\ rq[c] = "sent"
  /\ \/ /\ c \in InSeq(queue)
        /\ queue' = Without(queue, c)
        /\ Answer({c})
        /\ UNCHANGED <<tag, sigs>>
     \/ \E t \in Tag :
          /\ tag[t].st # "free" /\ tag[t].req = c
          /\ tag' = [tag EXCEPT ![t].abort = TRUE]
          /\ Signal("task")
          /\ UNCHANGED <<queue, cliVars>>
  /\ UNCHANGED <<deny, port, curVars, owed, pc, ctx, engVars, dev, doubt, cntVars>>

-----------------------------------------------------------------------------
\* The engine.
Running    == {t \in Tag : tag[t].st = "running"}
Quarantine == {t \in Tag : tag[t].st = "quarantine"}
Replied(p) == p \notin {"off", "wire"}

\* nUasFreeTag takes the first of these.
FreeTags == {t \in 1..depth : tag[t].st = "free" /\ tm.pipe # t}

First(S) == {t \in S : \A u \in S : t <= u}

\* Mutant: a quarantined tag does not count.
TagsIdleRunning == Running = {}

TagsIdle == \A t \in Tag : tag[t].st = "free"

\* Where one revolution of the engine leads.
After == [main |-> "fetch", drain |-> "drained", claim |-> "claimed"][ctx]

\* psdAbortPipe: a transfer on the wire fails, a reply stays.
Aborted(p) == IF p = "wire" THEN "err" ELSE p
SignalAbort(g) == [g EXCEPT !.status = IF g.sArm THEN Aborted(@) ELSE @,
                            !.data   = IF g.dArm THEN Aborted(@) ELSE @]
AbortArmed(g) == [SignalAbort(g) EXCEPT !.sArm = FALSE, !.dArm = FALSE]

\* A Sense IU has closed the command.
StatusSeen(g) == g.status \in {"good", "bad"}

\* Mutant: the tag is free although the device owns its command.
FinalizedAtOnce(g) == FreshTag

\* nUasFinalizeTag up to the reply.  Nobody reads the tag's other fields again.
Finalized(g) == [FreshTag EXCEPT !.st = IF g.sent /\ ~StatusSeen(g)
                                          THEN "quarantine" ELSE "free"]

\* Mutant: a tag without a request is replied, too.
OweAll(reqs) == owed' = owed \cup reqs

Owe(reqs) == owed' = owed \cup (reqs \ {None})

\* The reply nUasFinalizeTag ends with.
ReplyOwed ==
  /\ owed # {}
  /\ \E c \in owed : Answer({c}) /\ owed' = owed \ {c}
  /\ UNCHANGED <<deny, port, queue, curVars, pc, ctx, sigs, engVars, tag, dev,
                 doubt, cntVars>>

\* What the device owns of this tag is old once its status pipe is armed anew.
Rearm(t) == dev' = [dev EXCEPT ![t] = IF @ = {} THEN {} ELSE {"old"}]

\* nUasSubmitChunk up to the command IU.
Armed(g) == [g EXCEPT !.status = "wire", !.sArm = TRUE, !.data = "wire", !.dArm = TRUE,
                      !.sent = FALSE]

\* nMSTask has told the binding's task that it is ready: the reset of the startup.
Startup ==
  /\ pc = "startup" /\ pc' = "inquiry"
  /\ UNCHANGED <<cliVars, deny, port, queue, curVars, owed, ctx, sigs, engVars, tag,
                 dev, doubt, cntVars>>

\* Its INQUIRY, with a Sense IU for the answer.
Inquiry ==
  /\ pc = "inquiry" /\ pc' = "pump"
  /\ UNCHANGED <<cliVars, deny, port, queue, curVars, owed, ctx, sigs, engVars, tag,
                 dev, doubt, cntVars>>

ProcessAborts ==
  /\ pc = "pump"
  /\ tag' = [t \in Tag |-> IF tag[t].st = "running" /\ tag[t].abort
                             THEN SignalAbort(tag[t]) ELSE tag[t]]
  /\ pc' = IF depth = 0 THEN After ELSE "reap"
  /\ UNCHANGED <<cliVars, deny, port, queue, curVars, owed, ctx, sigs, engVars,
                 dev, doubt, cntVars>>

\* The end of nUasTagPipeDone: g is the tag with its reply collected.
PipeDone(t, g) ==
  \/ /\ g.sArm \/ g.dArm
     /\ tag' = [tag EXCEPT ![t] = g]
     /\ UNCHANGED <<owed, pc, at, dev, sends>>
  \/ /\ ~g.sArm /\ ~g.dArm /\ g.status = "good" /\ g.data = "ok"
     /\ sends < MaxSends /\ sends' = sends + 1
     /\ tag' = [tag EXCEPT ![t] = Armed(g)] /\ Rearm(t)
     /\ pc' = "chunk" /\ at' = t
     /\ UNCHANGED owed
  \/ /\ ~g.sArm /\ ~g.dArm
     /\ tag' = [tag EXCEPT ![t] = Finalized(g)] /\ Owe({g.req})
     /\ UNCHANGED <<pc, at, dev, sends>>

\* A status that rejects the command, or a failed one, ends its data.
CollectStatus(t) ==
  LET g == [tag[t] EXCEPT !.sArm = FALSE]
  IN /\ pc = "reap" /\ tag[t].st = "running" /\ tag[t].sArm /\ Replied(tag[t].status)
     /\ PipeDone(t, IF g.status # "good" THEN SignalAbort(g) ELSE g)
     /\ UNCHANGED <<cliVars, deny, port, queue, cur, ctx, sigs, engVars, doubt, releases>>

\* Failed data ends the status.
CollectData(t) ==
  LET g == [tag[t] EXCEPT !.dArm = FALSE]
  IN /\ pc = "reap" /\ tag[t].st = "running" /\ tag[t].dArm /\ Replied(tag[t].data)
     /\ PipeDone(t, IF g.data = "err" THEN SignalAbort(g) ELSE g)
     /\ UNCHANGED <<cliVars, deny, port, queue, cur, ctx, sigs, engVars, doubt, releases>>

ReapDone ==
  /\ pc = "reap"
  /\ \A t \in Running : /\ ~(tag[t].sArm /\ Replied(tag[t].status))
                        /\ ~(tag[t].dArm /\ Replied(tag[t].data))
  /\ pc' = "tmf"
  /\ UNCHANGED <<cliVars, deny, port, queue, curVars, owed, ctx, sigs, engVars,
                 tag, dev, doubt, cntVars>>

\* nUasEscalateReset up to the reset: every tag in flight is killed.
Escalate(tags) ==
  /\ tag' = [t \in Tag |-> IF tags[t].st = "running"
                             THEN Finalized([AbortArmed(tags[t]) EXCEPT !.sent = FALSE])
                             ELSE tags[t]]
  /\ Owe({tags[t].req : t \in Tag})
  /\ tm' = NoTM
  /\ pc' = "reset"

\* nUasReapTMF: the answer to ABORT TASK.
ReapTMF ==
  /\ pc = "tmf" /\ tm.pipe # 0 /\ Replied(tm.res)
  /\ IF tm.res = "good"
       THEN /\ tag' = [tag EXCEPT ![tm.target] = IF @.st = "quarantine"
                                                   THEN FreshTag ELSE @]
            /\ tm' = NoTM
            /\ UNCHANGED <<pc, owed>>
       ELSE Escalate(tag)
  /\ UNCHANGED <<cliVars, deny, port, queue, curVars, ctx, sigs, depth, reserved,
                 dev, doubt, cntVars>>

\* The tags that can carry the task management IU without a stream of its own.
Lenders(target) == IF \A t \in 1..depth : t # target => tag[t].st = "free"
                     THEN (1..depth) \ {target} ELSE {}

\* nUasIssueTMF up to the IU: with a tag busy it is left for a later turn.
IssueTMF ==
  /\ pc = "tmf" /\ (tm.pipe = 0 \/ ~Replied(tm.res))
  /\ IF tm.pipe # 0 \/ Quarantine = {}
       THEN pc' = After /\ UNCHANGED <<tm, tag, owed>>
       ELSE \E target \in First(Quarantine) :
              LET pipes == IF reserved THEN {TMStream} ELSE Lenders(target) IN
              \/ /\ \E p \in First(pipes) :
                      tm' = [pipe |-> p, target |-> target, res |-> "wire"]
                 /\ pc' = "tmcmd" /\ UNCHANGED <<tag, owed>>
              \/ pipes = {} /\ depth = 1 /\ Escalate(tag)
              \/ pipes = {} /\ depth # 1 /\ pc' = After /\ UNCHANGED <<tm, tag, owed>>
  /\ UNCHANGED <<cliVars, deny, port, queue, curVars, ctx, sigs, depth, reserved,
                 dev, doubt, cntVars>>

\* Its IU is out, or failed.
SendTMF ==
  /\ pc = "tmcmd"
  /\ \/ pc' = After /\ UNCHANGED <<tm, tag, owed>>
     \/ Escalate(tag)
  /\ UNCHANGED <<cliVars, deny, port, queue, curVars, ctx, sigs, depth, reserved,
                 dev, doubt, cntVars>>

\* psdResetDevice and what follows: a new engine, none, or the old one as it is.
ResetDevice ==
  /\ pc = "reset"
  /\ pc' = After
  /\ \/ /\ reserved' \in {reserved, FALSE}
        /\ tag' = [t \in Tag |-> FreshTag] /\ dev' = [t \in Tag |-> {}]
        /\ doubt' = FALSE
        /\ UNCHANGED <<depth, deny>>
     \/ /\ depth' = 0 /\ reserved' = FALSE /\ deny' = TRUE
        /\ tag' = [t \in Tag |-> FreshTag] /\ dev' = [t \in Tag |-> {}]
        /\ doubt' = FALSE
     \/ /\ tag' = [t \in Tag |-> IF tag[t].st = "quarantine" THEN FreshTag ELSE tag[t]]
        /\ doubt' = TRUE
        /\ UNCHANGED <<depth, reserved, deny, dev>>
  /\ UNCHANGED <<cliVars, port, queue, curVars, owed, ctx, sigs, tm, cntVars>>

\* A command IU that fails may have reached the device.
IULost(t) == \/ UNCHANGED <<dev, doubt>>
             \/ dev' = [dev EXCEPT ![t] = @ \cup {"cur"}] /\ doubt' = TRUE

\* psdWaitPipe gives back the signals it took.
KeepSignal == UNCHANGED sigs

\* nUasSubmitChunk from the command IU on.
SendCommand ==
  /\ pc \in {"cmd", "chunk"}
  /\ pc' = IF pc = "cmd" THEN "dispatch" ELSE "reap"
  /\ at' = 0
  /\ KeepSignal
  /\ \/ /\ tag' = [tag EXCEPT ![at].sent = TRUE]
        /\ dev' = [dev EXCEPT ![at] = @ \cup {"cur"}]
        /\ UNCHANGED <<owed, doubt>>
     \/ /\ tag' = [tag EXCEPT ![at] = Finalized(AbortArmed(@))]
        /\ Owe({tag[at].req})
        /\ IULost(at)
  /\ UNCHANGED <<cliVars, deny, port, queue, cur, ctx, engVars, cntVars>>

-----------------------------------------------------------------------------
\* The dispatcher.
FetchRequests ==
  /\ pc = "fetch"
  /\ queue' = queue \o port /\ port' = <<>>
  /\ pc' = "dispatch"
  /\ UNCHANGED <<cliVars, deny, curVars, owed, ctx, sigs, engVars, tag, dev,
                 doubt, cntVars>>

Eligible(c) == depth > 0 /\ kind[c] = "data"

\* Nothing to do, or no tag for the request that is next.
DispatchDone ==
  /\ pc = "dispatch"
  /\ IF queue = <<>> THEN TRUE ELSE Eligible(Head(queue)) /\ FreeTags = {}
  /\ pc' = "wait"
  /\ UNCHANGED <<cliVars, deny, port, queue, curVars, owed, ctx, sigs, engVars,
                 tag, dev, doubt, cntVars>>

\* The request leaves the queue: a tag for it, a barrier first, or at once.
TakeRequest ==
  /\ pc = "dispatch" /\ queue # <<>>
  /\ LET c == Head(queue) IN
     /\ cur' = c /\ queue' = Tail(queue)
     /\ \/ /\ Eligible(c) /\ FreeTags # {}
           /\ pc' = "bind" /\ at' \in First(FreeTags) /\ UNCHANGED ctx
        \/ /\ ~Eligible(c) /\ kind[c] \in {"stop", "flush"}
           /\ ctx' = "drain" /\ pc' = "pump" /\ UNCHANGED at
        \/ /\ ~Eligible(c) /\ kind[c] \in {"data", "sync"}
           /\ ctx' = "claim" /\ pc' = "direct" /\ UNCHANGED at
  /\ UNCHANGED <<cliVars, deny, port, owed, sigs, engVars, tag, dev,
                 doubt, cntVars>>

\* nUasSubmitTag.
SubmitTag ==
  /\ pc = "bind"
  /\ tag' = [tag EXCEPT ![at] = [Armed(FreshTag) EXCEPT !.st = "running", !.req = cur]]
  /\ Rearm(at)
  /\ cur' = None /\ pc' = "cmd"
  /\ UNCHANGED <<cliVars, deny, port, queue, at, owed, ctx, sigs, engVars,
                 doubt, cntVars>>

\* A synchronous command has ended: its request is replied.
DirectDone == /\ Answer({cur}) /\ cur' = None /\ at' = 0
              /\ ctx' = "main" /\ pc' = "dispatch"

\* nUasClaimTag: a tag that runs without a request.
ClaimTag == /\ at' \in First(FreeTags)
            /\ tag' = [tag EXCEPT ![at'] = [FreshTag EXCEPT !.st = "running", !.status = "wire"]]
            /\ Rearm(at')
            /\ pc' = "scmd"

\* nScsiDirect: denied, on bulk-only, or on UAS.
ScsiDirect ==
  /\ pc = "direct"
  /\ IF deny THEN DirectDone /\ UNCHANGED <<tag, dev>>
     ELSE /\ IF depth = 0 THEN pc' = "bulk" /\ UNCHANGED <<at, tag, dev>>
             ELSE IF FreeTags # {} THEN ClaimTag
             ELSE pc' = "pump" /\ UNCHANGED <<at, tag, dev>>
          /\ UNCHANGED <<cliVars, cur, ctx>>
  /\ UNCHANGED <<deny, port, queue, owed, sigs, engVars, doubt, cntVars>>

BulkDone ==
  /\ pc = "bulk"
  /\ DirectDone
  /\ UNCHANGED <<deny, port, queue, owed, sigs, engVars, tag, dev, doubt, cntVars>>

\* nUasClaimTag after a turn of the engine: wait for the next completion.
ClaimAfterPump ==
  /\ pc = "claimed"
  /\ IF FreeTags # {} THEN ClaimTag /\ UNCHANGED <<cliVars, cur, ctx>>
     ELSE IF depth = 0 \/ deny THEN DirectDone /\ UNCHANGED <<tag, dev>>
     ELSE pc' = "taskwait" /\ UNCHANGED <<cliVars, cur, ctx, at, tag, dev>>
  /\ UNCHANGED <<deny, port, queue, owed, sigs, engVars, doubt, cntVars>>

\* nUasDoCommand from the command IU on.
DirectCommand ==
  /\ pc = "scmd"
  /\ KeepSignal
  /\ \/ /\ tag' = [tag EXCEPT ![at].sent = TRUE,
                              ![at].data = IF kind[cur] = "stop" THEN "off" ELSE "wire"]
        /\ dev' = [dev EXCEPT ![at] = @ \cup {"cur"}]
        /\ pc' = "sstat"
        /\ UNCHANGED <<cliVars, cur, ctx, at, doubt>>
     \/ /\ tag' = [tag EXCEPT ![at] = Finalized([tag[at] EXCEPT !.status = Aborted(@)])]
        /\ IULost(at)
        /\ DirectDone
  /\ UNCHANGED <<deny, port, queue, owed, engVars, cntVars>>

\* The tag goes once its command was closed by a Sense IU.
DirectEnd(g) ==
  /\ tag' = [tag EXCEPT ![at] = Finalized(g)]
  /\ DirectDone

DirectStatus ==
  /\ pc = "sstat" /\ Replied(tag[at].status)
  /\ KeepSignal
  /\ IF tag[at].status = "good" /\ tag[at].data # "off"
       THEN pc' = "sdata" /\ UNCHANGED <<tag, cliVars, cur, ctx, at>>
       ELSE DirectEnd([tag[at] EXCEPT !.data = Aborted(@)])
  /\ UNCHANGED <<deny, port, queue, owed, engVars, dev, doubt, cntVars>>

DirectData ==
  /\ pc = "sdata" /\ Replied(tag[at].data)
  /\ KeepSignal
  /\ DirectEnd(tag[at])
  /\ UNCHANGED <<deny, port, queue, owed, engVars, dev, doubt, cntVars>>

\* nUasDrainTags after a turn of the engine, and what it was a barrier for.
DrainAfterPump ==
  /\ pc = "drained"
  /\ IF depth > 0 /\ ~TagsIdle THEN pc' = "taskwait" /\ UNCHANGED ctx
     ELSE IF cur = None THEN pc' = "free" /\ UNCHANGED ctx
     ELSE IF kind[cur] = "stop" THEN pc' = "direct" /\ ctx' = "claim"
     ELSE pc' = "flush" /\ UNCHANGED ctx
  /\ UNCHANGED <<cliVars, deny, port, queue, curVars, owed, sigs, engVars, tag,
                 dev, doubt, cntVars>>

\* CMD_FLUSH and CMD_RESET.
Flush ==
  /\ pc = "flush"
  /\ Answer(InSeq(queue) \cup {cur})
  /\ queue' = <<>> /\ cur' = None
  /\ ctx' = "main" /\ pc' = "dispatch"
  /\ UNCHANGED <<deny, port, at, owed, sigs, engVars, tag, dev, doubt, cntVars>>

\* Claim and drain wait for the task port alone.
TaskWait ==
  /\ pc = "taskwait" /\ "task" \in sigs
  /\ sigs' = sigs \ {"task"}
  /\ pc' = "pump"
  /\ UNCHANGED <<cliVars, deny, port, queue, curVars, owed, ctx, engVars, tag, dev,
                 doubt, cntVars>>

MainWait ==
  /\ pc = "wait" /\ sigs # {}
  /\ sigs' = {}
  /\ pc' = "pump"
  /\ IF "break" \in sigs THEN ctx' = "drain" /\ deny' = TRUE ELSE UNCHANGED <<ctx, deny>>
  /\ UNCHANGED <<cliVars, port, queue, curVars, owed, engVars, tag, dev, doubt,
                 cntVars>>

\* Mutant: only the unit's port is drained.
ReplyLeftoversPort == Answer(InSeq(port)) /\ port' = <<>> /\ UNCHANGED queue

\* The requests nobody has started.
ReplyLeftovers == Answer(InSeq(port) \cup InSeq(queue)) /\ port' = <<>> /\ queue' = <<>>

\* nFreeMS: the task ends.
FreeMS ==
  /\ pc = "free"
  /\ ReplyLeftovers
  /\ tag' = [t \in Tag |-> FreshTag] /\ tm' = NoTM /\ depth' = 0 /\ reserved' = FALSE
  /\ sigs' = {}
  /\ pc' = "off"
  /\ UNCHANGED <<deny, curVars, owed, ctx, dev, doubt, cntVars>>

TaskStep == \/ Startup \/ Inquiry \/ ProcessAborts \/ ReapDone \/ ReapTMF \/ IssueTMF \/ SendTMF
            \/ ResetDevice \/ SendCommand \/ FetchRequests \/ DispatchDone
            \/ TakeRequest \/ SubmitTag \/ ScsiDirect \/ BulkDone
            \/ ClaimAfterPump \/ DirectCommand \/ DirectStatus \/ DirectData
            \/ DrainAfterPump \/ Flush \/ TaskWait \/ MainWait \/ FreeMS
            \/ \E t \in Tag : CollectStatus(t) \/ CollectData(t)

UnitTask == ReplyOwed \/ (owed = {} /\ TaskStep)

-----------------------------------------------------------------------------
\* The device and the host controller.
\* A Sense IU for a command the device owns, or a failure.
StatusReply(t) ==
  /\ tag[t].status = "wire"
  /\ \/ \E o \in dev[t], r \in {"good", "bad"} :
          /\ (o = "cur" /\ r = "good") => tag[t].data \in {"off", "ok", "err"}
          /\ tag' = [tag EXCEPT ![t].status = r]
          /\ dev' = [dev EXCEPT ![t] = @ \ {o}]
     \/ tag' = [tag EXCEPT ![t].status = "err"] /\ UNCHANGED dev
  /\ Signal("task")
  /\ UNCHANGED <<cliVars, deny, port, queue, curVars, owed, pc, ctx, engVars,
                 doubt, cntVars>>

DataReply(t) ==
  /\ tag[t].data = "wire"
  /\ \/ dev[t] # {} /\ tag' = [tag EXCEPT ![t].data = "ok"]
     \/ tag' = [tag EXCEPT ![t].data = "err"]
  /\ Signal("task")
  /\ UNCHANGED <<cliVars, deny, port, queue, curVars, owed, pc, ctx, engVars, dev,
                 doubt, cntVars>>

\* Task management: the task is dropped, or the answer is a refusal or a timeout.
TMReply ==
  /\ tm.res = "wire" /\ pc # "tmcmd"
  /\ \/ tm' = [tm EXCEPT !.res = "good"] /\ dev' = [dev EXCEPT ![tm.target] = {}]
     \/ tm' = [tm EXCEPT !.res = "bad"] /\ UNCHANGED dev
  /\ Signal("task")
  /\ UNCHANGED <<cliVars, deny, port, queue, curVars, owed, pc, ctx, depth,
                 reserved, tag, doubt, cntVars>>

\* usbReleaseInterfaceBinding, which waits for the task to end.
ReleaseBinding ==
  /\ Alive /\ releases < MaxReleases /\ "break" \notin sigs
  /\ releases' = releases + 1
  /\ deny' = TRUE
  /\ Signal("break")
  /\ UNCHANGED <<cliVars, port, queue, curVars, owed, pc, ctx, engVars, tag, dev,
                 doubt, sends>>

\* A new bind of the unit: what is still in the port is served.
Bind ==
  /\ ~Alive
  /\ pc' = "startup" /\ ctx' = "main"
  /\ deny' = FALSE
  /\ depth' \in {0, NumTags}
  /\ reserved' \in (IF depth' = 0 THEN {FALSE} ELSE BOOLEAN)
  /\ dev' = [t \in Tag |-> {}] /\ doubt' = FALSE
  /\ UNCHANGED <<cliVars, port, queue, curVars, owed, sigs, tm, tag, cntVars>>

TransferEnds == TMReply \/ \E t \in Tag : StatusReply(t) \/ DataReply(t)

Next == \/ UnitTask \/ ReleaseBinding \/ Bind \/ TransferEnds
        \/ \E c \in Client : BeginIO(c) \/ PutRequest(c) \/ AbortIO(c)

\* The unit task and the clients are scheduled, and a transfer ends, by its NAK
\* timeout if need be.
Fairness == /\ WF_vars(UnitTask)
            /\ WF_vars(\E c \in Client : PutRequest(c))
            /\ WF_vars(TransferEnds)

Spec == Init /\ [][Next]_vars /\ Fairness

-----------------------------------------------------------------------------
TagType == [st : {"free", "running", "quarantine"}, req : Client \cup {None},
            status : {"off", "wire", "good", "bad", "err"},
            data : {"off", "wire", "ok", "err"},
            sArm : BOOLEAN, dArm : BOOLEAN, abort : BOOLEAN, sent : BOOLEAN]

\* The variables have their types.
TypeOK ==
  /\ rq \in [Client -> {"idle", "passed", "sent"}] /\ kind \in [Client -> Kinds]
  /\ overtaken \subseteq Client
  /\ deny \in BOOLEAN
  /\ port \in Seq(Client) /\ queue \in Seq(Client)
  /\ cur \in Client \cup {None} /\ owed \subseteq Client
  /\ pc \in {"startup", "inquiry", "pump", "reap", "tmf", "tmcmd", "reset", "cmd", "chunk",
             "fetch", "dispatch", "bind", "direct", "bulk", "claimed", "scmd", "sstat",
             "sdata", "drained", "flush", "taskwait", "wait", "free", "off"}
  /\ ctx \in {"main", "drain", "claim"} /\ at \in 0..NumTags
  /\ sigs \subseteq {"unit", "task", "break"}
  /\ depth \in {0, NumTags} /\ reserved \in BOOLEAN
  /\ tag \in [Tag -> TagType]
  /\ tm \in [pipe : 0..TMStream, target : 0..NumTags, res : {"off", "wire", "good", "bad"}]
  /\ dev \in [Tag -> SUBSET {"old", "cur"}] /\ doubt \in BOOLEAN
  /\ sends \in 0..MaxSends /\ releases \in 0..MaxReleases

\* How many structures of the unit hold a request.
Holders(c) == Cardinality({i \in DOMAIN port : port[i] = c})
              + Cardinality({i \in DOMAIN queue : queue[i] = c})
              + Cardinality({t \in Tag : tag[t].req = c})
              + (IF cur = c THEN 1 ELSE 0) + (IF c \in owed THEN 1 ELSE 0)

\* A request that was sent is held in exactly one place until it is replied,
\* once, and in none afterwards, when it is the client's memory again:
\* whatever AbortIO, the dispatcher, a reset, a flush and a release of the
\* binding do with it (devAbortIO, nUasFinalizeTag, nFreeMS).
HeldOnce == \A c \in Client :
              Holders(c) = (IF rq[c] = "sent" THEN 1 ELSE 0)

\* The status pipe of a tag is not on the wire for a command while the device
\* may still answer an older command with that tag (the quarantine,
\* nUasFinalizeTag), but where a reset was not to be had or a command IU was
\* reported lost.
NoStaleStatus == \A t \in Tag : tag[t].status = "wire" /\ "old" \in dev[t] => doubt

\* The status pipe that carries a task management transfer carries no command
\* (nUasFreeTag, nUasIssueTMF).
TMAlone == tm.pipe \in Tag => tag[tm.pipe].st = "free" /\ tag[tm.pipe].status # "wire"

\* A status that comes in is taken for the command it belongs to: no pipe waits
\* for two answers, of commands or of task management, whatever was aborted,
\* timed out or reset.
StatusIsOwn == NoStaleStatus /\ TMAlone

\* UCM_AttemptSuspendDevice, asked by another task at any time.
AgreesToSuspend == ctx # "claim" /\ pc # "inquiry" /\ TagsIdle

OnTheWire == \/ pc \in {"startup", "inquiry", "cmd", "chunk", "tmcmd", "scmd", "bulk"}
             \/ tm.res = "wire"
             \/ \E t \in Tag : tag[t].status = "wire" \/ tag[t].data = "wire"

\* Where the engine is taken for idle, it is.  A command that changes the medium
\* is on the wire alone: the barrier waited for every tag, also for those whose
\* command the device still owned (nUasDrainTags).  And once the unit has started
\* up it agrees to a suspend only while no transfer of it is on the wire; the reset
\* of the startup raises no ncm_CmdBusy, and a suspend is agreed to beside it.
IdleMeansQuiet ==
  /\ (pc \in {"scmd", "sstat", "sdata"} /\ kind[cur] = "stop")
        => \A t \in Tag \ {at} : tag[t].st = "free" /\ (dev[t] = {} \/ doubt)
  /\ AgreesToSuspend => ~OnTheWire \/ pc = "startup"

\* A request stays behind in the unit's port without a task to serve it only
\* if the release of the binding overtook its BeginIO, between the test of
\* ncm_DenyRequests and the PutMsg.
StrandedOnlyIfOvertaken ==
  pc = "off" => queue = <<>> /\ InSeq(port) \subseteq overtaken

Stranded(c) == pc = "off" /\ c \in InSeq(port)

\* No task management stream, and two tags that wait for task management.
Wedged == ~reserved /\ Cardinality(Quarantine) > 1

\* Every request is answered, aborted or not, whatever the device answers and
\* whatever times out, unless it is stranded or the unit is wedged.
EveryRequestAnswered ==
  \A c \in Client : rq[c] = "sent" ~> (rq[c] = "idle" \/ Stranded(c) \/ Wedged)

\* The comment at nUasDrainTags: the drain is bounded by the NAK timeout of the
\* task management pipe and, past that, by the reset escalation.
DrainEnds == (pc = "taskwait" /\ ctx = "drain") ~> (ctx # "drain" \/ pc = "free")
=============================================================================
