----------------------------- MODULE EveningChain -----------------------------
(***************************************************************************)
(* The evening chain of one business date: the queue deliveries that work  *)
(* on post_pipeline_chain and post_verify_chain, the verify job one of     *)
(* them dispatches, the callbacks, the lifecycle watchdog and the manual   *)
(* repair of verify_v2.                                                    *)
(*                                                                         *)
(* A delivery of a queue message is the worker that handles it.  A message *)
(* is a number, handed out in order, post_verify ones from a range of their*)
(* own; attempt n of message m claims stage s under the owner id           *)
(* <<m, n, s>>.  Worker 0 is the manual repair.                            *)
(*                                                                         *)
(* The stage table is that of PipelineStageLease: a step here that writes  *)
(* a row is one of its statements.  The run whose chain this is, Run, is   *)
(* the one that pipeline_execution closed with success; the repair runs    *)
(* under an id of its own when it finds a failed row of another run.       *)
(*                                                                         *)
(* What does not go straight on, a crash, an error, a lost answer, a pause *)
(* for the snapshot, a repair, is a detour; there are at most MaxDetours.  *)
(* Not counted are the death of a repair that runs, and a pause while a    *)
(* worker that has lost its lease still goes on.                           *)
(*                                                                         *)
(* The research gate is that of the deployed configuration,                *)
(* PAPER_DAILY_PLAN_OWNER = premarket_once_v1.  Of the lifecycle's states  *)
(* the model keeps what the watchdog tells apart; the replay states are    *)
(* one.                                                                    *)
(*                                                                         *)
(* An operator whose name ends in _Something is a wrong version of the one *)
(* that follows it, kept to show which property notices the mistake.       *)
(***************************************************************************)
EXTENDS StageRow, Integers

CONSTANTS
  Run, RepairRun,     \* the canonical run ids
  MaxChain,           \* bound: post_pipeline and recovery messages
  MaxVerify,          \* bound: post_verify messages
  MaxAttempts,        \* the consumer's max_retries
  MaxRedispatches,    \* POST_VERIFY_WATCHDOG_MAX_REDISPATCHES
  MaxDetours          \* bound: detours in one behaviour

Execution    == "pipeline_execution"
PostPipeline == "post_pipeline_chain"
Verify       == "verify_v2"
PostVerify   == "post_verify_chain"

Messages == 1 .. MaxChain + MaxVerify
Repair   == 0
Workers  == {Repair} \union Messages

(* The id of the verify job: a hash of the date and of the snapshot's run   *)
(* or, for a repair, of the row's canonical run.                            *)
Producer(by, run) == [by |-> by, run |-> run]
Producers == [by : {"chain", "repair"}, run : Runs]

ASSUME RunsAssumption == {Run, RepairRun} \subseteq Runs /\ Run # RepairRun
ASSUME OwnersAssumption == Workers \X (0 .. MaxAttempts) \X {PostPipeline, Verify, PostVerify} \subseteq Owners
ASSUME CursorsAssumption == Producers \subseteq Cursors
ASSUME BoundsAssumption ==
  {MaxChain, MaxVerify, MaxAttempts, MaxRedispatches, MaxDetours} \subseteq Nat

VARIABLES
  stages,        \* the stage table
  issued,        \* its history of claims
  pc,            \* [Workers -> where the message and its delivery are]
  mail,          \* [Workers -> the message: kind, run, failed attempts]
  executions,    \* the verify job's executions, by producer id
  answers,       \* verify callbacks posted and not yet handled
  continuing,    \* verify callbacks between marking verify_v2 and queuing post_verify
  closedBy,      \* history: the producer whose answer closed verify_v2 with success
  researchable,  \* runs whose plan is published and whose session has closed
  backfills,     \* snapshot backfills that have not called back
  lifecycle,     \* allocator_ev_daily_lifecycle: before, at or past verify_triggered
  redispatches,  \* the watchdog's counter in KV
  detours

queue == <<pc, mail>>
verify == <<executions, answers, continuing, closedBy>>
chain == <<researchable, backfills, lifecycle, redispatches>>
vars == <<stages, issued, queue, verify, chain, detours>>

Table == INSTANCE PipelineStageLease WITH
  Stages   <- {Execution, PostPipeline, Verify, PostVerify},
  learning <- [run |-> None, live |-> FALSE]

(* The result a worker is about to write to its stage.                      *)
Result == [endSuccess |-> "success", endWaiting |-> "waiting", endError |-> "error"]

Dispatching == {"dispatch", "claimed", "cursored", "called", "callFailed"}
Tasks   == {"chain", "triggered", "recording", "tasks"} \union Dispatching
Holding == Tasks \union {"failing"} \union DOMAIN Result
Working == {"resumed"} \union Holding
Idle    == {"unused", "sending", "queued", "delayed", "acked", "gaveUp", "unsent", "dead", "lost"}

Kinds == {PostPipeline, PostVerify, "recovery"}

TypeOK ==
  /\ Table!TypeOK
  /\ pc \in [Workers -> Idle \union Working]
  /\ mail \in [Workers -> [kind : Kinds, run : Runs, failed : 0 .. MaxAttempts]]
  /\ executions \subseteq Producers
  /\ answers \subseteq [producer : Producers, status : {"success", "error"}]
  /\ continuing \subseteq [run : Runs, producer : Producers]
  /\ closedBy \in Producers \union {None}
  /\ researchable \subseteq Runs
  /\ backfills \in 0 .. MaxDetours
  /\ lifecycle \in {"open", "verify_triggered", "replay"}
  /\ redispatches \in 0 .. MaxRedispatches
  /\ detours \in 0 .. MaxDetours

Init ==
  /\ Table!Init
  /\ pc = [w \in Workers |-> "unused"]
  /\ mail = [w \in Workers |-> [kind |-> PostPipeline, run |-> Run, failed |-> 0]]
  /\ executions = {} /\ answers = {} /\ continuing = {} /\ closedBy = None
  /\ researchable = {}
  /\ backfills = 0 /\ lifecycle = "open" /\ redispatches = 0
  /\ detours = 0
-----------------------------------------------------------------------------
Detour   == detours < MaxDetours /\ detours' = detours + 1
Straight == UNCHANGED detours
Rows     == <<stages, issued>>

(* The stage a delivery works on, and its claim of a stage.                 *)
StageOf(w)  == IF mail[w].kind = "recovery" THEN PostPipeline ELSE mail[w].kind
Owner(w, s) == <<w, mail[w].failed, s>>
Holds(w)    == HeldBy(stages[StageOf(w)], mail[w].run, Owner(w, StageOf(w)))
Goto(w, from, to) == pc[w] = from /\ pc' = [pc EXCEPT ![w] = to] /\ UNCHANGED mail

Numbers(kind) == IF kind = PostVerify THEN MaxChain + 1 .. MaxChain + MaxVerify ELSE 1 .. MaxChain
Unused(m, kind) ==
  /\ m \in Numbers(kind) /\ pc[m] = "unused"
  /\ \A n \in Numbers(kind) : n < m => pc[n] # "unused"
Envelope(kind, run) == [kind |-> kind, run |-> run, failed |-> 0]

(* postPipelineResearchAllowed: whoever queues post_pipeline_chain asks it, *)
(* for the run it was called with, and so does the consumer, for the run of *)
(* its message.  A publication is written once and never changed, and the   *)
(* clock goes on, so the gate of a run that has opened stays open; a        *)
(* question that throws is a crash.                                         *)
ResearchAllowed(run) == run \in researchable

(* queuePostPipelineStage and queuePostVerifyStage: a row that was queued   *)
(* gets a message; the send is a step of its own.                           *)
Post(kind, run) ==
  \E m \in Messages :
    /\ Unused(m, kind)
    /\ pc' = [pc EXCEPT ![m] = "sending"]
    /\ mail' = [mail EXCEPT ![m] = Envelope(kind, run)]

Send(m) ==
  /\ Goto(m, "sending", "queued")
  /\ Straight
  /\ UNCHANGED <<Rows, verify, chain>>

SendThrows(m) ==
  LET s == StageOf(m) IN
  /\ Goto(m, "sending", "unsent")
  /\ IF MarkWhere(stages[s], SendFailedMark(mail[m].run))
     THEN Table!MarkFenced(s, SendFailedMark(mail[m].run)) ELSE UNCHANGED Rows
  /\ Detour
  /\ UNCHANGED <<verify, chain>>

(* The isolate dies between queuing the row and sending the message.        *)
SenderDies(m) ==
  /\ Goto(m, "sending", "lost")
  /\ Detour
  /\ UNCHANGED <<Rows, verify, chain>>
-----------------------------------------------------------------------------
(* Deliveries.                                                              *)
(* allocator_ev_lifecycle_recovery: queuePostPipelineStage for the row's    *)
(* run, whichever it is; an absent row is inserted.                         *)
ReceiveRecovery(m) ==
  LET s == PostPipeline IN
  /\ pc[m] = "queued" /\ mail[m].kind = "recovery"
  /\ \/ /\ ResearchAllowed(mail[m].run)
        /\ Table!EnqueueInsert(s, mail[m].run) \/ Table!EnqueueResume(s, None)
        /\ pc' = [pc EXCEPT ![m] = "sending"]
        /\ mail' = [mail EXCEPT ![m] = Envelope(s, stages'[s].run)]
     \/ /\ ResearchAllowed(mail[m].run) => Present(stages[s]) /\ ~Resumable(stages[s])
        /\ pc' = [pc EXCEPT ![m] = "acked"]
        /\ UNCHANGED <<Rows, mail>>
  /\ Straight
  /\ UNCHANGED <<verify, chain>>

(* enqueuePipelineStage with the message's run as expected canonical run; a *)
(* message of another run is stale, and one of post_pipeline whose gate is  *)
(* closed is acknowledged.                                                  *)
Resume(m) ==
  LET s      == StageOf(m)
      closed == s = PostPipeline /\ ~ResearchAllowed(mail[m].run) IN
  /\ mail[m].kind # "recovery"
  /\ \/ closed /\ Goto(m, "queued", "acked") /\ UNCHANGED Rows
     \/ ~closed /\ Goto(m, "queued", "resumed") /\ Table!EnqueueResume(s, mail[m].run)
     \/ /\ ~closed /\ ~ResumeWhere(stages[s], mail[m].run)
        /\ Goto(m, "queued", IF stages[s].run = mail[m].run THEN "resumed" ELSE "acked")
        /\ UNCHANGED Rows
  /\ Straight
  /\ UNCHANGED <<verify, chain>>

ClaimStage(m) ==
  /\ Goto(m, "resumed", "chain")
  /\ Table!Claim(StageOf(m), mail[m].run, Owner(m, StageOf(m)))
  /\ Straight
  /\ UNCHANGED <<verify, chain>>

(* The queue delivers a failed message again, up to max_retries.            *)
Retry_Unlimited(m, to) ==
  /\ pc' = [pc EXCEPT ![m] = to]
  /\ mail' = [mail EXCEPT ![m].failed = @ + 1]
Retry(m, to) ==
  IF mail[m].failed < MaxAttempts
  THEN /\ pc' = [pc EXCEPT ![m] = to]
       /\ mail' = [mail EXCEPT ![m].failed = @ + 1]
  ELSE /\ pc' = [pc EXCEPT ![m] = "dead"]
       /\ UNCHANGED mail

(* The claim found nothing to claim.  post_pipeline acknowledges.  post_    *)
(* verify retries while a worker of the same run holds the stage, and is    *)
(* delivered when the lease it saw has run out or the worker has renewed it.*)
Blocked(m) == stages[StageOf(m)].status = "running" /\ stages[StageOf(m)].run = mail[m].run
ClaimFails_Acks(m) ==
  /\ ~ClaimWhere(stages[StageOf(m)], mail[m].run)
  /\ Goto(m, "resumed", "acked")
  /\ Straight
  /\ UNCHANGED <<Rows, verify, chain>>
ClaimFails(m) ==
  /\ pc[m] = "resumed"
  /\ ~ClaimWhere(stages[StageOf(m)], mail[m].run)
  /\ IF mail[m].kind = PostVerify /\ Blocked(m) THEN Retry(m, "delayed")
                                                ELSE Goto(m, "resumed", "acked")
  /\ Straight
  /\ UNCHANGED <<Rows, verify, chain>>

Alive(o) == \E w \in Workers, s \in {PostPipeline, Verify, PostVerify} :
              o = Owner(w, s) /\ pc[w] \in Working
Redeliver(m) ==
  /\ Goto(m, "delayed", "queued")
  /\ LeaseLive(stages[PostVerify]) => Alive(stages[PostVerify].owner)
  /\ Straight
  /\ UNCHANGED <<Rows, verify, chain>>

(* The isolate is evicted, or something throws before the claim.            *)
Crash(m) ==
  /\ pc[m] \in {"queued"} \union Working
  /\ Retry(m, "queued")
  /\ Detour
  /\ UNCHANGED <<Rows, verify, chain>>

(* assertActive fails: the stale worker stops and its message is            *)
(* acknowledged.  A heartbeat that D1 fails is taken for a lost lease too:  *)
(* the worker gives up a stage it holds.                                    *)
LeaseLost(m) ==
  /\ pc[m] \in Holding
  /\ ~Holds(m)
  /\ Goto(m, pc[m], "gaveUp")
  /\ Straight
  /\ UNCHANGED <<Rows, verify, chain>>
HeartbeatFails(m) ==
  /\ pc[m] \in Holding
  /\ Holds(m)
  /\ Goto(m, pc[m], "gaveUp")
  /\ Detour
  /\ UNCHANGED <<Rows, verify, chain>>

(* A task or a statement throws.                                            *)
Throws(m) ==
  /\ pc[m] \in Tasks /\ Goto(m, pc[m], "failing")
  /\ Detour
  /\ UNCHANGED <<Rows, verify, chain>>

Finish(m) ==
  LET s == StageOf(m) IN
  /\ \/ \E end \in DOMAIN Result :
          \/ /\ Goto(m, end, "acked")
             /\ Table!MarkFenced(s, OwnerMark(mail[m].run, Result[end], Owner(m, s), None, None))
          \/ Goto(m, end, "gaveUp") /\ ~Holds(m) /\ UNCHANGED Rows
     \/ /\ pc[m] = "failing" /\ Retry(m, "queued")
        /\ Table!MarkFenced(s, OwnerMark(mail[m].run, "error", Owner(m, s), None, None))
     \/ Goto(m, "failing", "gaveUp") /\ ~Holds(m) /\ UNCHANGED Rows
  /\ Straight
  /\ UNCHANGED <<verify, chain>>
-----------------------------------------------------------------------------
(* runPostPipelineCallbackChain: the snapshot.                              *)
InChain(m, kind, to) == mail[m].kind = kind /\ Goto(m, "chain", to)

SnapshotPending(m) ==
  /\ InChain(m, PostPipeline, "endWaiting")
  /\ backfills < MaxDetours /\ backfills' = backfills + 1
  /\ \/ Detour
     \/ (\E n \in Messages : pc[n] \in Holding /\ ~Holds(n)) /\ Straight
  /\ UNCHANGED <<Rows, verify, researchable, lifecycle, redispatches>>

(* The first failures send a recovery message and wait for it; the lifecycle*)
(* goes to error, whatever it was.                                          *)
SnapshotFails(m) ==
  /\ mail[m].kind = PostPipeline /\ pc[m] = "chain" /\ Holds(m)
  /\ \/ Goto(m, "chain", "endError")
     \/ \E n \in Messages :
          /\ Unused(n, "recovery")
          /\ pc' = [pc EXCEPT ![m] = "endWaiting", ![n] = "queued"]
          /\ mail' = [mail EXCEPT ![n] = Envelope("recovery", mail[m].run)]
  /\ lifecycle' = "open"
  /\ Detour
  /\ UNCHANGED <<Rows, verify, researchable, backfills, redispatches>>

(* The backfill's callback, possibly before the worker has marked the stage *)
(* waiting.                                                                 *)
BackfillDone ==
  /\ backfills > 0 /\ backfills' = backfills - 1
  /\ \/ /\ ResearchAllowed(Run) /\ Table!EnqueueResume(PostPipeline, Run)
        /\ Post(PostPipeline, Run)
     \/ /\ ~(ResearchAllowed(Run) /\ ResumeWhere(stages[PostPipeline], Run))
        /\ UNCHANGED <<Rows, queue>>
  /\ Straight
  /\ UNCHANGED <<verify, researchable, lifecycle, redispatches>>

BackfillFails ==
  /\ backfills > 0 /\ backfills' = backfills - 1
  /\ \/ /\ Table!MarkFenced(PostPipeline, CallbackMark(Run, "error", None))
        /\ UNCHANGED queue
     \/ /\ Table!MarkFenced(PostPipeline, CallbackMark(Run, "waiting", None))
        /\ \E m \in Messages :
             /\ Unused(m, "recovery")
             /\ pc' = [pc EXCEPT ![m] = "queued"]
             /\ mail' = [mail EXCEPT ![m] = Envelope("recovery", Run)]
     \/ /\ ~MarkWhere(stages[PostPipeline], CallbackMark(Run, "error", None))
        /\ UNCHANGED <<Rows, queue>>
  /\ Straight
  /\ UNCHANGED <<verify, researchable, lifecycle, redispatches>>
-----------------------------------------------------------------------------
(* Dispatching the verify job, from the chain or from the repair.           *)
PipelineWorks(m) ==
  [stage |-> PostPipeline, run |-> mail[m].run, status |-> "running", cursor |-> None, owner |-> Owner(m, PostPipeline)]

EnqueueVerify(m) ==
  LET run == mail[m].run IN
  /\ mail[m].kind = PostPipeline
  /\ \/ /\ Goto(m, "chain", "dispatch")
        /\ Table!AuthorizedInsert(Verify, run, PipelineWorks(m))
             \/ Table!AuthorizedTransition(Verify, run, PipelineWorks(m))
     \/ /\ ~Present(stages[Verify]) /\ ~Authorizes(stages[PostPipeline], PipelineWorks(m))
        /\ Goto(m, "chain", "failing")
        /\ UNCHANGED Rows
     \/ /\ Present(stages[Verify])
        /\ ~(Authorizes(stages[PostPipeline], PipelineWorks(m)) /\ TransitionWhere(stages[Verify], run, TRUE))
        /\ IF stages[Verify].run = run THEN Goto(m, "chain", "triggered")
                                       ELSE Goto(m, "chain", "failing")
        /\ UNCHANGED Rows
  /\ Straight
  /\ UNCHANGED <<verify, chain>>

By(w) == IF w = Repair THEN "repair" ELSE "chain"
ProducerOf(w) == Producer(By(w), mail[w].run)
After(w, to) == IF w = Repair THEN "acked" ELSE to

ClaimVerify(w) ==
  /\ \/ Goto(w, "dispatch", "claimed") /\ Table!Claim(Verify, mail[w].run, Owner(w, Verify))
     \/ /\ ~ClaimWhere(stages[Verify], mail[w].run)
        /\ Goto(w, "dispatch", After(w, "triggered"))
        /\ UNCHANGED Rows
  /\ Straight
  /\ UNCHANGED <<verify, chain>>

StoreCursor_Unfenced(w) ==
  /\ Goto(w, "claimed", "cursored")
  /\ Table!Write(Verify, CursorSet(stages[Verify], ProducerOf(w)))
  /\ Straight
  /\ UNCHANGED <<verify, chain>>
StoreCursor(w) ==
  /\ \/ Goto(w, "claimed", "cursored") /\ Table!SetCursor(Verify, mail[w].run, Owner(w, Verify), ProducerOf(w))
     \/ /\ ~CursorWhere(stages[Verify], mail[w].run, Owner(w, Verify))
        /\ Goto(w, "claimed", After(w, "failing"))
        /\ UNCHANGED Rows
  /\ Straight
  /\ UNCHANGED <<verify, chain>>

(* The call starts the job, or fails: because an execution is active,       *)
(* because it was not started or because only its answer was lost.          *)
CallVerify(w) ==
  /\ \/ /\ Goto(w, "cursored", "called")
        /\ executions' = executions \union {ProducerOf(w)}
        /\ Straight
     \/ /\ Goto(w, "cursored", "callFailed")
        /\ executions' \in {executions, executions \union {ProducerOf(w)}}
        /\ Detour
  /\ UNCHANGED <<Rows, answers, continuing, closedBy, chain>>

(* The dispatcher marks the row waiting, or error, unless the job's callback*)
(* came first.                                                              *)
DispatchMark_Unowned(w, status) ==
  [Mark(mail[w].run, status) EXCEPT !.cursor = ProducerOf(w)]
DispatchMark(w, status) == OwnerMark(mail[w].run, status, Owner(w, Verify), ProducerOf(w), None)
CallbackWon(w) ==
  stages[Verify].run = mail[w].run /\ stages[Verify].cursor = ProducerOf(w)
    /\ stages[Verify].status = "success"
MarkDispatched(w, from, status, to) ==
  /\ \/ Goto(w, from, to) /\ Table!MarkFenced(Verify, DispatchMark(w, status))
     \/ /\ ~MarkWhere(stages[Verify], DispatchMark(w, status))
        /\ Goto(w, from, IF CallbackWon(w) THEN to ELSE After(w, "failing"))
        /\ UNCHANGED Rows
  /\ Straight
  /\ UNCHANGED <<verify, chain>>
FinishDispatch(w) ==
  \/ MarkDispatched(w, "called", "waiting", After(w, "triggered"))
  \/ MarkDispatched(w, "callFailed", "error", After(w, "endError"))

(* recordAllocatorEvLifecycle reads the authority in one database, writes   *)
(* in another and reads the authority again.                                *)
Record(m) ==
  /\ Holds(m)
  /\ \/ mail[m].kind = PostPipeline /\ Goto(m, "triggered", "recording")
     \/ InChain(m, PostVerify, "recording")
  /\ Straight
  /\ UNCHANGED <<Rows, verify, chain>>
Recorded(m) ==
  LET post == mail[m].kind = PostPipeline IN
  /\ Goto(m, "recording", IF ~Holds(m) THEN "gaveUp" ELSE IF post THEN "endSuccess" ELSE "tasks")
  /\ lifecycle' = IF post /\ lifecycle = "open" THEN "verify_triggered"
                  ELSE IF post THEN lifecycle ELSE "replay"
  /\ Straight
  /\ UNCHANGED <<Rows, verify, researchable, backfills, redispatches>>

(* runVerifyV2Repair: what its statements queue depends on the row it reads *)
(* first; it goes on only if one of them did.                               *)
StartRepair ==
  LET row == stages[Verify] IN
  /\ pc[Repair] = "unused"
  /\ pc' = [pc EXCEPT ![Repair] = "dispatch"]
  /\ \/ Table!EnqueueInsert(Verify, RepairRun)
     \/ row.status = "error" /\ row.run # RepairRun /\ Table!EnqueueAdopt(Verify, RepairRun)
     \/ row.status = "error" /\ row.run = RepairRun /\ Table!EnqueueResume(Verify, None)
     \/ row.status = "waiting" /\ Table!EnqueueResume(Verify, row.run)
  /\ mail' = [mail EXCEPT ![Repair].run = stages'[Verify].run]
  /\ Detour
  /\ UNCHANGED <<verify, chain>>
RepairDies ==
  /\ pc[Repair] \in Dispatching /\ Goto(Repair, pc[Repair], "acked")
  /\ Straight
  /\ UNCHANGED <<Rows, verify, chain>>
-----------------------------------------------------------------------------
(* The verify job posts one answer, or dies.                                *)
VerifyEnds(p) ==
  /\ p \in executions
  /\ executions' = executions \ {p}
  /\ \/ answers' = answers \union {[producer |-> p, status |-> "success"]} /\ Straight
     \/ answers' = answers \union {[producer |-> p, status |-> "error"]} /\ Detour
     \/ UNCHANGED answers /\ Detour
  /\ UNCHANGED <<Rows, queue, continuing, closedBy, chain>>

(* The callback route reads the row's run and marks it; fenced by that run  *)
(* and the cursor, the mark acts as if both were one statement.             *)
ClosedBy(a) == closedBy' = IF a.status = "success" THEN a.producer ELSE closedBy
HandleAnswer_AnyProducer(a) ==
  LET run == stages[Verify].run IN
  /\ a \in answers
  /\ answers' = answers \ {a}
  /\ \/ Table!MarkFenced(Verify, CallbackMark(run, a.status, None)) /\ ClosedBy(a)
     \/ ~MarkWhere(stages[Verify], CallbackMark(run, a.status, None)) /\ UNCHANGED <<Rows, closedBy>>
  /\ continuing' = IF a.status = "success" /\ run # None
                   THEN continuing \union {[run |-> run, producer |-> a.producer]} ELSE continuing
  /\ Straight
  /\ UNCHANGED <<queue, executions, chain>>
HandleAnswer(a) ==
  LET run  == stages[Verify].run
      mark == CallbackMark(run, a.status, a.producer) IN
  /\ a \in answers
  /\ answers' = answers \ {a}
  /\ \/ /\ Table!MarkFenced(Verify, mark) /\ ClosedBy(a)
        /\ continuing' = IF a.status = "success"
                         THEN continuing \union {[run |-> run, producer |-> a.producer]} ELSE continuing
     \/ /\ ~MarkWhere(stages[Verify], mark)
        /\ UNCHANGED <<Rows, continuing, closedBy>>
  /\ Straight
  /\ UNCHANGED <<queue, executions, chain>>

Verified(run, producer) ==
  [stage |-> Verify, run |-> run, status |-> "success", cursor |-> producer, owner |-> None]

(* queuePostVerifyStage under the authority of the verify success.          *)
QueuePostVerify_Unauthorized(run, producer) ==
  \/ /\ \/ Table!EnqueueInsert(PostVerify, run)
        \/ Table!EnqueueAdopt(PostVerify, run)
        \/ Table!EnqueueSupersede(PostVerify, run)
     /\ Post(PostVerify, run)
  \/ UNCHANGED <<Rows, queue>>
QueuePostVerify(run, producer) ==
  LET a == Verified(run, producer) IN
  \/ /\ Table!AuthorizedInsert(PostVerify, run, a) \/ Table!AuthorizedTransition(PostVerify, run, a)
     /\ Post(PostVerify, run)
  \/ /\ ~Authorizes(stages[Verify], a)
          \/ (Present(stages[PostVerify]) /\ ~TransitionWhere(stages[PostVerify], run, TRUE))
     /\ UNCHANGED <<Rows, queue>>

Continue(h) ==
  /\ h \in continuing
  /\ continuing' = continuing \ {h}
  /\ QueuePostVerify(h.run, h.producer)
  /\ Straight
  /\ UNCHANGED <<executions, answers, closedBy, chain>>
HandlerDies(h) ==
  /\ h \in continuing
  /\ continuing' = continuing \ {h}
  /\ Detour
  /\ UNCHANGED <<Rows, queue, executions, answers, closedBy, chain>>
-----------------------------------------------------------------------------
(* runPostVerifyCallbackChain: its tasks are one step but for the record of *)
(* the lifecycle, which newer configurations skip.  A waiting stage is      *)
(* closed by the strategy-learning run it waits for.                        *)
PostVerifyTasks(m) ==
  /\ mail[m].kind = PostVerify
  /\ \E from \in {"chain", "tasks"}, end \in {"endSuccess", "endWaiting"} : Goto(m, from, end)
  /\ Straight
  /\ UNCHANGED <<Rows, verify, chain>>

LearningCloses ==
  /\ stages[PostVerify].status = "waiting"
  /\ Table!MarkFenced(PostVerify, CallbackMark(stages[PostVerify].run, "success", None))
  /\ Straight
  /\ UNCHANGED <<queue, verify, chain>>
-----------------------------------------------------------------------------
(* The pipeline: reserved, and closed by its success callback, which queues *)
(* the chain; the post-close dispatch may queue it again.                   *)
StartPipeline ==
  /\ Table!Reserve(Run, None)
  /\ Straight
  /\ UNCHANGED <<queue, verify, chain>>
PipelineSucceeds ==
  /\ Table!Accept(Run, "success")
  /\ stages[Execution].status = "running"
  /\ Straight
  /\ UNCHANGED <<queue, verify, chain>>
(* The publication of the run is recorded before its success callback, and  *)
(* the session of its trade date closes.                                    *)
ResearchOpens ==
  /\ stages[Execution].run = Run /\ ~ResearchAllowed(Run)
  /\ researchable' = researchable \union {Run}
  /\ Straight
  /\ UNCHANGED <<Rows, queue, verify, backfills, lifecycle, redispatches>>
PipelineDone == [stage |-> Execution, run |-> Run, status |-> "success", cursor |-> None, owner |-> None]
QueuePostPipeline_BeforeClose ==
  /\ Table!AuthorizedInsert(PostPipeline, Run, PipelineDone)
  /\ Post(PostPipeline, Run)
  /\ Straight
  /\ UNCHANGED <<verify, chain>>
QueuePostPipeline ==
  /\ ResearchAllowed(Run)
  /\ \/ Table!AuthorizedInsert(PostPipeline, Run, PipelineDone) /\ Straight
     \/ Table!AuthorizedTransition(PostPipeline, Run, PipelineDone) /\ Detour
  /\ Post(PostPipeline, Run)
  /\ UNCHANGED <<verify, chain>>

(* runAllocatorEvLifecycleWatchdog, for each kind of lifecycle.  Its reads  *)
(* come before its statements, which read again what they rely on.          *)
Incomplete(r) == r.run = Run /\ (r.status = "error" \/ Expired(r))
WatchdogPostVerify ==
  LET verified == stages[Verify] IN
  /\ lifecycle = "verify_triggered"
  /\ verified.status = "success" /\ verified.run = Run /\ verified.cursor # None
  /\ Incomplete(stages[PostVerify]) => redispatches < MaxRedispatches
  /\ redispatches' = IF Incomplete(stages[PostVerify]) THEN redispatches + 1 ELSE redispatches
  /\ QueuePostVerify(Run, verified.cursor)
  /\ Straight
  /\ UNCHANGED <<verify, researchable, backfills, lifecycle>>
WatchdogPostPipeline ==
  /\ lifecycle = "open" /\ ResearchAllowed(Run)
  /\ Table!EnqueueResume(PostPipeline, Run)
  /\ Post(PostPipeline, Run)
  /\ Straight
  /\ UNCHANGED <<verify, chain>>
WatchdogCloses ==
  /\ lifecycle \in {"verify_triggered", "replay"}
  /\ stages[PostPipeline].status = "waiting"
  /\ Table!MarkFenced(PostPipeline, CallbackMark(Run, "success", None))
  /\ Straight
  /\ UNCHANGED <<queue, verify, chain>>

(* A lease runs out when its worker is gone, or when the worker stalls.     *)
LeaseRunsOut(s) ==
  /\ Table!ExpireLease(s)
  /\ ~Alive(stages[s].owner)
  /\ Straight
  /\ UNCHANGED <<queue, verify, chain>>
WorkerStalls(s) ==
  /\ Table!ExpireLease(s)
  /\ Alive(stages[s].owner)
  /\ Detour
  /\ UNCHANGED <<queue, verify, chain>>
-----------------------------------------------------------------------------
(* What a delivery does when nothing gets in its way.                       *)
Proceed(m) ==
  \/ Send(m) \/ ReceiveRecovery(m) \/ Resume(m) \/ ClaimStage(m) \/ ClaimFails(m)
  \/ Redeliver(m) \/ LeaseLost(m)
  \/ EnqueueVerify(m) \/ Record(m) \/ Recorded(m) \/ PostVerifyTasks(m) \/ Finish(m)
Dispatch(w) == ClaimVerify(w) \/ StoreCursor(w) \/ CallVerify(w) \/ FinishDispatch(w)
Stray(m) ==
  \/ SendThrows(m) \/ SenderDies(m) \/ Crash(m) \/ HeartbeatFails(m) \/ Throws(m)
  \/ SnapshotPending(m) \/ SnapshotFails(m)
Pipeline == StartPipeline \/ PipelineSucceeds \/ ResearchOpens \/ QueuePostPipeline
Watchdog == WatchdogPostVerify \/ WatchdogPostPipeline \/ WatchdogCloses

Next ==
  \/ \E m \in Messages : Proceed(m) \/ Stray(m)
  \/ \E w \in Workers : Dispatch(w)
  \/ \E p \in Producers : VerifyEnds(p)
  \/ \E a \in answers : HandleAnswer(a)
  \/ \E h \in continuing : Continue(h) \/ HandlerDies(h)
  \/ BackfillDone \/ BackfillFails \/ LearningCloses
  \/ Pipeline \/ Watchdog \/ StartRepair \/ RepairDies
  \/ \E s \in {PostPipeline, Verify, PostVerify} : LeaseRunsOut(s) \/ WorkerStalls(s)

Spec == Init /\ [][Next]_vars

(* The queue delivers, workers go on, cron ticks, a dead worker's lease runs*)
(* out: as long as one of these can happen, one of them does.  Nothing says *)
(* that the job answers or that a backfill calls back.                      *)
Progress ==
  \/ \E m \in Messages : Proceed(m)
  \/ \E w \in Workers : Dispatch(w)
  \/ \E h \in continuing : Continue(h)
  \/ WatchdogPostVerify
  \/ \E s \in {PostPipeline, Verify, PostVerify} : LeaseRunsOut(s)
Fairness == WF_vars(Progress)

FairSpec == Spec /\ Fairness
-----------------------------------------------------------------------------
(* Every write of the chain is a statement of the stage table, so all that  *)
(* PipelineStageLease promises of its statements holds for these callers.   *)
(* (updateOrchestrator.ts, postMarketChain.ts, adminControlRoutes.ts and    *)
(* allocatorEvDailyLifecycle.ts write the rows of these stages only through *)
(* pipelineStageLease.ts.)  This is Table!Spec, with the steps that leave   *)
(* the rows alone told apart first, which spares TLC the search.            *)
TableSpec == Table!Init /\ [][Rows' = Rows \/ Table!Next]_(Table!vars)

(* post_verify_chain is given to a run only at a moment when verify_v2 is   *)
(* closed with success for that same run, whoever queues it: the callback,  *)
(* which decided before it, or the watchdog, while the repair and the chain *)
(* take verify_v2 from each other.  (queuePostVerifyStage's authority.)     *)
PostVerifyFollowsVerify ==
  [][stages'[PostVerify].run # stages[PostVerify].run =>
       stages[Verify].status = "success" /\ stages[Verify].run = stages'[PostVerify].run]_vars

(* The answer that closed verify_v2 came from the job whose id the row      *)
(* records, and that job was started for the row's run: not from a job of   *)
(* the run that held the row before, nor from the chain's job after the     *)
(* repair has started another for the same run.  A dispatch repeated by the *)
(* same party for the same run has the same id, and the answer of the first *)
(* one counts for both.  (The cursor fence of the verify callback.)         *)
VerifyClosedByItsDispatch ==
  stages[Verify].status = "success" =>
    /\ closedBy # None /\ closedBy = stages[Verify].cursor
    /\ closedBy.run = stages[Verify].run

(* The answer of the verify job may come before the worker that started the *)
(* job has noted that it waits; the note never covers the answer.  (The     *)
(* owner fence of the dispatcher's finalizer, postMarketChain.ts.)          *)
VerifyAnswerIsKept ==
  [][stages[Verify].status \in {"success", "error"} => stages'[Verify].status # "waiting"]_vars

(* A queued stage has a message that will work on it, unless a worker died  *)
(* between queuing the row and sending, or the message ran out of retries.  *)
(* A queued row cannot be resumed, so one without a message stays so.       *)
(* (queuePostPipelineStage and queuePostVerifyStage mark it error when the  *)
(* send throws, and a run's post_pipeline_chain is queued only once its     *)
(* gate is open, so that the consumer, who acknowledges what it may not yet *)
(* research, never finds the gate closed.)                                  *)
Drives(m, s) ==
  /\ StageOf(m) = s /\ mail[m].run = stages[s].run
  /\ pc[m] \in {"sending", "queued", "delayed", "resumed", "dead", "lost"}
QueuedHasDriver ==
  \A s \in {PostPipeline, PostVerify} :
    stages[s].status = "queued" => \E m \in Messages : Drives(m, s)

(* A message whose stage another delivery holds for the same run is not     *)
(* acknowledged: it may be the only driver left when that delivery's worker *)
(* is dead.                                                                 *)
BlockedDeliveryIsNotAcked ==
  [][\A m \in Messages :
       pc[m] = "resumed" /\ Blocked(m) /\ LeaseLive(stages[StageOf(m)]) => pc'[m] # "acked"]_vars

(* Once verify_v2 succeeds for the run, its post_verify_chain completes or  *)
(* waits for strategy learning: through the callback, a retry or the        *)
(* watchdog, whichever worker dies.  What is left to an operator: a sender  *)
(* that died between row and message; and, once the lifecycle is past       *)
(* verify_triggered and the watchdog looks no more, a worker that gave up, a*)
(* send that threw, or a stage that had gone to the repair's run.           *)
(* (queuePostVerifyStage, the consumer's retries and                        *)
(* runAllocatorEvLifecycleWatchdog.)                                        *)
RunVerified == stages[Verify].status = "success" /\ stages[Verify].run = Run
FollowedUp  == stages[PostVerify].run = Run /\ stages[PostVerify].status \in {"waiting", "success"}
Stranded    ==
  \/ \E m \in Numbers(PostVerify) : pc[m] = "lost"
  \/ /\ lifecycle = "replay"
     /\ \/ \E m \in Numbers(PostVerify) : pc[m] \in {"gaveUp", "unsent"}
        \/ stages[PostVerify].run = RepairRun
BoundReached == \A m \in Numbers(PostVerify) : pc[m] # "unused"
VerifiedRunIsFollowedUp == RunVerified ~> FollowedUp \/ Stranded \/ BoundReached
=============================================================================
