-------------------------- MODULE EveningChainProofs --------------------------
(***************************************************************************)
(* The evening chain, whatever the bounds on messages, redeliveries and    *)
(* detours, in three parts.                                                *)
(*                                                                         *)
(* It implements the stage table.  A step of the chain is a statement of   *)
(* the table with arguments that the table allows, or leaves the rows      *)
(* alone; which arguments a worker passes depends on what its message, the *)
(* answers under way and the rows themselves hold, hence the invariant.    *)
(*                                                                         *)
(* Three properties are about one row and who may write it, so every step  *)
(* is looked at for its effect on the run of post_verify_chain and on the  *)
(* status and cursor of verify_v2.                                         *)
(*                                                                         *)
(* That a queued stage keeps a message that will work on it relates the    *)
(* rows to the messages: a step must give a row it queues a driver, and    *)
(* take none from the others.  Type correctness comes last.                *)
(***************************************************************************)
EXTENDS EveningChain, TLAPS

TableStages == {Execution, PostPipeline, Verify, PostVerify}

(* A row that is there, or has a cursor, names its run.                     *)
Named(r) == r \in Row /\ (Present(r) \/ r.cursor # None => r.run \in Runs)
RowsNamed == stages \in [TableStages -> Row] /\ \A s \in TableStages : Named(stages[s])

MailOK == mail \in [Workers -> [kind : Kinds, run : Runs, failed : 0 .. MaxAttempts]]
AnswersOK ==
  /\ executions \subseteq Producers
  /\ answers \subseteq [producer : Producers, status : {"success", "error"}]
  /\ continuing \subseteq [run : Runs, producer : Producers]

IInv == RowsNamed /\ MailOK /\ AnswersOK

StageNames == Execution # PostPipeline /\ Execution # Verify /\ Execution # PostVerify
                /\ PostPipeline # Verify /\ PostPipeline # PostVerify /\ Verify # PostVerify

LEMMA StagesDiffer == StageNames
BY DEF StageNames, Execution, PostPipeline, Verify, PostVerify
-----------------------------------------------------------------------------
(* Every statement of the table leaves rows that name their run.            *)
LEMMA QueuedIsNamed == \A run \in Runs : Named(Table!QueuedFor(run))
BY NoneAssumption DEF Named, Row, Statuses, Table!QueuedFor, Table!Absent, Present

LEMMA ReleasedIsNamed ==
  ASSUME NEW r, Named(r), r.run \in Runs, NEW status \in Statuses
  PROVE  Named(Table!Released(r, status))
BY DEF Named, Row, Table!Released, Statuses

LEMMA MarkedIsNamed ==
  ASSUME NEW r, Named(r), NEW s, NEW run \in Runs, NEW m \in Table!Marks(s, run), Table!MarkWhere(r, m)
  PROVE  Named(Table!MarkSet(r, m))
<1>1. m.run = run /\ m.status \in Statuses /\ m.next \in Cursors \union {None}
  <2>1. CASE m \in Table!OwnerMarks(s, run)
    <3>1. PICK status \in {"waiting", "success", "error"}, o \in Owners,
               c \in Cursors \union {None}, n \in Cursors \union {None} :
            m = Table!OwnerMark(run, status, o, c, n)
      BY <2>1 DEF Table!OwnerMarks
    <3>2. m.run = run /\ m.status = status /\ m.next = n
      BY <3>1 DEF Table!OwnerMark, Table!Mark
    <3> QED
      BY <3>2 DEF Statuses
  <2>2. CASE m \in Table!CallbackMarks(run)
    BY <2>2 DEF Table!CallbackMarks, Table!CallbackMark, Table!Mark, Statuses
  <2>3. CASE m = Table!SendFailedMark(run)
    BY <2>3 DEF Table!SendFailedMark, Table!Mark, Statuses
  <2> QED
    BY <2>1, <2>2, <2>3 DEF Table!Marks
<1>2. r.run \in Runs
  BY <1>1 DEF Table!MarkWhere
<1>3. Named(Table!Released(r, m.status)) /\ Table!Released(r, m.status).run \in Runs
  BY <1>1, <1>2, ReleasedIsNamed DEF Table!Released, Named, Row
<1>4. (IF m.next = None THEN r.cursor ELSE m.next) \in Cursors \union {None}
  BY <1>1 DEF Named, Row
<1> QED
  BY <1>3, <1>4 DEF Table!MarkSet, Named, Row

LEMMA WriteKeepsNames ==
  ASSUME RowsNamed, NEW s \in TableStages, NEW row, Named(row),
         stages' = [stages EXCEPT ![s] = row]
  PROVE  RowsNamed'
BY DEF RowsNamed, Named

LEMMA ChainStageIsStage == Table!ChainStages = {PostPipeline, Verify, PostVerify}
BY StagesDiffer DEF StageNames, Table!ChainStages, Table!Execution, Execution

LEMMA EnqueueKeepsNames ==
  ASSUME RowsNamed, NEW s \in TableStages, NEW run \in Runs, Table!Enqueue(s, run)
  PROVE  RowsNamed'
<1> DEFINE queued == Table!QueuedFor(run)
<1>1. Named(queued) /\ Named(stages[s])
  BY QueuedIsNamed DEF RowsNamed
<1>2. CASE stages' = [stages EXCEPT ![s] = queued]
  <2> HIDE DEF queued
  <2> QED
    BY <1>1, <1>2, WriteKeepsNames
<1>3. CASE \E expected \in {None, run} : Table!EnqueueResume(s, expected)
  <2> DEFINE new == Table!ResumeSet(stages[s])
  <2>1. stages' = [stages EXCEPT ![s] = new] /\ Table!Resumable(stages[s])
    BY <1>3 DEF Table!EnqueueResume, Table!Write, Table!ResumeWhere
  <2>2. stages[s].run \in Runs
    BY <1>1, <2>1 DEF Named, Present, Table!Resumable, Table!Expired
  <2>3. Named(new)
    BY <1>1, <2>2, ReleasedIsNamed DEF Table!ResumeSet, Statuses
  <2> HIDE DEF new
  <2> QED
    BY <2>1, <2>3, WriteKeepsNames
<1> QED
  BY <1>2, <1>3 DEF Table!Enqueue, Table!EnqueueInsert, Table!EnqueueAdopt, Table!EnqueueSupersede,
     Table!AuthorizedInsert, Table!AuthorizedTransition, Table!Write

LEMMA WorkKeepsNames ==
  ASSUME RowsNamed, NEW s \in TableStages, NEW run \in Runs, NEW o \in Owners, Table!Work(s, run, o)
  PROVE  RowsNamed'
<1> DEFINE r == stages[s]
<1>1. Named(r)
  BY DEF RowsNamed
<1>2. CASE \E named \in {None, run} : Table!Claim(s, named, o)
  <2> DEFINE new == Table!ClaimSet(r, o)
  <2>1. stages' = [stages EXCEPT ![s] = new] /\ Table!Present(r)
    BY <1>2 DEF Table!Claim, Table!Issue
  <2>2. Named(new)
    BY <1>1, <2>1 DEF Named, Row, Statuses, Holders, Present, Table!Present, Table!ClaimSet
  <2> HIDE DEF new
  <2> QED
    BY <2>1, <2>2, WriteKeepsNames
<1>3. CASE Table!Heartbeat(s, run, o)
  <2> DEFINE new == Table!HeartbeatSet(r)
  <2>1. stages' = [stages EXCEPT ![s] = new]
    BY <1>3 DEF Table!Heartbeat, Table!Write
  <2>2. Named(new)
    BY <1>1 DEF Named, Row, Present, Table!HeartbeatSet
  <2> HIDE DEF new
  <2> QED
    BY <2>1, <2>2, WriteKeepsNames
<1>4. ASSUME NEW cursor \in Cursors, Table!SetCursor(s, run, o, cursor)
      PROVE  RowsNamed'
  <2> DEFINE new == Table!CursorSet(r, cursor)
  <2>1. stages' = [stages EXCEPT ![s] = new] /\ r.run = run
    BY <1>4 DEF Table!SetCursor, Table!Write, Table!CursorWhere, Table!HeldBy
  <2>2. Named(new)
    BY <1>1, <2>1 DEF Named, Row, Present, Table!CursorSet
  <2> HIDE DEF new
  <2> QED
    BY <2>1, <2>2, WriteKeepsNames
<1> QED
  BY <1>2, <1>3, <1>4 DEF Table!Work

LEMMA MarkKeepsNames ==
  ASSUME RowsNamed, NEW s \in TableStages, NEW run \in Runs, NEW m \in Table!Marks(s, run),
         Table!MarkFenced(s, m)
  PROVE  RowsNamed'
<1> DEFINE new == Table!MarkSet(stages[s], m)
<1>1. stages' = [stages EXCEPT ![s] = new] /\ Table!MarkWhere(stages[s], m)
  BY DEF Table!MarkFenced, Table!Write
<1>2. Named(new)
  BY <1>1, MarkedIsNamed DEF RowsNamed
<1> HIDE DEF new
<1> QED
  BY <1>1, <1>2, WriteKeepsNames

LEMMA DispatchKeepsNames ==
  ASSUME RowsNamed, NEW run \in Runs, Table!Dispatch(run)
  PROVE  RowsNamed'
<1> DEFINE r == stages[Execution]
<1>1. Named(r) /\ Table!Execution = Execution /\ Execution \in TableStages
  BY DEF RowsNamed, Table!Execution, Execution, TableStages
<1>2. CASE \E expectedFailed \in Runs \union {None} : Table!Reserve(run, expectedFailed)
  <2> DEFINE new == Table!ReserveSet(run)
  <2>1. stages' = [stages EXCEPT ![Execution] = new]
    BY <1>1, <1>2 DEF Table!Reserve, Table!Issue
  <2>2. Named(new)
    BY <1>1 DEF Named, Row, Statuses, Holders, Present, Table!ReserveSet, Table!QueuedFor, Table!Absent
  <2> HIDE DEF new
  <2> QED
    BY <1>1, <2>1, <2>2, WriteKeepsNames
<1>3. ASSUME NEW execution \in Cursors \union {None}, Table!Commit(run, execution)
      PROVE  RowsNamed'
  <2> DEFINE new == Table!CommitSet(r, execution)
  <2>1. stages' = [stages EXCEPT ![Execution] = new] /\ r.run = run
    BY <1>1, <1>3 DEF Table!Commit, Table!Write, Table!CommitWhere, Table!HeldBy
  <2>2. Named(new)
    BY <1>1, <2>1 DEF Named, Row, Statuses, Table!CommitSet
  <2> HIDE DEF new
  <2> QED
    BY <1>1, <2>1, <2>2, WriteKeepsNames
<1>4. CASE Table!Fail(run)
  <2> DEFINE new == Table!FailSet(r)
  <2>1. stages' = [stages EXCEPT ![Execution] = new] /\ r.run = run
    BY <1>1, <1>4 DEF Table!Fail, Table!Write, Table!FailWhere
  <2>2. Named(new)
    BY <1>1, <2>1, ReleasedIsNamed DEF Table!FailSet, Statuses
  <2> HIDE DEF new
  <2> QED
    BY <1>1, <2>1, <2>2, WriteKeepsNames
<1>5. ASSUME NEW status \in {"success", "error"}, Table!Accept(run, status)
      PROVE  RowsNamed'
  <2> DEFINE new == Table!AcceptSet(r, status)
  <2>1. stages' = [stages EXCEPT ![Execution] = new] /\ r.run = run
    BY <1>1, <1>5 DEF Table!Accept, Table!Write, Table!AcceptWhere
  <2>2. Named(new)
    BY <1>1, <2>1, ReleasedIsNamed DEF Table!AcceptSet, Statuses
  <2> HIDE DEF new
  <2> QED
    BY <1>1, <2>1, <2>2, WriteKeepsNames
<1> QED
  BY <1>2, <1>3, <1>4, <1>5 DEF Table!Dispatch

LEMMA TableKeepsNames ==
  ASSUME RowsNamed, Table!Next
  PROVE  RowsNamed'
<1>1. Table!ChainStages \subseteq TableStages
  BY ChainStageIsStage DEF TableStages
<1>2. ASSUME NEW s \in TableStages, Table!ExpireLease(s)
      PROVE  RowsNamed'
  <2> DEFINE new == [stages[s] EXCEPT !.live = FALSE]
  <2>1. stages' = [stages EXCEPT ![s] = new]
    BY <1>2 DEF Table!ExpireLease, Table!Write
  <2>2. Named(new)
    BY DEF RowsNamed, Named, Row, Present
  <2> HIDE DEF new
  <2> QED
    BY <2>1, <2>2, WriteKeepsNames
<1>3. CASE Table!LearningWrites
  BY <1>3 DEF Table!LearningWrites, RowsNamed
<1> QED
  BY <1>1, <1>2, <1>3, EnqueueKeepsNames, WorkKeepsNames, MarkKeepsNames, DispatchKeepsNames
     DEF Table!Next, TableStages
-----------------------------------------------------------------------------
(* The arguments that the chain passes are among those the table allows.    *)
ChainNames == {PostPipeline, Verify, PostVerify}
NoWrite == UNCHANGED <<stages, issued>>

LEMMA EnqueueIsAllowed ==
  ASSUME NEW s \in ChainNames, NEW run \in Runs,
         \/ Table!EnqueueInsert(s, run) \/ Table!EnqueueAdopt(s, run)
         \/ \E expected \in {None, run} : Table!EnqueueResume(s, expected)
  PROVE  Table!Next
BY ChainStageIsStage DEF Table!Next, Table!Enqueue, ChainNames

LEMMA AuthorizedIsAllowed ==
  ASSUME NEW s \in ChainNames, NEW run \in Runs, NEW a \in Table!Authority(run), a.stage # s,
         Table!AuthorizedInsert(s, run, a) \/ Table!AuthorizedTransition(s, run, a)
  PROVE  Table!Next
BY ChainStageIsStage DEF Table!Next, Table!Enqueue, ChainNames

LEMMA ClaimIsAllowed ==
  ASSUME NEW s \in ChainNames, NEW run \in Runs, NEW o \in Owners, Table!Claim(s, run, o)
  PROVE  Table!Next
BY ChainStageIsStage DEF Table!Next, Table!Work, ChainNames

LEMMA CursorIsAllowed ==
  ASSUME NEW s \in ChainNames, NEW run \in Runs, NEW o \in Owners, NEW cursor \in Cursors,
         Table!SetCursor(s, run, o, cursor)
  PROVE  Table!Next
BY ChainStageIsStage DEF Table!Next, Table!Work, ChainNames

LEMMA OwnerMarkIsAllowed ==
  ASSUME NEW s \in ChainNames, NEW run \in Runs, NEW status \in {"waiting", "success", "error"},
         NEW o \in Owners, NEW cursor \in Cursors \union {None},
         Table!MarkFenced(s, OwnerMark(run, status, o, cursor, None))
  PROVE  Table!Next
<1> DEFINE m == OwnerMark(run, status, o, cursor, None)
<1>1. m = Table!OwnerMark(run, status, o, cursor, None)
  BY DEF OwnerMark, Mark, Table!OwnerMark, Table!Mark
<1>2. stages[s].owner = o
  BY <1>1, NoneAssumption DEF Table!MarkFenced, Table!MarkWhere, Table!OwnerMark, Table!Mark, Table!HeldBy
<1>3. m \in Table!Marks(s, run)
  BY <1>1, <1>2 DEF Table!Marks, Table!OwnerMarks
<1> HIDE DEF m
<1> QED
  BY <1>3, ChainStageIsStage DEF m, Table!Next, ChainNames

LEMMA CallbackMarkIsAllowed ==
  ASSUME NEW s \in ChainNames, NEW run \in Runs, NEW status \in {"waiting", "success", "error"},
         NEW cursor \in Cursors \union {None},
         Table!MarkFenced(s, CallbackMark(run, status, cursor))
  PROVE  Table!Next
<1> DEFINE m == CallbackMark(run, status, cursor)
<1>1. m = Table!CallbackMark(run, status, cursor)
  BY DEF CallbackMark, Mark, Table!CallbackMark, Table!Mark
<1>2. m \in Table!Marks(s, run)
  BY <1>1 DEF Table!Marks, Table!CallbackMarks
<1> HIDE DEF m
<1> QED
  BY <1>2, ChainStageIsStage DEF m, Table!Next, ChainNames

LEMMA SendFailedMarkIsAllowed ==
  ASSUME NEW s \in ChainNames, NEW run \in Runs, Table!MarkFenced(s, SendFailedMark(run))
  PROVE  Table!Next
<1> DEFINE m == SendFailedMark(run)
<1>1. m = Table!SendFailedMark(run)
  BY DEF SendFailedMark, Mark, Table!SendFailedMark, Table!Mark
<1>2. m \in Table!Marks(s, run)
  BY <1>1 DEF Table!Marks
<1> HIDE DEF m
<1> QED
  BY <1>2, ChainStageIsStage DEF m, Table!Next, ChainNames

LEMMA ExpiryIsAllowed ==
  ASSUME NEW s \in ChainNames, Table!ExpireLease(s)
  PROVE  Table!Next
BY DEF Table!Next, ChainNames

LEMMA PipelineIsAllowed ==
  ASSUME Table!Reserve(Run, None) \/ Table!Accept(Run, "success")
  PROVE  Table!Next
BY RunsAssumption DEF Table!Next, Table!Dispatch
-----------------------------------------------------------------------------
(* What the workers pass.                                                   *)
LEMMA WorkerFacts ==
  ASSUME MailOK, NEW w \in Workers
  PROVE  /\ mail[w].run \in Runs /\ mail[w].failed \in 0 .. MaxAttempts
         /\ StageOf(w) \in {PostPipeline, PostVerify}
         /\ \A s \in ChainNames : Owner(w, s) \in Owners
         /\ ProducerOf(w) \in Producers /\ ProducerOf(w) \in Cursors
<1>1. mail[w].run \in Runs /\ mail[w].failed \in 0 .. MaxAttempts /\ mail[w].kind \in Kinds
  BY DEF MailOK
<1>2. \A s \in ChainNames : Owner(w, s) \in Owners
  BY <1>1, OwnersAssumption DEF Owner, ChainNames
<1>3. ProducerOf(w) \in Producers
  BY <1>1 DEF ProducerOf, Producer, Producers, By
<1>4. StageOf(w) \in {PostPipeline, PostVerify}
  BY <1>1 DEF StageOf, Kinds
<1> QED
  BY <1>1, <1>2, <1>3, <1>4, CursorsAssumption

LEMMA MessagesWork == Messages \subseteq Workers /\ Repair \in Workers
BY DEF Workers

LEMMA PipelineWorksIsAuthority ==
  ASSUME MailOK, NEW m \in Workers, Authorizes(stages[PostPipeline], PipelineWorks(m))
  PROVE  PipelineWorks(m) \in Table!Authority(mail[m].run) /\ PipelineWorks(m).stage # Verify
<1>1. Owner(m, PostPipeline) \in Owners
  BY WorkerFacts DEF ChainNames
<1>2. stages[PostPipeline].owner = Owner(m, PostPipeline)
  BY <1>1, NoneAssumption DEF PipelineWorks, Authorizes, HeldBy
<1> QED
  BY <1>1, <1>2, StagesDiffer DEF PipelineWorks, Table!Authority, StageNames

LEMMA VerifiedIsAuthority ==
  ASSUME NEW run \in Runs, NEW producer \in Cursors
  PROVE  Verified(run, producer) \in Table!Authority(run) /\ Verified(run, producer).stage # PostVerify
BY StagesDiffer DEF Verified, Table!Authority, StageNames

LEMMA PipelineDoneIsAuthority ==
  PipelineDone \in Table!Authority(Run) /\ PipelineDone.stage # PostPipeline
BY StagesDiffer DEF PipelineDone, Table!Authority, StageNames
-----------------------------------------------------------------------------
(* What a step may do to mail and to the answers.                           *)
LEMMA EnvelopeKeepsMail ==
  ASSUME MailOK, NEW m \in Workers, NEW kind \in Kinds, NEW run \in Runs,
         mail' = [mail EXCEPT ![m] = Envelope(kind, run)]
  PROVE  MailOK'
BY BoundsAssumption DEF MailOK, Envelope

LEMMA PostKeepsMail ==
  ASSUME MailOK, NEW kind \in Kinds, NEW run \in Runs, Post(kind, run)
  PROVE  MailOK'
BY EnvelopeKeepsMail, MessagesWork DEF Post

LEMMA GotoKeepsMail ==
  ASSUME MailOK, NEW w, NEW from, NEW to, Goto(w, from, to)
  PROVE  MailOK'
BY DEF MailOK, Goto

LEMMA RetryKeepsMail ==
  ASSUME MailOK, NEW m \in Workers, NEW to, Retry(m, to)
  PROVE  MailOK'
<1>1. CASE mail[m].failed < MaxAttempts /\ mail' = [mail EXCEPT ![m].failed = @ + 1]
  <2>1. mail[m].failed + 1 \in 0 .. MaxAttempts
    BY <1>1, BoundsAssumption DEF MailOK
  <2> QED
    BY <1>1, <2>1 DEF MailOK
<1>2. CASE mail' = mail
  BY <1>2 DEF MailOK
<1> QED
  BY <1>1, <1>2 DEF Retry

LEMMA SameAnswers ==
  ASSUME AnswersOK, UNCHANGED verify
  PROVE  AnswersOK'
BY DEF AnswersOK, verify

(* What every step of the chain does.                                       *)
Allowed == (Table!Next \/ NoWrite) /\ MailOK' /\ AnswersOK'
-----------------------------------------------------------------------------
LEMMA SendingAllowed ==
  ASSUME IInv, NEW m \in Messages, Send(m) \/ SendThrows(m) \/ SenderDies(m)
  PROVE  Allowed
<1>1. MailOK' /\ AnswersOK'
  BY GotoKeepsMail, SameAnswers DEF IInv, Send, SendThrows, SenderDies
<1>2. CASE Send(m) \/ SenderDies(m)
  BY <1>1, <1>2 DEF Allowed, NoWrite, Send, SenderDies, Rows
<1>3. CASE SendThrows(m)
  <2>1. mail[m].run \in Runs /\ StageOf(m) \in ChainNames
    BY MessagesWork, WorkerFacts DEF IInv, ChainNames
  <2>2. Table!MarkFenced(StageOf(m), SendFailedMark(mail[m].run)) \/ UNCHANGED Rows
    BY <1>3 DEF SendThrows
  <2> QED
    BY <1>1, <2>1, <2>2, SendFailedMarkIsAllowed DEF Allowed, NoWrite, Rows
<1> QED
  BY <1>2, <1>3

LEMMA ReceivingAllowed ==
  ASSUME IInv, NEW m \in Messages, ReceiveRecovery(m) \/ Resume(m) \/ ClaimStage(m)
  PROVE  Allowed
<1>1. /\ m \in Workers /\ mail[m].run \in Runs /\ StageOf(m) \in ChainNames
      /\ Owner(m, StageOf(m)) \in Owners
  BY MessagesWork, WorkerFacts DEF IInv, ChainNames
<1>2. AnswersOK'
  BY SameAnswers DEF IInv, ReceiveRecovery, Resume, ClaimStage
<1>3. CASE ReceiveRecovery(m)
  <2>1. CASE Table!EnqueueInsert(PostPipeline, mail[m].run) /\ mail' = [mail EXCEPT ![m] = Envelope(PostPipeline, stages'[PostPipeline].run)]
    <3>1. Table!Next
      BY <1>1, <2>1, EnqueueIsAllowed DEF ChainNames
    <3>2. stages'[PostPipeline].run = mail[m].run
      BY <2>1 DEF Table!EnqueueInsert, Table!Write, Table!QueuedFor, Table!Absent, IInv, RowsNamed, TableStages
    <3> QED
      BY <1>1, <1>2, <2>1, <3>1, <3>2, EnvelopeKeepsMail DEF Allowed, IInv, Kinds
  <2>2. CASE Table!EnqueueResume(PostPipeline, None) /\ mail' = [mail EXCEPT ![m] = Envelope(PostPipeline, stages'[PostPipeline].run)]
    <3>1. Table!Next
      BY <1>1, <2>2, EnqueueIsAllowed DEF ChainNames
    <3>2. stages'[PostPipeline].run = stages[PostPipeline].run
      BY <2>2 DEF Table!EnqueueResume, Table!Write, Table!ResumeSet, Table!Released, IInv, RowsNamed, TableStages, Named, Row
    <3>3. stages[PostPipeline].run \in Runs
      BY <2>2 DEF Table!EnqueueResume, Table!ResumeWhere, Table!Resumable, Table!Expired, IInv, RowsNamed, TableStages, Named, Present
    <3> QED
      BY <1>1, <1>2, <2>2, <3>1, <3>2, <3>3, EnvelopeKeepsMail DEF Allowed, IInv, Kinds
  <2>3. CASE UNCHANGED <<Rows, mail>>
    BY <1>2, <2>3 DEF Allowed, NoWrite, Rows, IInv, MailOK
  <2> QED
    BY <1>3, <2>1, <2>2, <2>3 DEF ReceiveRecovery
<1>4. CASE Resume(m)
  <2>1. Table!EnqueueResume(StageOf(m), mail[m].run) \/ UNCHANGED Rows
    BY <1>4 DEF Resume
  <2>2. Table!Next \/ NoWrite
    BY <1>1, <2>1, EnqueueIsAllowed DEF NoWrite, Rows
  <2> QED
    BY <1>2, <1>4, <2>2, GotoKeepsMail DEF Allowed, Resume, IInv
<1>5. CASE ClaimStage(m)
  <2>1. Table!Next
    BY <1>1, <1>5, ClaimIsAllowed DEF ClaimStage
  <2> QED
    BY <1>2, <1>5, <2>1, GotoKeepsMail DEF Allowed, ClaimStage, IInv
<1> QED
  BY <1>3, <1>4, <1>5

LEMMA QuietAllowed ==
  ASSUME IInv, NEW m \in Messages,
         \/ ClaimFails(m) \/ Redeliver(m) \/ Crash(m) \/ LeaseLost(m) \/ HeartbeatFails(m)
         \/ Throws(m) \/ SnapshotPending(m) \/ SnapshotFails(m) \/ Record(m) \/ Recorded(m)
         \/ PostVerifyTasks(m)
  PROVE  Allowed
<1>1. m \in Workers /\ mail[m].run \in Runs
  BY MessagesWork, WorkerFacts DEF IInv
<1>2. AnswersOK'
  BY SameAnswers DEF IInv, ClaimFails, Redeliver, Crash, LeaseLost, HeartbeatFails, Throws,
     SnapshotPending, SnapshotFails, Record, Recorded, PostVerifyTasks
<1>3. NoWrite
  BY DEF NoWrite, Rows, ClaimFails, Redeliver, Crash, LeaseLost, HeartbeatFails, Throws,
     SnapshotPending, SnapshotFails, Record, Recorded, PostVerifyTasks
<1>4. CASE SnapshotFails(m)
  <2>1. CASE Goto(m, "chain", "endError")
    BY <1>2, <1>3, <2>1, GotoKeepsMail DEF Allowed, IInv
  <2>2. ASSUME NEW n \in Messages, mail' = [mail EXCEPT ![n] = Envelope("recovery", mail[m].run)]
        PROVE  Allowed
    BY <1>1, <1>2, <1>3, <2>2, EnvelopeKeepsMail, MessagesWork DEF Allowed, IInv, Kinds
  <2> QED
    BY <1>4, <2>1, <2>2 DEF SnapshotFails
<1>5. CASE ~SnapshotFails(m)
  <2>1. MailOK'
    BY <1>1, <1>5, GotoKeepsMail, RetryKeepsMail DEF IInv, InChain, ClaimFails, Redeliver, Crash,
       LeaseLost, HeartbeatFails, Throws, SnapshotPending, Record, Recorded, PostVerifyTasks
  <2> QED
    BY <1>2, <1>3, <2>1 DEF Allowed
<1> QED
  BY <1>4, <1>5

LEMMA FinishAllowed ==
  ASSUME IInv, NEW m \in Messages, Finish(m)
  PROVE  Allowed
<1> DEFINE s == StageOf(m)
<1>1. m \in Workers /\ mail[m].run \in Runs /\ s \in ChainNames /\ Owner(m, s) \in Owners
  BY MessagesWork, WorkerFacts DEF IInv, ChainNames
<1>2. AnswersOK'
  BY SameAnswers DEF IInv, Finish
<1>3. MailOK'
  BY <1>1, GotoKeepsMail, RetryKeepsMail DEF IInv, Finish
<1>4. ASSUME NEW status \in {"waiting", "success", "error"},
             Table!MarkFenced(s, OwnerMark(mail[m].run, status, Owner(m, s), None, None))
      PROVE  Table!Next
  BY <1>1, <1>4, OwnerMarkIsAllowed
<1>5. \A end \in DOMAIN Result : Result[end] \in {"waiting", "success", "error"}
  BY DEF Result
<1>6. Table!Next \/ NoWrite
  BY <1>4, <1>5 DEF Finish, NoWrite, Rows
<1> QED
  BY <1>2, <1>3, <1>6 DEF Allowed
-----------------------------------------------------------------------------
(* The dispatch of the verify job.                                          *)
LEMMA EnqueueVerifyAllowed ==
  ASSUME IInv, NEW m \in Messages, EnqueueVerify(m)
  PROVE  Allowed
<1>1. m \in Workers /\ mail[m].run \in Runs /\ Verify \in ChainNames
  BY MessagesWork, WorkerFacts DEF IInv, ChainNames
<1>2. AnswersOK' /\ MailOK'
  BY SameAnswers, GotoKeepsMail DEF IInv, EnqueueVerify
<1>3. CASE \/ Table!AuthorizedInsert(Verify, mail[m].run, PipelineWorks(m))
           \/ Table!AuthorizedTransition(Verify, mail[m].run, PipelineWorks(m))
  <2>1. Authorizes(stages[PostPipeline], PipelineWorks(m))
    BY <1>3 DEF Table!AuthorizedInsert, Table!AuthorizedTransition, Table!Authorizes, Authorizes,
       Table!HeldBy, HeldBy, Table!LeaseLive, LeaseLive, PipelineWorks
  <2>2. Table!Next
    BY <1>1, <1>3, <2>1, PipelineWorksIsAuthority, AuthorizedIsAllowed DEF IInv
  <2> QED
    BY <1>2, <2>2 DEF Allowed
<1>4. CASE UNCHANGED Rows
  BY <1>2, <1>4 DEF Allowed, NoWrite, Rows
<1> QED
  BY <1>3, <1>4 DEF EnqueueVerify

LEMMA DispatchAllowed ==
  ASSUME IInv, NEW w \in Workers, Dispatch(w) \/ (w = Repair /\ RepairDies)
  PROVE  Allowed
<1>1. /\ mail[w].run \in Runs /\ Verify \in ChainNames /\ Owner(w, Verify) \in Owners
      /\ ProducerOf(w) \in Producers /\ ProducerOf(w) \in Cursors
  BY WorkerFacts DEF IInv, ChainNames
<1>2. MailOK'
  BY GotoKeepsMail DEF IInv, Dispatch, ClaimVerify, StoreCursor, CallVerify, FinishDispatch,
     MarkDispatched, RepairDies
<1>3. CASE ClaimVerify(w)
  <2>1. Table!Next \/ NoWrite
    BY <1>1, <1>3, ClaimIsAllowed DEF ClaimVerify, NoWrite, Rows
  <2> QED
    BY <1>2, <1>3, <2>1, SameAnswers DEF Allowed, ClaimVerify, IInv
<1>4. CASE StoreCursor(w)
  <2>1. Table!Next \/ NoWrite
    BY <1>1, <1>4, CursorIsAllowed DEF StoreCursor, NoWrite, Rows
  <2> QED
    BY <1>2, <1>4, <2>1, SameAnswers DEF Allowed, StoreCursor, IInv
<1>5. CASE CallVerify(w)
  <2>1. AnswersOK'
    BY <1>1, <1>5 DEF CallVerify, AnswersOK, IInv
  <2> QED
    BY <1>2, <1>5, <2>1 DEF Allowed, CallVerify, NoWrite, Rows
<1>6. CASE FinishDispatch(w)
  <2>1. ASSUME NEW status \in {"waiting", "error"}, Table!MarkFenced(Verify, DispatchMark(w, status))
        PROVE  Table!Next
    BY <1>1, <2>1, OwnerMarkIsAllowed DEF DispatchMark
  <2>2. Table!Next \/ NoWrite
    BY <1>6, <2>1 DEF FinishDispatch, MarkDispatched, NoWrite, Rows
  <2> QED
    BY <1>2, <1>6, <2>2, SameAnswers DEF Allowed, FinishDispatch, MarkDispatched, IInv
<1>7. CASE RepairDies
  BY <1>2, <1>7, SameAnswers DEF Allowed, RepairDies, NoWrite, Rows, IInv
<1> QED
  BY <1>3, <1>4, <1>5, <1>6, <1>7 DEF Dispatch

(* The run of a row that a statement has just queued.                       *)
LEMMA ResumedRun ==
  ASSUME IInv, NEW s \in TableStages, NEW expected, Table!EnqueueResume(s, expected)
  PROVE  stages[s].run \in Runs /\ stages'[s].run = stages[s].run
BY DEF Table!EnqueueResume, Table!ResumeWhere, Table!Resumable, Table!Expired, Table!Write,
       Table!ResumeSet, Table!Released, IInv, RowsNamed, Named, Row, Present

LEMMA QueuedRun ==
  ASSUME IInv, NEW s \in TableStages, NEW run \in Runs,
         Table!EnqueueInsert(s, run) \/ Table!EnqueueAdopt(s, run)
  PROVE  stages'[s].run = run
BY DEF Table!EnqueueInsert, Table!EnqueueAdopt, Table!Write, Table!QueuedFor, Table!Absent,
       IInv, RowsNamed

LEMMA StartRepairAllowed ==
  ASSUME IInv, StartRepair
  PROVE  Allowed
<1>1. Verify \in TableStages /\ Verify \in ChainNames /\ RepairRun \in Runs
  BY RunsAssumption DEF TableStages, ChainNames
<1>2. Table!Next /\ stages'[Verify].run \in Runs
  <2>1. CASE Table!EnqueueInsert(Verify, RepairRun) \/ Table!EnqueueAdopt(Verify, RepairRun)
    BY <1>1, <2>1, QueuedRun, EnqueueIsAllowed
  <2>2. CASE Table!EnqueueResume(Verify, None)
    BY <1>1, <2>2, ResumedRun, EnqueueIsAllowed
  <2>3. CASE Table!EnqueueResume(Verify, stages[Verify].run)
    <3>1. stages[Verify].run \in Runs /\ stages'[Verify].run = stages[Verify].run
      BY <1>1, <2>3, ResumedRun
    <3> QED
      BY <1>1, <2>3, <3>1, EnqueueIsAllowed
  <2> QED
    BY <2>1, <2>2, <2>3 DEF StartRepair
<1>3. mail' = [mail EXCEPT ![Repair].run = stages'[Verify].run]
  BY DEF StartRepair
<1>4. MailOK'
  BY <1>2, <1>3 DEF MailOK, IInv
<1> QED
  BY <1>2, <1>4, SameAnswers DEF Allowed, StartRepair, IInv
-----------------------------------------------------------------------------
(* Answers, continuations, callbacks, the watchdog and the environment.     *)
LEMMA QueuePostVerifyAllowed ==
  ASSUME IInv, NEW run \in Runs, NEW producer \in Cursors, QueuePostVerify(run, producer)
  PROVE  (Table!Next \/ NoWrite) /\ MailOK'
<1>1. CASE /\ \/ Table!AuthorizedInsert(PostVerify, run, Verified(run, producer))
              \/ Table!AuthorizedTransition(PostVerify, run, Verified(run, producer))
           /\ Post(PostVerify, run)
  <2>1. Table!Next
    BY <1>1, VerifiedIsAuthority, AuthorizedIsAllowed DEF ChainNames
  <2> QED
    BY <1>1, <2>1, PostKeepsMail DEF IInv, Kinds
<1>2. CASE UNCHANGED <<Rows, queue>>
  BY <1>2 DEF NoWrite, Rows, queue, IInv, MailOK
<1> QED
  BY <1>1, <1>2 DEF QueuePostVerify

LEMMA AnsweringAllowed ==
  ASSUME IInv,
         \/ \E p \in Producers : VerifyEnds(p)
         \/ \E h \in continuing : Continue(h) \/ HandlerDies(h)
  PROVE  Allowed
<1>1. ASSUME NEW p \in Producers, VerifyEnds(p)
      PROVE  Allowed
  <2>1. AnswersOK'
    BY <1>1 DEF VerifyEnds, AnswersOK, IInv
  <2> QED
    BY <1>1, <2>1 DEF VerifyEnds, Allowed, NoWrite, Rows, queue, IInv, MailOK
<1>2. ASSUME NEW h \in continuing, Continue(h) \/ HandlerDies(h)
      PROVE  Allowed
  <2>1. h.run \in Runs /\ h.producer \in Cursors
    BY CursorsAssumption DEF IInv, AnswersOK
  <2>2. AnswersOK'
    BY <1>2 DEF Continue, HandlerDies, AnswersOK, IInv
  <2>3. CASE Continue(h)
    BY <2>1, <2>2, <2>3, QueuePostVerifyAllowed DEF Continue, Allowed
  <2>4. CASE HandlerDies(h)
    BY <2>2, <2>4 DEF HandlerDies, Allowed, NoWrite, Rows, queue, IInv, MailOK
  <2> QED
    BY <1>2, <2>3, <2>4
<1> QED
  BY <1>1, <1>2

LEMMA HandleAnswerAllowed ==
  ASSUME IInv, NEW a \in answers, HandleAnswer(a)
  PROVE  Allowed
<1> DEFINE run == stages[Verify].run
           mark == CallbackMark(run, a.status, a.producer)
<1>1. a.producer \in Producers /\ a.producer \in Cursors /\ a.status \in {"success", "error"}
  BY CursorsAssumption DEF IInv, AnswersOK
<1>2. MailOK'
  BY DEF HandleAnswer, queue, IInv, MailOK
<1>3. CASE Table!MarkFenced(Verify, mark)
  <2>1. stages[Verify].cursor = a.producer
    BY <1>1, <1>3, NoneAssumption DEF Table!MarkFenced, Table!MarkWhere, CallbackMark, Mark
  <2>2. run \in Runs
    BY <1>1, <2>1, NoneAssumption DEF IInv, RowsNamed, TableStages, Named
  <2>3. Table!Next
    BY <1>1, <1>3, <2>2, CallbackMarkIsAllowed DEF ChainNames
  <2>4. continuing' \subseteq continuing \union {[run |-> run, producer |-> a.producer]}
          /\ answers' \subseteq answers /\ executions' = executions
    BY DEF HandleAnswer
  <2>5. AnswersOK'
    BY <1>1, <2>2, <2>4 DEF AnswersOK, IInv
  <2> QED
    BY <1>2, <2>3, <2>5 DEF Allowed
<1>4. CASE UNCHANGED <<Rows, continuing>>
  <2>1. AnswersOK'
    BY <1>4 DEF HandleAnswer, AnswersOK, IInv
  <2> QED
    BY <1>2, <1>4, <2>1 DEF Allowed, NoWrite, Rows
<1> QED
  BY <1>3, <1>4 DEF HandleAnswer

LEMMA BackfillAllowed ==
  ASSUME IInv, BackfillDone \/ BackfillFails
  PROVE  Allowed
<1>1. Run \in Runs /\ PostPipeline \in ChainNames
  BY RunsAssumption DEF ChainNames
<1>2. AnswersOK'
  BY SameAnswers DEF IInv, BackfillDone, BackfillFails
<1>3. MailOK'
  <2>1. CASE \E m \in Messages : mail' = [mail EXCEPT ![m] = Envelope("recovery", Run)]
    BY <1>1, <2>1, EnvelopeKeepsMail, MessagesWork DEF IInv, Kinds
  <2>2. CASE Post(PostPipeline, Run)
    BY <1>1, <2>2, PostKeepsMail DEF IInv, Kinds
  <2>3. CASE UNCHANGED queue
    BY <2>3 DEF queue, IInv, MailOK
  <2> QED
    BY <2>1, <2>2, <2>3 DEF BackfillDone, BackfillFails, queue
<1>4. CASE BackfillDone
  <2>1. Table!Next \/ NoWrite
    BY <1>1, <1>4, EnqueueIsAllowed DEF BackfillDone, NoWrite, Rows
  <2> QED
    BY <1>2, <1>3, <2>1 DEF Allowed
<1>5. CASE BackfillFails
  <2>1. Table!Next \/ NoWrite
    BY <1>1, <1>5, CallbackMarkIsAllowed DEF BackfillFails, NoWrite, Rows
  <2> QED
    BY <1>2, <1>3, <2>1 DEF Allowed
<1> QED
  BY <1>4, <1>5

LEMMA PipelineAllowed ==
  ASSUME IInv, Pipeline
  PROVE  Allowed
<1>1. AnswersOK'
  BY SameAnswers DEF IInv, Pipeline, StartPipeline, PipelineSucceeds, ResearchOpens, QueuePostPipeline
<1>2. CASE StartPipeline \/ PipelineSucceeds
  BY <1>1, <1>2, PipelineIsAllowed DEF StartPipeline, PipelineSucceeds, Allowed, queue, IInv, MailOK
<1>3. CASE QueuePostPipeline
  <2>1. Run \in Runs /\ PostPipeline \in ChainNames
    BY RunsAssumption DEF ChainNames
  <2>2. Table!Next
    BY <1>3, <2>1, PipelineDoneIsAuthority, AuthorizedIsAllowed DEF QueuePostPipeline
  <2>3. MailOK'
    BY <1>3, <2>1, PostKeepsMail DEF QueuePostPipeline, IInv, Kinds
  <2> QED
    BY <1>1, <2>2, <2>3 DEF Allowed
<1>4. CASE ResearchOpens
  BY <1>1, <1>4 DEF ResearchOpens, Allowed, NoWrite, Rows, queue, IInv, MailOK
<1> QED
  BY <1>2, <1>3, <1>4 DEF Pipeline

LEMMA WatchdogAllowed ==
  ASSUME IInv, Watchdog \/ LearningCloses
  PROVE  Allowed
<1>1. Run \in Runs /\ PostPipeline \in ChainNames /\ PostVerify \in ChainNames
  BY RunsAssumption DEF ChainNames
<1>2. AnswersOK'
  BY SameAnswers DEF IInv, Watchdog, WatchdogPostVerify, WatchdogPostPipeline, WatchdogCloses, LearningCloses
<1>3. CASE WatchdogPostVerify
  <2>1. stages[Verify].cursor \in Cursors
    BY <1>3 DEF WatchdogPostVerify, IInv, RowsNamed, TableStages, Named, Row
  <2> QED
    BY <1>1, <1>2, <1>3, <2>1, QueuePostVerifyAllowed DEF WatchdogPostVerify, Allowed
<1>4. CASE WatchdogPostPipeline
  <2>1. Table!Next
    BY <1>1, <1>4, EnqueueIsAllowed DEF WatchdogPostPipeline
  <2>2. MailOK'
    BY <1>1, <1>4, PostKeepsMail DEF WatchdogPostPipeline, IInv, Kinds
  <2> QED
    BY <1>2, <2>1, <2>2 DEF Allowed
<1>5. CASE WatchdogCloses
  BY <1>1, <1>2, <1>5, CallbackMarkIsAllowed DEF WatchdogCloses, Allowed, queue, IInv, MailOK
<1>6. CASE LearningCloses
  <2>1. stages[PostVerify].run \in Runs
    BY <1>6 DEF LearningCloses, IInv, RowsNamed, TableStages, Named, Present
  <2> QED
    BY <1>1, <1>2, <1>6, <2>1, CallbackMarkIsAllowed DEF LearningCloses, Allowed, queue, IInv, MailOK
<1> QED
  BY <1>3, <1>4, <1>5, <1>6 DEF Watchdog

LEMMA LeasesAllowed ==
  ASSUME IInv, NEW s \in {PostPipeline, Verify, PostVerify}, LeaseRunsOut(s) \/ WorkerStalls(s)
  PROVE  Allowed
<1>1. Table!Next
  BY ExpiryIsAllowed DEF LeaseRunsOut, WorkerStalls, ChainNames
<1> QED
  BY <1>1, SameAnswers DEF LeaseRunsOut, WorkerStalls, Allowed, queue, IInv, MailOK
-----------------------------------------------------------------------------
LEMMA InitNamed == Init => IInv
<1> SUFFICES ASSUME Init PROVE IInv
  OBVIOUS
<1>1. stages = [s \in TableStages |-> Table!Absent]
  BY DEF Init, Table!Init, TableStages
<1>2. Named(Table!Absent)
  BY DEF Named, Row, Statuses, Present, Table!Absent
<1>3. RowsNamed
  BY <1>1, <1>2 DEF RowsNamed, Named
<1>4. MailOK
  BY RunsAssumption, BoundsAssumption DEF Init, MailOK, Kinds
<1>5. AnswersOK
  BY DEF Init, AnswersOK
<1> QED
  BY <1>3, <1>4, <1>5 DEF IInv

LEMMA StepAllowed ==
  ASSUME IInv, [Next]_vars
  PROVE  Allowed
<1>1. ASSUME NEW m \in Messages, Proceed(m) \/ Stray(m)
      PROVE  Allowed
  BY <1>1, SendingAllowed, ReceivingAllowed, QuietAllowed, FinishAllowed, EnqueueVerifyAllowed
     DEF Proceed, Stray
<1>2. ASSUME NEW w \in Workers, Dispatch(w)
      PROVE  Allowed
  BY <1>2, DispatchAllowed
<1>3. CASE StartRepair \/ RepairDies
  BY <1>3, StartRepairAllowed, DispatchAllowed, MessagesWork
<1>4. CASE UNCHANGED vars
  BY <1>4, SameAnswers DEF vars, queue, Allowed, NoWrite, IInv, MailOK
<1> QED
  BY <1>1, <1>2, <1>3, <1>4, AnsweringAllowed, HandleAnswerAllowed, BackfillAllowed,
     PipelineAllowed, WatchdogAllowed, LeasesAllowed DEF Next

LEMMA NamesKept == IInv /\ [Next]_vars => IInv'
<1> SUFFICES ASSUME IInv, [Next]_vars PROVE IInv'
  OBVIOUS
<1>1. Allowed
  BY StepAllowed
<1>2. RowsNamed'
  BY <1>1, TableKeepsNames DEF Allowed, NoWrite, RowsNamed, IInv
<1> QED
  BY <1>1, <1>2 DEF Allowed, IInv

(* Every write of the evening chain's workers, callbacks, watchdog and      *)
(* repair is a statement of the stage table with arguments that the table   *)
(* allows, for any bounds.  (Every caller of pipelineStageLease.ts in the   *)
(* evening chain.)                                                          *)
THEOREM ChainImplementsTable == Spec => Table!Spec /\ TableSpec
<1>1. Init => Table!Init
  BY DEF Init
<1>2. IInv /\ [Next]_vars => [Table!Next]_(Table!vars) /\ [Rows' = Rows \/ Table!Next]_(Table!vars)
  <2> SUFFICES ASSUME IInv, [Next]_vars PROVE Table!Next \/ UNCHANGED Table!vars
    OBVIOUS
  <2> QED
    BY StepAllowed DEF Allowed, NoWrite, Table!vars
<1> QED
  BY <1>1, <1>2, InitNamed, NamesKept, PTL DEF Spec, TableSpec, Table!Spec
-----------------------------------------------------------------------------
PostVerifyFollows ==
  stages'[PostVerify].run # stages[PostVerify].run =>
    stages[Verify].status = "success" /\ stages[Verify].run = stages'[PostVerify].run
AnswerStays == stages[Verify].status \in {"success", "error"} => stages'[Verify].status # "waiting"

(* A row of verify_v2 whose cursor is of its run, and that has one when it  *)
(* is closed: nothing writes the cursor of another run, and a change of the *)
(* run clears it.                                                           *)
WellClosed(r) ==
  /\ r.cursor # None => r.cursor.run = r.run
  /\ r.status = "success" => r.cursor # None
ClosureStays == WellClosed(stages[Verify]) => WellClosed(stages'[Verify])

(* A row of verify_v2 that is closed was so already, or is closed by the    *)
(* answer that closedBy records; its cursor stays.                          *)
ClosureIsAnswered ==
  stages'[Verify].status = "success" =>
    /\ stages'[Verify].cursor = stages[Verify].cursor
    /\ stages[Verify].status = "success" \/ closedBy' = stages[Verify].cursor

(* post_pipeline_chain is given only to a run whose gate is open.           *)
ResearchIsGated ==
  stages'[PostPipeline].run # stages[PostPipeline].run => ResearchAllowed(stages'[PostPipeline].run)

Sound == PostVerifyFollows /\ AnswerStays /\ ClosureStays /\ ClosureIsAnswered /\ ResearchIsGated
-----------------------------------------------------------------------------
(* The effect of each statement.                                            *)
LEMMA NoWriteIsSound ==
  ASSUME UNCHANGED stages
  PROVE  Sound
BY DEF Sound, PostVerifyFollows, AnswerStays, ClosureStays, ClosureIsAnswered, ResearchIsGated

(* A write that keeps the row's run and neither pauses nor spoils it.       *)
LEMMA QuietWriteIsSound ==
  ASSUME RowsNamed, NEW s \in TableStages, NEW row, stages' = [stages EXCEPT ![s] = row],
         row.run = stages[s].run,
         s = Verify /\ stages[s].status \in {"success", "error"} => row.status # "waiting",
         s = Verify /\ WellClosed(stages[s]) => WellClosed(row),
         s = Verify /\ row.status = "success" =>
           /\ row.cursor = stages[s].cursor
           /\ stages[s].status = "success" \/ closedBy' = stages[s].cursor
  PROVE  Sound
BY DEF Sound, PostVerifyFollows, AnswerStays, ClosureStays, ClosureIsAnswered, ResearchIsGated, RowsNamed

LEMMA UpstreamWriteIsSound ==
  ASSUME RowsNamed, NEW s \in {Execution, PostPipeline, Verify}, NEW row,
         stages' = [stages EXCEPT ![s] = row], row.status # "waiting",
         s = Verify => WellClosed(row) /\ row.status # "success",
         s = PostPipeline => ResearchAllowed(row.run)
  PROVE  Sound
<1>1. s # PostVerify /\ s \in TableStages
  BY StagesDiffer DEF StageNames, TableStages
<1> QED
  BY <1>1 DEF Sound, PostVerifyFollows, AnswerStays, ClosureStays, ClosureIsAnswered, ResearchIsGated, RowsNamed

LEMMA QueuingIsSound ==
  ASSUME RowsNamed, NEW s \in {PostPipeline, Verify}, NEW run,
         s = PostPipeline => ResearchAllowed(run),
         \/ Table!EnqueueInsert(s, run) \/ Table!EnqueueAdopt(s, run)
         \/ \E a : Table!AuthorizedInsert(s, run, a) \/ Table!AuthorizedTransition(s, run, a)
  PROVE  Sound
<1> DEFINE new == Table!QueuedFor(run)
<1>1. stages' = [stages EXCEPT ![s] = new]
  BY DEF Table!EnqueueInsert, Table!EnqueueAdopt, Table!AuthorizedInsert,
         Table!AuthorizedTransition, Table!Write
<1>2. new.status \notin {"waiting", "success"} /\ WellClosed(new) /\ new.run = run
  BY DEF Table!QueuedFor, Table!Absent, WellClosed
<1> HIDE DEF new
<1> QED
  BY <1>1, <1>2, UpstreamWriteIsSound

LEMMA ResumingIsSound ==
  ASSUME RowsNamed, NEW s \in TableStages, NEW expected, Table!EnqueueResume(s, expected)
  PROVE  Sound
<1> DEFINE new == Table!ResumeSet(stages[s])
<1>1. stages' = [stages EXCEPT ![s] = new]
  BY DEF Table!EnqueueResume, Table!Write
<1>2. new.run = stages[s].run /\ new.status = "queued" /\ new.cursor = stages[s].cursor
  BY DEF Table!ResumeSet, Table!Released, RowsNamed, Named, Row
<1> HIDE DEF new
<1> QED
  BY <1>1, <1>2, QuietWriteIsSound DEF WellClosed

LEMMA WorkingIsSound ==
  ASSUME RowsNamed, NEW s \in TableStages, NEW run, NEW o, NEW cursor,
         \/ Table!Claim(s, run, o) \/ Table!ExpireLease(s)
         \/ Table!SetCursor(s, run, o, cursor) /\ cursor.run = run
  PROVE  Sound
<1>1. CASE Table!Claim(s, run, o)
  <2> DEFINE new == Table!ClaimSet(stages[s], o)
  <2>1. stages' = [stages EXCEPT ![s] = new]
    BY <1>1 DEF Table!Claim, Table!Issue
  <2>2. new.run = stages[s].run /\ new.status = "running" /\ new.cursor = stages[s].cursor
    BY DEF Table!ClaimSet, RowsNamed, Named, Row
  <2> HIDE DEF new
  <2> QED
    BY <2>1, <2>2, QuietWriteIsSound DEF WellClosed
<1>2. CASE Table!SetCursor(s, run, o, cursor) /\ cursor.run = run
  <2> DEFINE new == Table!CursorSet(stages[s], cursor)
  <2>1. stages' = [stages EXCEPT ![s] = new]
    BY <1>2 DEF Table!SetCursor, Table!Write
  <2>2. new.run = stages[s].run /\ new.status = stages[s].status /\ new.cursor = cursor
    BY DEF Table!CursorSet, RowsNamed, Named, Row
  <2>3. cursor.run = stages[s].run /\ stages[s].status = "running"
    BY <1>2 DEF Table!SetCursor, Table!CursorWhere, Table!HeldBy, Table!LeaseLive
  <2> HIDE DEF new
  <2> QED
    BY <2>1, <2>2, <2>3, QuietWriteIsSound DEF WellClosed
<1>3. CASE Table!ExpireLease(s)
  <2> DEFINE new == [stages[s] EXCEPT !.live = FALSE]
  <2>1. stages' = [stages EXCEPT ![s] = new]
    BY <1>3 DEF Table!ExpireLease, Table!Write
  <2>2. /\ new.run = stages[s].run /\ new.status = stages[s].status
        /\ new.cursor = stages[s].cursor
    BY DEF RowsNamed, Named, Row
  <2> HIDE DEF new
  <2> QED
    BY <2>1, <2>2, QuietWriteIsSound DEF WellClosed
<1> QED
  BY <1>1, <1>2, <1>3

(* A mark pauses verify_v2 only from its owner, who finds it running, and   *)
(* closes it only under its cursor.                                         *)
LEMMA MarkingIsSound ==
  ASSUME RowsNamed, NEW s \in TableStages, NEW m, Table!MarkFenced(s, m),
         s = Verify => /\ m.status # "waiting" \/ m.owner # None
                       /\ m.status = "success" => m.cursor # None /\ closedBy' = m.cursor
                       /\ m.next = None
  PROVE  Sound
<1> DEFINE new == Table!MarkSet(stages[s], m)
<1>1. stages' = [stages EXCEPT ![s] = new] /\ Table!MarkWhere(stages[s], m)
  BY DEF Table!MarkFenced, Table!Write
<1>2. new.run = stages[s].run /\ new.status = m.status
  BY DEF Table!MarkSet, Table!Released, RowsNamed, Named, Row
<1>3. m.owner # None => stages[s].status = "running"
  BY <1>1 DEF Table!MarkWhere, Table!HeldBy, Table!LeaseLive
<1>4. s = Verify => new.cursor = stages[s].cursor
  BY DEF Table!MarkSet, Table!Released, RowsNamed, Named, Row
<1>5. m.cursor # None => m.cursor = stages[s].cursor
  BY <1>1 DEF Table!MarkWhere
<1> HIDE DEF new
<1> QED
  BY <1>1, <1>2, <1>3, <1>4, <1>5, QuietWriteIsSound DEF WellClosed

LEMMA PostVerifyQueuingIsSound ==
  ASSUME RowsNamed, NEW run, NEW producer, QueuePostVerify(run, producer)
  PROVE  Sound
<1>1. CASE UNCHANGED Rows
  BY <1>1, NoWriteIsSound DEF Rows
<1>2. CASE Table!AuthorizedInsert(PostVerify, run, Verified(run, producer))
             \/ Table!AuthorizedTransition(PostVerify, run, Verified(run, producer))
  <2> DEFINE new == Table!QueuedFor(run)
             a   == Verified(run, producer)
  <2>1. stages' = [stages EXCEPT ![PostVerify] = new] /\ Table!Authorizes(stages[Verify], a)
    BY <1>2 DEF Table!AuthorizedInsert, Table!AuthorizedTransition, Table!Write, Verified
  <2>2. new.run = run
    BY DEF Table!QueuedFor, Table!Absent
  <2>3. stages[Verify].run = run /\ stages[Verify].status = "success"
    <3>1. a.run = run /\ a.status = "success"
      BY DEF Verified
    <3>2. "success" # None
      BY StatusesAssumption DEF Statuses
    <3> QED
      BY <2>1, <3>1, <3>2 DEF Table!Authorizes
  <2>4. PostVerify \in TableStages /\ PostVerify # Verify /\ PostVerify # PostPipeline
    BY StagesDiffer DEF StageNames, TableStages
  <2> HIDE DEF new, a
  <2> QED
    BY <2>1, <2>2, <2>3, <2>4 DEF Sound, PostVerifyFollows, AnswerStays, ClosureStays, ClosureIsAnswered, ResearchIsGated, RowsNamed
<1> QED
  BY <1>1, <1>2 DEF QueuePostVerify
-----------------------------------------------------------------------------
(* The effect of each step.                                                 *)
LEMMA MessageIsSound ==
  ASSUME IInv, NEW m \in Messages, Proceed(m) \/ Stray(m)
  PROVE  Sound
<1> DEFINE s == StageOf(m)
<1>1. RowsNamed /\ s \in {PostPipeline, PostVerify} /\ s \in TableStages /\ s # Verify
  BY MessagesWork, WorkerFacts, StagesDiffer DEF IInv, StageNames, TableStages
<1>2. CASE UNCHANGED Rows
  BY <1>2, NoWriteIsSound DEF Rows
<1>3. ASSUME ~(UNCHANGED Rows), SendThrows(m) \/ Finish(m)
      PROVE  Sound
  <2>1. \E k : Table!MarkFenced(s, k)
    BY <1>3 DEF SendThrows, Finish
  <2> QED
    BY <1>1, <2>1, MarkingIsSound
<1>4. ASSUME ~(UNCHANGED Rows), ReceiveRecovery(m) \/ Resume(m)
      PROVE  Sound
  <2>1. \/ Table!EnqueueInsert(PostPipeline, mail[m].run) /\ ResearchAllowed(mail[m].run)
        \/ \E t \in TableStages : \E expected : Table!EnqueueResume(t, expected)
    BY <1>1, <1>4 DEF ReceiveRecovery, Resume, TableStages
  <2> QED
    BY <1>1, <2>1, QueuingIsSound, ResumingIsSound
<1>5. CASE ClaimStage(m)
  BY <1>1, <1>5, WorkingIsSound DEF ClaimStage
<1>6. ASSUME ~(UNCHANGED Rows), EnqueueVerify(m)
      PROVE  Sound
  BY <1>1, <1>6, StagesDiffer, QueuingIsSound DEF EnqueueVerify, StageNames
<1>7. CASE \/ Send(m) \/ ClaimFails(m) \/ Redeliver(m) \/ LeaseLost(m) \/ Record(m) \/ Recorded(m)
           \/ PostVerifyTasks(m) \/ SenderDies(m) \/ Crash(m) \/ HeartbeatFails(m) \/ Throws(m)
           \/ SnapshotPending(m) \/ SnapshotFails(m)
  BY <1>2, <1>7 DEF Send, ClaimFails, Redeliver, LeaseLost, Record, Recorded, PostVerifyTasks, SenderDies,
     Crash, HeartbeatFails, Throws, SnapshotPending, SnapshotFails, Rows
<1> QED
  BY <1>2, <1>3, <1>4, <1>5, <1>6, <1>7 DEF Proceed, Stray

LEMMA VerifyStepIsSound ==
  ASSUME IInv,
         \/ \E w \in Workers : Dispatch(w)
         \/ \E p \in Producers : VerifyEnds(p)
         \/ \E a \in answers : HandleAnswer(a)
         \/ \E h \in continuing : Continue(h) \/ HandlerDies(h)
         \/ StartRepair \/ RepairDies
  PROVE  Sound
<1>1. RowsNamed /\ Verify \in TableStages
  BY DEF IInv, TableStages
<1>2. ASSUME NEW w \in Workers, Dispatch(w)
      PROVE  Sound
  <2>1. CASE UNCHANGED Rows
    BY <2>1, NoWriteIsSound DEF Rows
  <2>2. CASE ~(UNCHANGED Rows) /\ (ClaimVerify(w) \/ StoreCursor(w))
    <3>1. ProducerOf(w).run = mail[w].run
      BY DEF ProducerOf, Producer
    <3> QED
      BY <1>1, <2>2, <3>1, WorkingIsSound DEF ClaimVerify, StoreCursor
  <2>3. CASE ~(UNCHANGED Rows) /\ FinishDispatch(w)
    <3>1. PICK status \in {"waiting", "error"} : Table!MarkFenced(Verify, DispatchMark(w, status))
      BY <2>3 DEF FinishDispatch, MarkDispatched
    <3>2. /\ DispatchMark(w, status).owner = Owner(w, Verify)
          /\ DispatchMark(w, status).status = status /\ DispatchMark(w, status).next = None
      BY DEF DispatchMark, OwnerMark, Mark
    <3>3. Owner(w, Verify) # None
      BY WorkerFacts, NoneAssumption DEF IInv, ChainNames
    <3> QED
      BY <1>1, <3>1, <3>2, <3>3, MarkingIsSound
  <2>4. CASE CallVerify(w)
    BY <2>1, <2>4 DEF CallVerify
  <2> QED
    BY <1>2, <2>1, <2>2, <2>3, <2>4 DEF Dispatch
<1>3. ASSUME NEW a \in answers, HandleAnswer(a)
      PROVE  Sound
  <2> DEFINE m == CallbackMark(stages[Verify].run, a.status, a.producer)
  <2>1. /\ m.status = a.status /\ a.status # "waiting"
        /\ m.cursor = a.producer /\ a.producer # None /\ m.next = None
    BY CursorsAssumption, NoneAssumption DEF CallbackMark, Mark, IInv, AnswersOK
  <2>2. \/ Table!MarkFenced(Verify, m) /\ (a.status = "success" => closedBy' = a.producer)
        \/ UNCHANGED Rows
    BY <1>3 DEF HandleAnswer, ClosedBy
  <2> HIDE DEF m
  <2> QED
    BY <1>1, <2>1, <2>2, MarkingIsSound, NoWriteIsSound DEF Rows
<1>4. CASE StartRepair
  BY <1>1, <1>4, StagesDiffer, QueuingIsSound, ResumingIsSound DEF StartRepair, StageNames
<1>5. ASSUME NEW h \in continuing, Continue(h) \/ HandlerDies(h)
      PROVE  Sound
  BY <1>1, <1>5, PostVerifyQueuingIsSound, NoWriteIsSound DEF Continue, HandlerDies, Rows
<1>6. CASE RepairDies \/ \E p \in Producers : VerifyEnds(p)
  BY <1>6, NoWriteIsSound DEF RepairDies, VerifyEnds, Rows
<1> QED
  BY <1>2, <1>3, <1>4, <1>5, <1>6

LEMMA EnvironmentIsSound ==
  ASSUME IInv,
         \/ BackfillDone \/ BackfillFails \/ LearningCloses \/ Pipeline \/ Watchdog
         \/ \E s \in {PostPipeline, Verify, PostVerify} : LeaseRunsOut(s) \/ WorkerStalls(s)
  PROVE  Sound
<1>1. /\ RowsNamed /\ {Execution, PostPipeline, Verify, PostVerify} \subseteq TableStages
      /\ PostPipeline # Verify /\ PostVerify # Verify
  BY StagesDiffer DEF IInv, TableStages, StageNames
<1>2. CASE BackfillDone \/ BackfillFails
  <2>1. \/ Table!EnqueueResume(PostPipeline, Run) \/ \E m : Table!MarkFenced(PostPipeline, m)
        \/ UNCHANGED Rows
    BY <1>2 DEF BackfillDone, BackfillFails
  <2> QED
    BY <1>1, <2>1, ResumingIsSound, MarkingIsSound, NoWriteIsSound DEF Rows
<1>3. CASE LearningCloses \/ WatchdogCloses
  BY <1>1, <1>3, MarkingIsSound DEF LearningCloses, WatchdogCloses
<1>4. CASE StartPipeline
  <2>1. stages' = [stages EXCEPT ![Execution] = Table!ReserveSet(Run)]
    BY <1>4 DEF StartPipeline, Table!Reserve, Table!Issue, Table!Execution, Execution
  <2>2. Table!ReserveSet(Run).status # "waiting" /\ Execution # Verify /\ Execution # PostPipeline
    BY StagesDiffer DEF Table!ReserveSet, Table!QueuedFor, Table!Absent, StageNames
  <2> QED
    BY <1>1, <2>1, <2>2, UpstreamWriteIsSound
<1>5. CASE PipelineSucceeds
  <2>1. stages' = [stages EXCEPT ![Execution] = Table!AcceptSet(stages[Execution], "success")]
    BY <1>5 DEF PipelineSucceeds, Table!Accept, Table!Write, Table!Execution, Execution
  <2>2. /\ Table!AcceptSet(stages[Execution], "success").status # "waiting"
        /\ Execution # Verify /\ Execution # PostPipeline
    BY <1>1, StagesDiffer DEF Table!AcceptSet, Table!Released, RowsNamed, Named, Row, StageNames
  <2> QED
    BY <1>1, <2>1, <2>2, UpstreamWriteIsSound
<1>6. CASE QueuePostPipeline
  BY <1>1, <1>6, QueuingIsSound DEF QueuePostPipeline
<1>0. CASE ResearchOpens
  BY <1>0, NoWriteIsSound DEF ResearchOpens, Rows
<1>7. CASE WatchdogPostVerify
  BY <1>1, <1>7, PostVerifyQueuingIsSound DEF WatchdogPostVerify
<1>8. CASE WatchdogPostPipeline
  BY <1>1, <1>8, ResumingIsSound DEF WatchdogPostPipeline
<1>9. ASSUME NEW s \in {PostPipeline, Verify, PostVerify}, LeaseRunsOut(s) \/ WorkerStalls(s)
      PROVE  Sound
  BY <1>1, <1>9, WorkingIsSound DEF LeaseRunsOut, WorkerStalls
<1> QED
  BY <1>0, <1>2, <1>3, <1>4, <1>5, <1>6, <1>7, <1>8, <1>9 DEF Pipeline, Watchdog

LEMMA StepIsSound ==
  ASSUME IInv, [Next]_vars
  PROVE  Sound
<1>1. CASE UNCHANGED vars
  BY <1>1, NoWriteIsSound DEF vars
<1> QED
  BY <1>1, MessageIsSound, VerifyStepIsSound, EnvironmentIsSound DEF Next
-----------------------------------------------------------------------------
(* post_verify_chain is given to a run only while verify_v2 is closed with  *)
(* success for that run, for any number of messages, redeliveries, dead     *)
(* workers and repairs.  (queuePostVerifyStage is the only way in, and its  *)
(* authority is read by the statement that writes.)                         *)
THEOREM PostVerifyIsAuthorized == Spec => PostVerifyFollowsVerify
<1>1. IInv /\ [Next]_vars => [PostVerifyFollows]_vars
  BY StepIsSound DEF Sound
<1> QED
  BY <1>1, InitNamed, NamesKept, PTL DEF Spec, PostVerifyFollowsVerify, PostVerifyFollows

(* The dispatcher's note that it waits for the verify job never covers the  *)
(* job's answer, however late it comes.  (The owner that                    *)
(* runPostPipelineCallbackChain passes to markPipelineStageFenced.)         *)
THEOREM AnswerIsNotCovered == Spec => VerifyAnswerIsKept
<1>1. IInv /\ [Next]_vars => [AnswerStays]_vars
  BY StepIsSound DEF Sound
<1> QED
  BY <1>1, InitNamed, NamesKept, PTL DEF Spec, VerifyAnswerIsKept, AnswerStays

(* An answer is recorded as the closing one only if the row's cursor names  *)
(* its job.                                                                 *)
LEMMA RecordedAnswerIsTheRows ==
  ASSUME IInv, NEW a \in answers, HandleAnswer(a)
  PROVE  closedBy' = closedBy \/ (closedBy' = stages[Verify].cursor /\ closedBy' \in Producers)
<1> DEFINE m == CallbackMark(stages[Verify].run, a.status, a.producer)
<1>1. m.cursor = a.producer /\ a.producer \in Producers /\ a.producer # None
  BY CursorsAssumption, NoneAssumption DEF CallbackMark, Mark, IInv, AnswersOK
<1>2. \/ Table!MarkFenced(Verify, m) /\ (closedBy' = closedBy \/ closedBy' = a.producer)
      \/ UNCHANGED closedBy
  BY DEF HandleAnswer, ClosedBy
<1> HIDE DEF m
<1> QED
  BY <1>1, <1>2 DEF Table!MarkFenced, Table!MarkWhere

(* Nothing else writes closedBy, and a gate that is open stays open.        *)
LEMMA HistoryIsKept ==
  ASSUME IInv, [Next]_vars
  PROVE  /\ closedBy' = closedBy \/ (closedBy' = stages[Verify].cursor /\ closedBy' \in Producers)
         /\ researchable' \in {researchable, researchable \union {Run}}
<1>1. ASSUME NEW m \in Messages, Proceed(m) \/ Stray(m)
      PROVE  UNCHANGED <<closedBy, researchable>>
  BY <1>1 DEF Proceed, Stray, Send, ReceiveRecovery, Resume, ClaimStage, ClaimFails, Redeliver, LeaseLost,
     EnqueueVerify, Record, Recorded, PostVerifyTasks, Finish, SendThrows, SenderDies, Crash,
     HeartbeatFails, Throws, SnapshotPending, SnapshotFails, verify, chain
<1>2. ASSUME NEW w \in Workers, Dispatch(w)
      PROVE  UNCHANGED <<closedBy, researchable>>
  BY <1>2 DEF Dispatch, ClaimVerify, StoreCursor, CallVerify, FinishDispatch, MarkDispatched, verify, chain
<1>3. CASE \/ \E p \in Producers : VerifyEnds(p)
           \/ \E h \in continuing : Continue(h) \/ HandlerDies(h)
           \/ BackfillDone \/ BackfillFails \/ LearningCloses
           \/ StartPipeline \/ PipelineSucceeds \/ QueuePostPipeline
           \/ Watchdog \/ StartRepair \/ RepairDies
           \/ \E s \in {PostPipeline, Verify, PostVerify} : LeaseRunsOut(s) \/ WorkerStalls(s)
  BY <1>3 DEF VerifyEnds, Continue, HandlerDies, BackfillDone, BackfillFails, LearningCloses,
     StartPipeline, PipelineSucceeds, QueuePostPipeline, Watchdog, WatchdogPostVerify,
     WatchdogPostPipeline, WatchdogCloses, StartRepair, RepairDies, LeaseRunsOut, WorkerStalls, verify, chain
<1>4. ASSUME NEW a \in answers, HandleAnswer(a)
      PROVE  UNCHANGED researchable
  BY <1>4 DEF HandleAnswer, chain
<1>6. CASE ResearchOpens
  BY <1>6 DEF ResearchOpens, verify
<1>5. CASE UNCHANGED vars
  BY <1>5 DEF vars, verify, chain
<1> QED
  BY <1>1, <1>2, <1>3, <1>4, <1>5, <1>6, RecordedAnswerIsTheRows DEF Next, Pipeline

(* verify_v2 is closed only by the answer of the job that its cursor names, *)
(* a job of the run that it belongs to, however often chain and repair took *)
(* it from each other.  (The cursor that the verify callback passes to      *)
(* markPipelineStageFenced, and every change of the run, which clears it.)  *)
Answered == stages[Verify].status = "success" => closedBy = stages[Verify].cursor
THEOREM ClosedByItsDispatch == Spec => []VerifyClosedByItsDispatch
<1> DEFINE CInv == IInv /\ WellClosed(stages[Verify]) /\ Answered
<1>1. Init => CInv
  <2>1. Init => WellClosed(stages[Verify]) /\ Answered
    BY DEF Init, Table!Init, Table!Absent, WellClosed, Answered
  <2> QED
    BY <2>1, InitNamed
<1>2. CInv /\ [Next]_vars => CInv'
  <2> SUFFICES ASSUME CInv, [Next]_vars PROVE CInv'
    OBVIOUS
  <2>1. WellClosed(stages[Verify])'
    BY StepIsSound DEF Sound, ClosureStays, WellClosed
  <2>2. Answered'
    BY StepIsSound, HistoryIsKept DEF Sound, ClosureIsAnswered, Answered
  <2> QED
    BY <2>1, <2>2, NamesKept
<1>3. CInv => VerifyClosedByItsDispatch
  <2> SUFFICES ASSUME CInv, stages[Verify].status = "success"
               PROVE  /\ closedBy # None /\ closedBy = stages[Verify].cursor
                      /\ closedBy.run = stages[Verify].run
    BY DEF VerifyClosedByItsDispatch
  <2> QED
    BY DEF Answered, WellClosed
<1> QED
  BY <1>1, <1>2, <1>3, PTL DEF Spec
-----------------------------------------------------------------------------
(* A queued stage keeps a message that will work on it.                     *)
Queues == {PostPipeline, PostVerify}

(* Where a message is that has still to claim its stage, or may stay there. *)
Driving == {"sending", "queued", "delayed", "resumed", "dead", "lost"}

(* A message of the stage itself: a recovery message drives nothing, it     *)
(* becomes one that does.                                                   *)
WorksOn(m, s) == mail[m].kind = s /\ mail[m].run = stages[s].run /\ pc[m] \in Driving

(* A queued row belongs to nobody.                                          *)
QueuedIsFree == \A s \in TableStages : stages[s].status = "queued" => stages[s].owner = None /\ ~stages[s].live
QueuedIsDriven == \A s \in Queues : stages[s].status = "queued" => \E m \in Messages : WorksOn(m, s)
PlacesOK == pc \in [Workers -> Idle \union Working]

(* post_pipeline_chain belongs to a run whose gate is open, so its consumer *)
(* never turns a message of the row's run away.                             *)
Gated == stages[PostPipeline].run # None => ResearchAllowed(stages[PostPipeline].run)

DInv == IInv /\ PlacesOK /\ QueuedIsFree /\ QueuedIsDriven /\ Gated

(* The two halves of a step: a row that it queues has a message, and it     *)
(* takes no message from a row that stays queued.                           *)
NewIsDriven ==
  \A s \in Queues :
    stages'[s].status = "queued" => stages'[s] = stages[s] \/ \E m \in Messages : WorksOn(m, s)'
DriversStay ==
  \A s \in Queues, m \in Messages :
    stages'[s] = stages[s] /\ stages[s].status = "queued" /\ WorksOn(m, s) => WorksOn(m, s)'
Drives2 == PlacesOK' /\ NewIsDriven /\ DriversStay
-----------------------------------------------------------------------------
(* The rows.                                                                *)
LEMMA QueuesAreStages == Queues \subseteq TableStages /\ Verify \notin Queues /\ Execution \notin Queues
BY StagesDiffer DEF Queues, TableStages, StageNames

(* Every statement of the table leaves a queued row free.                   *)
LEMMA WriteKeepsFree ==
  ASSUME RowsNamed, QueuedIsFree, NEW s \in TableStages, NEW row, stages' = [stages EXCEPT ![s] = row],
         row.status = "queued" => row.owner = None /\ ~row.live
  PROVE  QueuedIsFree'
BY DEF RowsNamed, QueuedIsFree

LEMMA TableKeepsFree ==
  ASSUME RowsNamed, QueuedIsFree, Table!Next
  PROVE  QueuedIsFree'
<1>1. Table!ChainStages \subseteq TableStages /\ Execution \in TableStages
  BY ChainStageIsStage DEF TableStages
<1>2. ASSUME NEW s \in TableStages, NEW run \in Runs, Table!Enqueue(s, run)
      PROVE  QueuedIsFree'
  <2>1. PICK row \in {Table!QueuedFor(run), Table!ResumeSet(stages[s])} : stages' = [stages EXCEPT ![s] = row]
    BY <1>2 DEF Table!Enqueue, Table!EnqueueInsert, Table!EnqueueAdopt, Table!EnqueueResume,
       Table!EnqueueSupersede, Table!AuthorizedInsert, Table!AuthorizedTransition, Table!Write
  <2>2. row.owner = None /\ ~row.live
    BY <2>1 DEF Table!QueuedFor, Table!Absent, Table!ResumeSet, Table!Released, RowsNamed, Row
  <2> QED
    BY <2>1, <2>2, WriteKeepsFree
<1>3. ASSUME NEW s \in TableStages, NEW run \in Runs, NEW o \in Owners, Table!Work(s, run, o)
      PROVE  QueuedIsFree'
  <2> DEFINE rows == {Table!ClaimSet(stages[s], o), Table!HeartbeatSet(stages[s])}
                       \union {Table!CursorSet(stages[s], cursor) : cursor \in Cursors}
  <2>1. PICK row \in rows : stages' = [stages EXCEPT ![s] = row]
                             /\ (row = Table!ClaimSet(stages[s], o) \/ stages[s].status = "running")
    BY <1>3 DEF Table!Work, Table!Claim, Table!Heartbeat, Table!SetCursor, Table!Write, Table!Issue,
       Table!HeartbeatWhere, Table!CursorWhere, Table!HeldBy, Table!LeaseLive
  <2>2. row.status = "running"
    BY <2>1 DEF Table!ClaimSet, Table!HeartbeatSet, Table!CursorSet, RowsNamed, Row
  <2> HIDE DEF rows
  <2> QED
    BY <2>1, <2>2, WriteKeepsFree
<1>4. ASSUME NEW s \in TableStages, NEW run \in Runs, NEW m \in Table!Marks(s, run), Table!MarkFenced(s, m)
      PROVE  QueuedIsFree'
  <2> DEFINE row == Table!MarkSet(stages[s], m)
  <2>1. stages' = [stages EXCEPT ![s] = row]
    BY <1>4 DEF Table!MarkFenced, Table!Write
  <2>2. row.owner = None /\ ~row.live
    BY DEF Table!MarkSet, Table!Released, RowsNamed, Row
  <2> HIDE DEF row
  <2> QED
    BY <2>1, <2>2, WriteKeepsFree
<1>5. ASSUME NEW run \in Runs, Table!Dispatch(run)
      PROVE  QueuedIsFree'
  <2> DEFINE r == stages[Execution]
             rows == {Table!ReserveSet(run), Table!FailSet(r)}
                       \union {Table!CommitSet(r, c) : c \in Cursors \union {None}}
                       \union {Table!AcceptSet(r, status) : status \in {"success", "error"}}
  <2>1. PICK row \in rows : stages' = [stages EXCEPT ![Execution] = row]
    BY <1>5 DEF Table!Dispatch, Table!Reserve, Table!Commit, Table!Fail, Table!Accept, Table!Write,
       Table!Issue, Table!Execution, Execution
  <2>2. row.status # "queued"
    BY <1>1, <2>1 DEF Table!ReserveSet, Table!QueuedFor, Table!Absent, Table!FailSet, Table!CommitSet,
       Table!AcceptSet, Table!Released, RowsNamed, Row
  <2> HIDE DEF rows
  <2> QED
    BY <1>1, <2>1, <2>2, WriteKeepsFree
<1>6. ASSUME NEW s \in TableStages, Table!ExpireLease(s)
      PROVE  QueuedIsFree'
  <2> DEFINE row == [stages[s] EXCEPT !.live = FALSE]
  <2>1. stages' = [stages EXCEPT ![s] = row]
    BY <1>6 DEF Table!ExpireLease, Table!Write
  <2>2. row.status = "queued" => row.owner = None /\ ~row.live
    BY DEF QueuedIsFree, RowsNamed, Row
  <2> HIDE DEF row
  <2> QED
    BY <2>1, <2>2, WriteKeepsFree
<1>7. CASE Table!LearningWrites
  BY <1>7 DEF Table!LearningWrites, QueuedIsFree
<1> QED
  BY <1>1, <1>2, <1>3, <1>4, <1>5, <1>6, <1>7 DEF Table!Next, TableStages

(* A step that queues nothing.                                              *)
LEMMA NoWriteIsDriven == ASSUME UNCHANGED Rows PROVE NewIsDriven
BY DEF Rows, NewIsDriven

LEMMA WriteIsDriven ==
  ASSUME RowsNamed, NEW s \in TableStages, NEW row, stages' = [stages EXCEPT ![s] = row],
         s \notin Queues \/ row.status # "queued"
  PROVE  NewIsDriven
<1> SUFFICES ASSUME NEW t \in Queues, stages'[t].status = "queued" PROVE stages'[t] = stages[t]
  BY DEF NewIsDriven
<1> QED
  BY QueuesAreStages DEF RowsNamed

LEMMA ClaimIsDriven ==
  ASSUME RowsNamed, NEW s \in TableStages, NEW run, NEW o, Table!Claim(s, run, o)
  PROVE  NewIsDriven
<1> DEFINE row == Table!ClaimSet(stages[s], o)
<1>1. stages' = [stages EXCEPT ![s] = row]
  BY DEF Table!Claim, Table!Issue
<1>2. row.status = "running"
  BY DEF Table!ClaimSet, RowsNamed, Row
<1> HIDE DEF row
<1> QED
  BY <1>1, <1>2, WriteIsDriven

LEMMA MarkIsDriven ==
  ASSUME RowsNamed, NEW s \in TableStages, NEW m, m.status # "queued", Table!MarkFenced(s, m)
  PROVE  NewIsDriven
<1> DEFINE row == Table!MarkSet(stages[s], m)
<1>1. stages' = [stages EXCEPT ![s] = row]
  BY DEF Table!MarkFenced, Table!Write
<1>2. row.status = m.status
  BY DEF Table!MarkSet, Table!Released, RowsNamed, Row
<1> HIDE DEF row
<1> QED
  BY <1>1, <1>2, WriteIsDriven

LEMMA ExpiryIsDriven ==
  ASSUME RowsNamed, QueuedIsFree, NEW s \in TableStages, Table!ExpireLease(s)
  PROVE  NewIsDriven
<1> DEFINE row == [stages[s] EXCEPT !.live = FALSE]
<1>1. stages' = [stages EXCEPT ![s] = row] /\ stages[s].live
  BY DEF Table!ExpireLease, Table!Write
<1>2. row.status = stages[s].status /\ stages[s].status # "queued"
  BY <1>1 DEF QueuedIsFree, RowsNamed, Row
<1> HIDE DEF row
<1> QED
  BY <1>1, <1>2, WriteIsDriven

(* Statements on rows that are not queues.                                  *)
LEMMA OtherIsDriven ==
  ASSUME RowsNamed, NEW run, NEW o, NEW c,
         \/ Table!EnqueueInsert(Verify, run) \/ Table!EnqueueAdopt(Verify, run)
         \/ Table!EnqueueResume(Verify, c)
         \/ \E a : Table!AuthorizedInsert(Verify, run, a) \/ Table!AuthorizedTransition(Verify, run, a)
         \/ Table!SetCursor(Verify, run, o, c)
         \/ Table!Reserve(run, None) \/ Table!Accept(run, "success")
  PROVE  NewIsDriven
<1>1. PICK s \in {Verify, Execution} : \E row : stages' = [stages EXCEPT ![s] = row]
  BY DEF Table!EnqueueInsert, Table!EnqueueAdopt, Table!EnqueueResume, Table!AuthorizedInsert,
     Table!AuthorizedTransition, Table!SetCursor, Table!Reserve, Table!Accept, Table!Write, Table!Issue,
     Table!Execution, Execution
<1> QED
  BY <1>1, QueuesAreStages, WriteIsDriven DEF TableStages

(* A stage queued for a run that a message has been made out for.           *)
LEMMA QueuedForIsDriven ==
  ASSUME RowsNamed, NEW s \in Queues, NEW run \in Runs, NEW m \in Messages, WorksOn(m, s)',
         stages'[s].run = run, NEW row, stages' = [stages EXCEPT ![s] = row]
  PROVE  NewIsDriven
<1> SUFFICES ASSUME NEW t \in Queues, stages'[t].status = "queued"
             PROVE  stages'[t] = stages[t] \/ \E n \in Messages : WorksOn(n, t)'
  BY DEF NewIsDriven
<1>1. CASE t = s
  BY <1>1
<1>2. CASE t # s
  BY <1>2, QueuesAreStages DEF RowsNamed
<1> QED
  BY <1>1, <1>2
-----------------------------------------------------------------------------
(* The messages.                                                            *)
LEMMA PlacesDiffer ==
  /\ Driving \subseteq Idle \union Working
  /\ Driving \cap (Holding \union {"unused", "acked", "gaveUp", "unsent"}) = {}
  /\ Dispatching \subseteq Tasks /\ Tasks \subseteq Holding /\ "failing" \in Holding
  /\ {"endSuccess", "endWaiting", "endError"} \subseteq Holding /\ Holding \subseteq Working
  /\ DOMAIN Result = {"endSuccess", "endWaiting", "endError"}
BY DEF Driving, Holding, Tasks, Dispatching, Idle, Working, Result

LEMMA MoveKeepsDrivers ==
  ASSUME PlacesOK, MailOK, NEW w \in Workers, NEW to \in Idle \union Working,
         pc' = [pc EXCEPT ![w] = to],
         \A v \in Workers : mail'[v].kind = mail[v].kind /\ mail'[v].run = mail[v].run,
         pc[w] \in Driving => to \in Driving
  PROVE  PlacesOK' /\ DriversStay
BY MessagesWork DEF PlacesOK, DriversStay, WorksOn

LEMMA GotoKeepsDrivers ==
  ASSUME PlacesOK, MailOK, NEW w \in Workers, NEW from, NEW to \in Idle \union Working, Goto(w, from, to),
         from \in Driving => to \in Driving
  PROVE  PlacesOK' /\ DriversStay
BY MoveKeepsDrivers DEF Goto

LEMMA RetryKeepsDrivers ==
  ASSUME PlacesOK, MailOK, NEW w \in Workers, NEW to \in Driving, Retry(w, to)
  PROVE  PlacesOK' /\ DriversStay
<1>1. \A v \in Workers : mail'[v].kind = mail[v].kind /\ mail'[v].run = mail[v].run
  BY DEF Retry, MailOK
<1>2. \E l \in Driving : pc' = [pc EXCEPT ![w] = l]
  BY DEF Retry, Driving
<1> QED
  BY <1>1, <1>2, PlacesDiffer, MoveKeepsDrivers

(* A message taken from the unused ones.                                    *)
LEMMA NewMessageKeepsDrivers ==
  ASSUME PlacesOK, MailOK, NEW m \in Messages, NEW to \in Driving, NEW e,
         ~(pc[m] \in Driving /\ mail[m].kind \in Queues),
         pc' = [pc EXCEPT ![m] = to], mail' = [mail EXCEPT ![m] = e]
  PROVE  PlacesOK' /\ DriversStay /\ mail'[m] = e /\ pc'[m] \in Driving
<1>1. m \in Workers /\ to \in Idle \union Working
  BY MessagesWork, PlacesDiffer
<1>2. PlacesOK' /\ mail'[m] = e /\ pc'[m] \in Driving
  BY <1>1 DEF PlacesOK, MailOK
<1>3. \A n \in Messages \ {m} : mail'[n] = mail[n] /\ pc'[n] = pc[n]
  BY <1>1, MessagesWork DEF PlacesOK, MailOK
<1>4. DriversStay
  BY <1>3 DEF DriversStay, WorksOn
<1> QED
  BY <1>2, <1>4

LEMMA PostKeepsDrivers ==
  ASSUME PlacesOK, MailOK, NEW kind, NEW run, Post(kind, run)
  PROVE  /\ PlacesOK' /\ DriversStay
         /\ \E m \in Messages : mail'[m] = Envelope(kind, run) /\ pc'[m] \in Driving
<1>1. PICK m \in Messages : /\ pc[m] = "unused"
                            /\ pc' = [pc EXCEPT ![m] = "sending"]
                            /\ mail' = [mail EXCEPT ![m] = Envelope(kind, run)]
  BY DEF Post, Unused
<1>2. "sending" \in Driving /\ pc[m] \notin Driving
  BY <1>1 DEF Driving
<1> QED
  BY <1>1, <1>2, NewMessageKeepsDrivers

LEMMA SameQueueKeepsDrivers ==
  ASSUME PlacesOK, UNCHANGED queue
  PROVE  PlacesOK' /\ DriversStay
BY DEF queue, PlacesOK, DriversStay, WorksOn

(* A queue's row that is queued, or queued again, while its message goes out.*)
LEMMA PostedIsDriven ==
  ASSUME DInv, NEW s \in Queues, NEW run \in Runs, Post(s, run),
         \/ Table!EnqueueInsert(s, run) \/ Table!EnqueueResume(s, run)
         \/ \E a : Table!AuthorizedInsert(s, run, a) \/ Table!AuthorizedTransition(s, run, a)
  PROVE  Drives2
<1>1. PICK m \in Messages : mail'[m] = Envelope(s, run) /\ pc'[m] \in Driving
  BY PostKeepsDrivers DEF DInv, IInv
<1>2. PICK row \in {Table!QueuedFor(run), Table!ResumeSet(stages[s])} :
        /\ stages' = [stages EXCEPT ![s] = row]
        /\ row = Table!ResumeSet(stages[s]) => stages[s].run = run \/ row = Table!QueuedFor(run)
  BY NoneAssumption DEF Table!EnqueueInsert, Table!EnqueueResume, Table!AuthorizedInsert, Table!AuthorizedTransition,
     Table!Write, Table!ResumeWhere
<1>3. row.run = run /\ s \in TableStages
  BY <1>2, QueuesAreStages DEF Table!QueuedFor, Table!Absent, Table!ResumeSet, Table!Released,
     DInv, IInv, RowsNamed, Row
<1>4. WorksOn(m, s)' /\ stages'[s].run = run
  BY <1>1, <1>2, <1>3 DEF WorksOn, Envelope, DInv, IInv, RowsNamed
<1>5. NewIsDriven
  BY <1>2, <1>4, QueuedForIsDriven DEF DInv, IInv
<1> QED
  BY <1>5, PostKeepsDrivers DEF Drives2, DInv, IInv
-----------------------------------------------------------------------------
(* The deliveries.                                                          *)
LEMMA SendingKeepsDrivers ==
  ASSUME DInv, NEW m \in Messages, Send(m) \/ SendThrows(m) \/ SenderDies(m)
  PROVE  Drives2
<1>0. m \in Workers /\ PlacesOK /\ MailOK /\ RowsNamed
  BY MessagesWork DEF DInv, IInv
<1>1. CASE Send(m) \/ SenderDies(m)
  <2>1. \E to \in {"queued", "lost"} : Goto(m, "sending", to) /\ UNCHANGED Rows
    BY <1>1 DEF Send, SenderDies
  <2>2. {"queued", "lost"} \subseteq Driving /\ {"queued", "lost"} \subseteq Idle \union Working
    BY DEF Driving, Idle
  <2> QED
    BY <1>0, <2>1, <2>2, GotoKeepsDrivers, NoWriteIsDriven DEF Drives2
<1>2. CASE SendThrows(m)
  <2> DEFINE s == StageOf(m)
             k == SendFailedMark(mail[m].run)
  <2>1. /\ pc[m] = "sending" /\ pc' = [pc EXCEPT ![m] = "unsent"] /\ mail' = mail
        /\ IF MarkWhere(stages[s], k) THEN Table!MarkFenced(s, k) ELSE UNCHANGED Rows
    BY <1>2 DEF SendThrows, Goto
  <2>2. s \in Queues /\ s \in TableStages
    BY <1>0, WorkerFacts, QueuesAreStages DEF Queues
  <2>3. PlacesOK'
    BY <1>0, <2>1 DEF PlacesOK, Idle
  <2>4. NewIsDriven
    <3>1. k.status # "queued"
      BY DEF SendFailedMark, Mark
    <3> QED
      BY <1>0, <2>1, <2>2, <3>1, MarkIsDriven, NoWriteIsDriven
  <2>5. DriversStay
    <3> SUFFICES ASSUME NEW t \in Queues, NEW n \in Messages, stages'[t] = stages[t],
                        stages[t].status = "queued", WorksOn(n, t)
                 PROVE  WorksOn(n, t)'
      BY DEF DriversStay
    <3>1. CASE n # m
      <4>1. n \in Workers /\ pc'[n] = pc[n]
        BY <1>0, <2>1, <3>1, MessagesWork DEF PlacesOK
      <4> QED
        BY <2>1, <4>1 DEF WorksOn
    <3>2. CASE n = m
      <4>1. t = s /\ mail[m].run = stages[s].run
        BY <3>2 DEF WorksOn, StageOf, Queues, PostPipeline, PostVerify
      <4>2. MarkWhere(stages[s], k)
        BY <2>2, <4>1, NoneAssumption DEF MarkWhere, SendFailedMark, Mark, DInv, QueuedIsFree
      <4>3. stages' = [stages EXCEPT ![s] = Table!MarkSet(stages[s], k)]
        BY <2>1, <4>2 DEF Table!MarkFenced, Table!Write
      <4>4. stages'[s].status = "error"
        BY <1>0, <2>2, <4>3 DEF Table!MarkSet, Table!Released, SendFailedMark, Mark, RowsNamed, Row
      <4> QED
        BY <4>1, <4>4
    <3> QED
      BY <3>1, <3>2
  <2> QED
    BY <2>3, <2>4, <2>5 DEF Drives2
<1> QED
  BY <1>1, <1>2

LEMMA ReceiveRecoveryKeepsDrivers ==
  ASSUME DInv, NEW m \in Messages, ReceiveRecovery(m)
  PROVE  Drives2
<1>0. /\ m \in Workers /\ PlacesOK /\ MailOK /\ RowsNamed
      /\ pc[m] = "queued" /\ mail[m].kind = "recovery" /\ mail[m].run \in Runs
      /\ mail[m].kind \notin Queues
  BY MessagesWork, WorkerFacts DEF DInv, IInv, ReceiveRecovery, Queues, PostPipeline, PostVerify
<1>1. CASE UNCHANGED <<Rows, mail>> /\ pc' = [pc EXCEPT ![m] = "acked"]
  <2>1. PlacesOK'
    BY <1>0, <1>1 DEF PlacesOK, Idle
  <2>2. DriversStay
    BY <1>0, <1>1, MessagesWork DEF DriversStay, WorksOn, PlacesOK
  <2> QED
    BY <1>1, <2>1, <2>2, NoWriteIsDriven DEF Drives2
<1>2. CASE /\ Table!EnqueueInsert(PostPipeline, mail[m].run) \/ Table!EnqueueResume(PostPipeline, None)
           /\ pc' = [pc EXCEPT ![m] = "sending"]
           /\ mail' = [mail EXCEPT ![m] = Envelope(PostPipeline, stages'[PostPipeline].run)]
  <2> DEFINE run == stages'[PostPipeline].run
  <2>1. PostPipeline \in TableStages /\ PostPipeline \in Queues
    BY DEF TableStages, Queues
  <2>2. PICK row \in {Table!QueuedFor(mail[m].run), Table!ResumeSet(stages[PostPipeline])} :
          /\ stages' = [stages EXCEPT ![PostPipeline] = row]
          /\ row = Table!QueuedFor(mail[m].run) \/ Table!Resumable(stages[PostPipeline])
    BY <1>2 DEF Table!EnqueueInsert, Table!EnqueueResume, Table!Write, Table!ResumeWhere
  <2>3. run \in Runs
    BY <1>0, <2>1, <2>2 DEF Table!QueuedFor, Table!Absent, Table!ResumeSet, Table!Released,
       Table!Resumable, Table!Expired, RowsNamed, Named, Row, Present
  <2>4. "sending" \in Driving
    BY DEF Driving
  <2>5. /\ PlacesOK' /\ DriversStay /\ mail'[m] = Envelope(PostPipeline, run) /\ pc'[m] \in Driving
    BY <1>0, <1>2, <2>4, NewMessageKeepsDrivers
  <2>6. WorksOn(m, PostPipeline)'
    BY <2>5 DEF WorksOn, Envelope
  <2>7. NewIsDriven
    BY <1>0, <2>1, <2>2, <2>3, <2>6, QueuedForIsDriven
  <2> QED
    BY <2>5, <2>7 DEF Drives2
<1> QED
  BY <1>1, <1>2 DEF ReceiveRecovery

LEMMA ResumeKeepsDrivers ==
  ASSUME DInv, NEW m \in Messages, Resume(m)
  PROVE  Drives2
<1>s. PICK s \in Queues : s = StageOf(m)
  BY MessagesWork, WorkerFacts DEF DInv, IInv, Queues
<1>0. /\ m \in Workers /\ PlacesOK /\ MailOK /\ RowsNamed /\ mail[m].run \in Runs
      /\ s \in Queues /\ s \in TableStages /\ mail[m].kind = s
  BY <1>s, MessagesWork, WorkerFacts, QueuesAreStages DEF DInv, IInv, Resume, StageOf, Queues
<1>1. "resumed" \in Driving /\ "resumed" \in Idle \union Working /\ "acked" \in Idle \union Working
  BY DEF Driving, Working, Idle
<1>2. CASE Goto(m, "queued", "resumed") /\ Table!EnqueueResume(s, mail[m].run)
  <2>1. PlacesOK' /\ DriversStay
    BY <1>0, <1>1, <1>2, GotoKeepsDrivers
  <2>2. /\ stages' = [stages EXCEPT ![s] = Table!ResumeSet(stages[s])] /\ stages[s].run = mail[m].run
    BY <1>0, <1>2, NoneAssumption DEF Table!EnqueueResume, Table!Write, Table!ResumeWhere
  <2>3. stages'[s].run = mail[m].run
    BY <1>0, <2>2 DEF Table!ResumeSet, Table!Released, RowsNamed, Row
  <2>4. WorksOn(m, s)'
    BY <1>0, <1>1, <1>2, <2>3 DEF WorksOn, Goto, PlacesOK
  <2>5. NewIsDriven
    BY <1>0, <2>2, <2>3, <2>4, QueuedForIsDriven
  <2> QED
    BY <2>1, <2>5 DEF Drives2
<1>3. CASE Goto(m, "queued", "resumed") /\ UNCHANGED Rows
  BY <1>0, <1>1, <1>3, GotoKeepsDrivers, NoWriteIsDriven DEF Drives2
<1>4. CASE Goto(m, "queued", "acked") /\ stages[s].run # mail[m].run /\ UNCHANGED Rows
  <2>1. PlacesOK'
    BY <1>0, <1>1, <1>4 DEF PlacesOK, Goto
  <2>2. \A t \in Queues : ~WorksOn(m, t)
    BY <1>0, <1>4 DEF WorksOn
  <2>3. DriversStay
    BY <1>0, <1>4, <2>2, MessagesWork DEF DriversStay, WorksOn, PlacesOK, Goto
  <2> QED
    BY <1>4, <2>1, <2>3, NoWriteIsDriven DEF Drives2
<1> QED
  <2>1. s = PostPipeline /\ ~ResearchAllowed(mail[m].run) => stages[s].run # mail[m].run
    BY <1>0, NoneAssumption DEF DInv, Gated
  <2> QED
    BY <1>s, <1>2, <1>3, <1>4, <2>1 DEF Resume

LEMMA ClaimFailsKeepsDrivers ==
  ASSUME DInv, NEW m \in Messages, ClaimFails(m)
  PROVE  Drives2
<1>0. m \in Workers /\ PlacesOK /\ MailOK /\ NewIsDriven /\ "delayed" \in Driving
  BY MessagesWork, NoWriteIsDriven DEF DInv, IInv, ClaimFails, Driving
<1>1. CASE Retry(m, "delayed")
  BY <1>0, <1>1, RetryKeepsDrivers DEF Drives2
<1>2. CASE Goto(m, "resumed", "acked")
  <2>1. PlacesOK'
    BY <1>0, <1>2 DEF PlacesOK, Goto, Idle
  <2>2. \A t \in Queues : stages[t].status = "queued" => ~WorksOn(m, t)
    BY DEF ClaimFails, ClaimWhere, WorksOn, StageOf, Queues, PostPipeline, PostVerify
  <2>3. DriversStay
    BY <1>0, <1>2, <2>2, MessagesWork DEF DriversStay, WorksOn, PlacesOK, Goto
  <2> QED
    BY <1>0, <2>1, <2>3 DEF Drives2
<1> QED
  BY <1>1, <1>2 DEF ClaimFails

LEMMA ClaimKeepsDrivers ==
  ASSUME DInv, NEW m \in Messages, ClaimStage(m)
  PROVE  Drives2
<1>0. m \in Workers /\ PlacesOK /\ MailOK /\ RowsNamed /\ StageOf(m) \in TableStages
  BY MessagesWork, WorkerFacts, QueuesAreStages DEF DInv, IInv, Queues
<1>1. NewIsDriven
  BY <1>0, ClaimIsDriven DEF ClaimStage
<1>2. PlacesOK'
  BY <1>0 DEF ClaimStage, Goto, PlacesOK, Working, Holding, Tasks
<1>3. DriversStay
  <2> SUFFICES ASSUME NEW t \in Queues, NEW n \in Messages, stages'[t] = stages[t],
                      stages[t].status = "queued", WorksOn(n, t)
               PROVE  WorksOn(n, t)'
    BY DEF DriversStay
  <2>1. CASE n # m
    BY <1>0, <2>1, MessagesWork DEF ClaimStage, Goto, PlacesOK, WorksOn
  <2>2. CASE n = m
    <3>1. t = StageOf(m)
      BY <2>2 DEF WorksOn, StageOf, Queues, PostPipeline, PostVerify
    <3>2. stages'[t].status = "running"
      BY <1>0, <3>1 DEF ClaimStage, Table!Claim, Table!Issue, Table!ClaimSet, RowsNamed, Row
    <3> QED
      BY <3>2
  <2> QED
    BY <2>1, <2>2
<1> QED
  BY <1>1, <1>2, <1>3 DEF Drives2

LEMMA QuietKeepsDrivers ==
  ASSUME DInv, NEW m \in Messages,
         \/ Redeliver(m) \/ Crash(m) \/ LeaseLost(m) \/ HeartbeatFails(m) \/ Throws(m)
         \/ SnapshotPending(m) \/ Record(m) \/ Recorded(m) \/ PostVerifyTasks(m)
  PROVE  Drives2
<1>0. m \in Workers /\ PlacesOK /\ MailOK /\ NewIsDriven
  BY MessagesWork, NoWriteIsDriven DEF DInv, IInv, Redeliver, Crash, LeaseLost, HeartbeatFails, Throws,
     SnapshotPending, Record, Recorded, PostVerifyTasks
<1>1. CASE Crash(m)
  BY <1>0, <1>1, RetryKeepsDrivers DEF Crash, Drives2, Driving
<1>2. CASE ~Crash(m)
  <2>1. PICK from \in Idle \union Working, to \in Idle \union Working :
          Goto(m, from, to) /\ (from \in Driving => to \in Driving)
    BY <1>0, <1>2, PlacesDiffer DEF PlacesOK, Redeliver, LeaseLost, HeartbeatFails, Throws, SnapshotPending,
       InChain, Record, Recorded, PostVerifyTasks, Goto, Idle, Working, Holding, Tasks, Driving
  <2> QED
    BY <1>0, <2>1, GotoKeepsDrivers DEF Drives2
<1> QED
  BY <1>1, <1>2

LEMMA SnapshotFailsKeepsDrivers ==
  ASSUME DInv, NEW m \in Messages, SnapshotFails(m)
  PROVE  Drives2
<1>0. m \in Workers /\ PlacesOK /\ MailOK /\ NewIsDriven /\ pc[m] = "chain" /\ pc[m] \notin Driving
  BY MessagesWork, NoWriteIsDriven DEF DInv, IInv, SnapshotFails, Driving
<1>1. CASE Goto(m, "chain", "endError")
  BY <1>0, <1>1, PlacesDiffer, GotoKeepsDrivers DEF Drives2, Driving
<1>2. ASSUME NEW n \in Messages, Unused(n, "recovery"),
             pc' = [pc EXCEPT ![m] = "endWaiting", ![n] = "queued"],
             mail' = [mail EXCEPT ![n] = Envelope("recovery", mail[m].run)]
      PROVE  Drives2
  <2>1. n \in Workers /\ n # m /\ pc[n] \notin Driving
    BY <1>0, <1>2, MessagesWork DEF Unused, Driving
  <2>2. PlacesOK'
    BY <1>0, <1>2, PlacesDiffer DEF PlacesOK, Idle
  <2>3. DriversStay
    <3>1. \A k \in Messages \ {m, n} : pc'[k] = pc[k] /\ mail'[k] = mail[k]
      BY <1>0, <1>2, <2>1, MessagesWork DEF PlacesOK, MailOK
    <3> QED
      BY <1>0, <2>1, <3>1 DEF DriversStay, WorksOn
  <2> QED
    BY <1>0, <2>2, <2>3 DEF Drives2
<1> QED
  BY <1>1, <1>2 DEF SnapshotFails

LEMMA FinishKeepsDrivers ==
  ASSUME DInv, NEW m \in Messages, Finish(m)
  PROVE  Drives2
<1>0. m \in Workers /\ PlacesOK /\ MailOK /\ RowsNamed /\ StageOf(m) \in TableStages
  BY MessagesWork, WorkerFacts, QueuesAreStages DEF DInv, IInv, Queues
<1>1. NewIsDriven
  <2>1. CASE UNCHANGED Rows
    BY <2>1, NoWriteIsDriven
  <2>2. ASSUME NEW status \in {"success", "waiting", "error"},
               Table!MarkFenced(StageOf(m), OwnerMark(mail[m].run, status, Owner(m, StageOf(m)), None, None))
        PROVE  NewIsDriven
    <3> DEFINE k == OwnerMark(mail[m].run, status, Owner(m, StageOf(m)), None, None)
    <3>1. k.status # "queued"
      BY DEF OwnerMark, Mark
    <3> HIDE DEF k
    <3> QED
      BY <1>0, <2>2, <3>1, MarkIsDriven DEF k
  <2>3. \A end \in DOMAIN Result : Result[end] \in {"success", "waiting", "error"}
    BY DEF Result
  <2> QED
    BY <2>1, <2>2, <2>3 DEF Finish
<1>2. CASE Retry(m, "queued")
  BY <1>0, <1>1, <1>2, RetryKeepsDrivers DEF Drives2, Driving
<1>3. CASE \E from \in {"endSuccess", "endWaiting", "endError", "failing"}, to \in {"acked", "gaveUp"} : Goto(m, from, to)
  BY <1>0, <1>1, <1>3, GotoKeepsDrivers DEF Drives2, Driving, Idle
<1> QED
  BY <1>2, <1>3, PlacesDiffer DEF Finish

LEMMA EnqueueVerifyKeepsDrivers ==
  ASSUME DInv, NEW m \in Messages, EnqueueVerify(m)
  PROVE  Drives2
<1>0. m \in Workers /\ PlacesOK /\ MailOK /\ RowsNamed
  BY MessagesWork DEF DInv, IInv
<1>1. NewIsDriven
  BY <1>0, NoWriteIsDriven, OtherIsDriven DEF EnqueueVerify
<1>2. \E to \in {"dispatch", "triggered", "failing"} : Goto(m, "chain", to)
  BY DEF EnqueueVerify
<1>3. "chain" \notin Driving /\ {"dispatch", "triggered", "failing"} \subseteq Idle \union Working
  BY DEF Driving, Working, Holding, Tasks, Dispatching
<1> QED
  BY <1>0, <1>1, <1>2, <1>3, GotoKeepsDrivers DEF Drives2
-----------------------------------------------------------------------------
LEMMA DispatchKeepsDrivers ==
  ASSUME DInv, NEW w \in Workers, Dispatch(w)
  PROVE  Drives2
<1>0. PlacesOK /\ MailOK /\ RowsNamed /\ Verify \in TableStages
  BY DEF DInv, IInv, TableStages
<1>1. NewIsDriven
  <2>1. CASE UNCHANGED Rows
    BY <2>1, NoWriteIsDriven
  <2>2. CASE ClaimVerify(w) /\ ~(UNCHANGED Rows)
    BY <1>0, <2>2, ClaimIsDriven DEF ClaimVerify
  <2>3. CASE StoreCursor(w) /\ ~(UNCHANGED Rows)
    BY <1>0, <2>3, OtherIsDriven DEF StoreCursor
  <2>4. CASE FinishDispatch(w) /\ ~(UNCHANGED Rows)
    <3>1. PICK status \in {"waiting", "error"} : Table!MarkFenced(Verify, DispatchMark(w, status))
      BY <2>4 DEF FinishDispatch, MarkDispatched
    <3>2. DispatchMark(w, status).status # "queued"
      BY DEF DispatchMark, OwnerMark, Mark
    <3> QED
      BY <1>0, <3>1, <3>2, MarkIsDriven
  <2> QED
    BY <2>1, <2>2, <2>3, <2>4 DEF Dispatch, CallVerify
<1>2. PICK from \in Dispatching, to \in {"acked"} \union Dispatching \union {"triggered", "failing", "endError"} :
        Goto(w, from, to)
  BY DEF Dispatch, ClaimVerify, StoreCursor, CallVerify, FinishDispatch, MarkDispatched, After, Dispatching
<1>3. from \notin Driving /\ to \in Idle \union Working
  BY PlacesDiffer DEF Idle, Working, Holding, Tasks
<1> QED
  BY <1>0, <1>1, <1>2, <1>3, GotoKeepsDrivers DEF Drives2

LEMMA RepairKeepsDrivers ==
  ASSUME DInv, StartRepair \/ RepairDies
  PROVE  Drives2
<1>0. PlacesOK /\ MailOK /\ RowsNamed /\ Repair \in Workers /\ Repair \notin Messages
  BY MessagesWork DEF DInv, IInv, Repair, Messages
<1>1. CASE StartRepair
  <2>1. NewIsDriven
    BY <1>0, <1>1, OtherIsDriven DEF StartRepair
  <2>2. /\ pc' = [pc EXCEPT ![Repair] = "dispatch"] /\ "dispatch" \in Working
        /\ mail' = [mail EXCEPT ![Repair].run = stages'[Verify].run]
    BY <1>1 DEF StartRepair, Working, Holding, Tasks, Dispatching
  <2>3. PlacesOK'
    BY <1>0, <2>2 DEF PlacesOK
  <2>4. DriversStay
    BY <1>0, <2>2, MessagesWork DEF DriversStay, WorksOn, PlacesOK, MailOK
  <2> QED
    BY <2>1, <2>3, <2>4 DEF Drives2
<1>2. CASE RepairDies
  <2>1. Goto(Repair, pc[Repair], "acked") /\ pc[Repair] \notin Driving /\ "acked" \in Idle \union Working
    BY <1>2, PlacesDiffer DEF RepairDies, Idle
  <2> QED
    BY <1>0, <1>2, <2>1, GotoKeepsDrivers, NoWriteIsDriven DEF Drives2, RepairDies
<1> QED
  BY <1>1, <1>2

LEMMA QueuePostVerifyKeepsDrivers ==
  ASSUME DInv, NEW run \in Runs, NEW producer, QueuePostVerify(run, producer)
  PROVE  Drives2
<1>1. PostVerify \in Queues /\ PlacesOK
  BY DEF Queues, DInv
<1>2. CASE UNCHANGED <<Rows, queue>>
  BY <1>1, <1>2, NoWriteIsDriven, SameQueueKeepsDrivers DEF Drives2
<1>3. CASE /\ \/ Table!AuthorizedInsert(PostVerify, run, Verified(run, producer))
              \/ Table!AuthorizedTransition(PostVerify, run, Verified(run, producer))
           /\ Post(PostVerify, run)
  BY <1>1, <1>3, PostedIsDriven
<1> QED
  BY <1>2, <1>3 DEF QueuePostVerify

LEMMA AnswersKeepDrivers ==
  ASSUME DInv,
         \/ \E p \in Producers : VerifyEnds(p)
         \/ \E a \in answers : HandleAnswer(a)
         \/ \E h \in continuing : Continue(h) \/ HandlerDies(h)
  PROVE  Drives2
<1>0. PlacesOK /\ RowsNamed /\ Verify \in TableStages
  BY DEF DInv, IInv, TableStages
<1>1. CASE \E p \in Producers : VerifyEnds(p)
  BY <1>0, <1>1, NoWriteIsDriven, SameQueueKeepsDrivers DEF VerifyEnds, Drives2
<1>2. ASSUME NEW a \in answers, HandleAnswer(a)
      PROVE  Drives2
  <2> DEFINE k == CallbackMark(stages[Verify].run, a.status, a.producer)
  <2>1. k.status # "queued"
    BY DEF CallbackMark, Mark, DInv, IInv, AnswersOK
  <2>2. Table!MarkFenced(Verify, k) \/ UNCHANGED Rows
    BY <1>2 DEF HandleAnswer
  <2> HIDE DEF k
  <2>3. NewIsDriven
    BY <1>0, <2>1, <2>2, MarkIsDriven, NoWriteIsDriven
  <2> QED
    BY <1>0, <1>2, <2>3, SameQueueKeepsDrivers DEF HandleAnswer, Drives2
<1>3. ASSUME NEW h \in continuing, Continue(h)
      PROVE  Drives2
  <2>1. h.run \in Runs
    BY DEF DInv, IInv, AnswersOK
  <2> QED
    BY <1>3, <2>1, QueuePostVerifyKeepsDrivers DEF Continue
<1>4. CASE \E h \in continuing : HandlerDies(h)
  BY <1>0, <1>4, NoWriteIsDriven, SameQueueKeepsDrivers DEF HandlerDies, Drives2
<1> QED
  BY <1>1, <1>2, <1>3, <1>4

LEMMA BackfillKeepsDrivers ==
  ASSUME DInv, BackfillDone \/ BackfillFails
  PROVE  Drives2
<1>0. PlacesOK /\ MailOK /\ RowsNamed /\ PostPipeline \in TableStages /\ PostPipeline \in Queues /\ Run \in Runs
  BY RunsAssumption DEF DInv, IInv, TableStages, Queues
<1>1. CASE UNCHANGED <<Rows, queue>>
  BY <1>0, <1>1, NoWriteIsDriven, SameQueueKeepsDrivers DEF Drives2
<1>2. CASE Table!EnqueueResume(PostPipeline, Run) /\ Post(PostPipeline, Run)
  BY <1>0, <1>2, PostedIsDriven
<1>3. ASSUME NEW status \in {"error", "waiting"},
             Table!MarkFenced(PostPipeline, CallbackMark(Run, status, None))
      PROVE  NewIsDriven
  <2>1. CallbackMark(Run, status, None).status # "queued"
    BY DEF CallbackMark, Mark
  <2> QED
    BY <1>0, <1>3, <2>1, MarkIsDriven
<1>4. CASE Table!MarkFenced(PostPipeline, CallbackMark(Run, "error", None)) /\ UNCHANGED queue
  BY <1>0, <1>3, <1>4, SameQueueKeepsDrivers DEF Drives2
<1>5. CASE /\ Table!MarkFenced(PostPipeline, CallbackMark(Run, "waiting", None))
           /\ \E m \in Messages : /\ Unused(m, "recovery")
                                  /\ pc' = [pc EXCEPT ![m] = "queued"]
                                  /\ mail' = [mail EXCEPT ![m] = Envelope("recovery", Run)]
  <2>1. "queued" \in Driving /\ "unused" \notin Driving
    BY DEF Driving
  <2>2. PlacesOK' /\ DriversStay
    BY <1>0, <1>5, <2>1, NewMessageKeepsDrivers DEF Unused
  <2> QED
    BY <1>3, <1>5, <2>2 DEF Drives2
<1> QED
  BY <1>1, <1>2, <1>4, <1>5 DEF BackfillDone, BackfillFails

LEMMA PipelineKeepsDrivers ==
  ASSUME DInv, Pipeline \/ Watchdog \/ LearningCloses
  PROVE  Drives2
<1>0. /\ PlacesOK /\ MailOK /\ RowsNamed /\ PostPipeline \in TableStages /\ PostVerify \in TableStages
      /\ PostPipeline \in Queues /\ Run \in Runs
  BY RunsAssumption DEF DInv, IInv, TableStages, Queues
<1>1. CASE StartPipeline \/ PipelineSucceeds
  BY <1>0, <1>1, OtherIsDriven, SameQueueKeepsDrivers DEF StartPipeline, PipelineSucceeds, Drives2
<1>7. CASE ResearchOpens
  BY <1>0, <1>7, NoWriteIsDriven, SameQueueKeepsDrivers DEF ResearchOpens, Drives2
<1>2. CASE QueuePostPipeline
  BY <1>0, <1>2, PostedIsDriven DEF QueuePostPipeline
<1>3. CASE WatchdogPostVerify
  BY <1>0, <1>3, QueuePostVerifyKeepsDrivers DEF WatchdogPostVerify
<1>4. CASE WatchdogPostPipeline
  BY <1>0, <1>4, PostedIsDriven DEF WatchdogPostPipeline
<1>5. ASSUME NEW s \in {PostPipeline, PostVerify}, NEW run,
             Table!MarkFenced(s, CallbackMark(run, "success", None)), UNCHANGED queue
      PROVE  Drives2
  <2>1. CallbackMark(run, "success", None).status # "queued"
    BY DEF CallbackMark, Mark
  <2> QED
    BY <1>0, <1>5, <2>1, MarkIsDriven, SameQueueKeepsDrivers DEF Drives2
<1>6. CASE WatchdogCloses \/ LearningCloses
  BY <1>5, <1>6 DEF WatchdogCloses, LearningCloses
<1> QED
  BY <1>1, <1>2, <1>3, <1>4, <1>6, <1>7 DEF Pipeline, Watchdog

LEMMA LeasesKeepDrivers ==
  ASSUME DInv, NEW s \in {PostPipeline, Verify, PostVerify}, LeaseRunsOut(s) \/ WorkerStalls(s)
  PROVE  Drives2
<1>1. PlacesOK /\ RowsNamed /\ QueuedIsFree /\ s \in TableStages
  BY DEF DInv, IInv, TableStages
<1> QED
  BY <1>1, ExpiryIsDriven, SameQueueKeepsDrivers DEF LeaseRunsOut, WorkerStalls, Drives2

LEMMA StepKeepsDrivers ==
  ASSUME DInv, [Next]_vars
  PROVE  Drives2
<1>1. ASSUME NEW m \in Messages, Proceed(m) \/ Stray(m)
      PROVE  Drives2
  BY <1>1, SendingKeepsDrivers, ReceiveRecoveryKeepsDrivers, ResumeKeepsDrivers, ClaimFailsKeepsDrivers,
     ClaimKeepsDrivers, QuietKeepsDrivers, SnapshotFailsKeepsDrivers, FinishKeepsDrivers,
     EnqueueVerifyKeepsDrivers DEF Proceed, Stray
<1>2. CASE UNCHANGED vars
  BY <1>2, NoWriteIsDriven, SameQueueKeepsDrivers DEF vars, Rows, DInv, Drives2
<1> QED
  BY <1>1, <1>2, DispatchKeepsDrivers, AnswersKeepDrivers, BackfillKeepsDrivers, PipelineKeepsDrivers,
     RepairKeepsDrivers, LeasesKeepDrivers DEF Next

LEMMA InitDInv == Init => DInv
<1> SUFFICES ASSUME Init PROVE DInv
  OBVIOUS
<1>1. PlacesOK
  BY DEF Init, PlacesOK, Idle
<1>2. \A s \in TableStages : stages[s].status = "absent"
  BY DEF Init, Table!Init, Table!Absent, TableStages
<1>3. QueuedIsFree /\ QueuedIsDriven /\ Gated
  BY <1>2, QueuesAreStages DEF QueuedIsFree, QueuedIsDriven, Gated, Init, Table!Init, Table!Absent
<1> QED
  BY <1>1, <1>3, InitNamed DEF DInv

LEMMA DriversKept == DInv /\ [Next]_vars => DInv'
<1> SUFFICES ASSUME DInv, [Next]_vars PROVE DInv'
  OBVIOUS
<1>1. IInv'
  BY NamesKept DEF DInv
<1>2. QueuedIsFree'
  <2>1. Table!Next \/ NoWrite
    BY StepAllowed DEF Allowed, DInv
  <2> QED
    BY <2>1, TableKeepsFree DEF DInv, IInv, NoWrite, QueuedIsFree
<1>3. Drives2
  BY StepKeepsDrivers
<1>4. QueuedIsDriven'
  <2> SUFFICES ASSUME NEW s \in Queues, stages'[s].status = "queued"
               PROVE  \E m \in Messages : WorksOn(m, s)'
    BY DEF QueuedIsDriven
  <2>1. CASE stages'[s] = stages[s]
    BY <1>3, <2>1 DEF DInv, QueuedIsDriven, Drives2, DriversStay
  <2>2. CASE stages'[s] # stages[s]
    BY <1>3, <2>2 DEF Drives2, NewIsDriven
  <2> QED
    BY <2>1, <2>2
<1>5. Gated'
  BY StepIsSound, HistoryIsKept DEF Sound, ResearchIsGated, Gated, ResearchAllowed, DInv
<1> QED
  BY <1>1, <1>2, <1>3, <1>4, <1>5 DEF DInv, Drives2

(* A queued stage has a message that will work on it, unless its sender     *)
(* died or its retries ran out, for any number of messages, retries,        *)
(* crashes and repairs and whenever the research gate opens.                *)
(* (queuePostPipelineStage, which asks the gate first, queuePostVerifyStage *)
(* and the consumers, which acknowledge only what they do not own.)         *)
THEOREM QueuedStageHasDriver == Spec => []QueuedHasDriver
<1>1. DInv => QueuedHasDriver
  <2>1. \A m \in Messages, s \in Queues : WorksOn(m, s) => Drives(m, s)
    BY DEF WorksOn, Drives, StageOf, Driving, Queues, PostPipeline, PostVerify
  <2> QED
    BY <2>1 DEF DInv, QueuedIsDriven, QueuedHasDriver, Queues
<1> QED
  BY <1>1, InitDInv, DriversKept, PTL DEF Spec
-----------------------------------------------------------------------------
(* The counters.                                                            *)
CountersOK ==
  /\ detours \in 0 .. MaxDetours /\ backfills \in 0 .. MaxDetours
  /\ lifecycle \in {"open", "verify_triggered", "replay"}
  /\ redispatches \in 0 .. MaxRedispatches

ClaimsOK == issued \in [TableStages -> SUBSET Holders]

LEMMA QuietKeepsCounters ==
  ASSUME CountersOK, Straight \/ Detour,
         \/ UNCHANGED <<backfills, lifecycle, redispatches>>
         \/ backfills > 0 /\ backfills' = backfills - 1 /\ UNCHANGED <<lifecycle, redispatches>>
         \/ backfills < MaxDetours /\ backfills' = backfills + 1 /\ UNCHANGED <<lifecycle, redispatches>>
         \/ lifecycle' \in {"open", "verify_triggered", "replay"} /\ UNCHANGED <<backfills, redispatches>>
         \/ /\ redispatches' \in {redispatches, redispatches + 1}
            /\ redispatches' # redispatches => redispatches < MaxRedispatches
            /\ UNCHANGED <<backfills, lifecycle>>
  PROVE  CountersOK'
<1> USE BoundsAssumption
<1>1. detours' \in {detours, detours + 1} /\ detours' \in 0 .. MaxDetours
  BY DEF Straight, Detour, CountersOK
<1>2. Detour => detours' = detours + 1
  BY DEF Detour
<1> QED
  BY <1>1, <1>2 DEF CountersOK

LEMMA CountersKept ==
  ASSUME CountersOK, [Next]_vars
  PROVE  CountersOK'
<1>1. CASE UNCHANGED vars
  BY <1>1 DEF vars, chain, CountersOK
<1>2. ASSUME NEW m \in Messages, Proceed(m) \/ Stray(m)
      PROVE  CountersOK'
  <2>1. CASE Recorded(m)
    BY <2>1, QuietKeepsCounters DEF Recorded, CountersOK
  <2>2. CASE SnapshotPending(m) \/ SnapshotFails(m)
    BY <2>2, QuietKeepsCounters DEF SnapshotPending, SnapshotFails
  <2>3. CASE ~(Recorded(m) \/ SnapshotPending(m) \/ SnapshotFails(m))
    <3>1. UNCHANGED <<backfills, lifecycle, redispatches>> /\ (Straight \/ Detour)
      BY <1>2, <2>3 DEF Proceed, Stray, Send, ReceiveRecovery, Resume, ClaimStage, ClaimFails, Redeliver,
         LeaseLost, EnqueueVerify, Record, PostVerifyTasks, Finish, SendThrows, SenderDies, Crash,
         HeartbeatFails, Throws, chain
    <3> QED
      BY <3>1, QuietKeepsCounters
  <2> QED
    BY <2>1, <2>2, <2>3
<1>3. CASE \/ \E w \in Workers : Dispatch(w)
           \/ \E p \in Producers : VerifyEnds(p)
           \/ \E a \in answers : HandleAnswer(a)
           \/ \E h \in continuing : Continue(h) \/ HandlerDies(h)
           \/ LearningCloses \/ Pipeline \/ StartRepair \/ RepairDies
           \/ WatchdogPostPipeline \/ WatchdogCloses
           \/ \E s \in {PostPipeline, Verify, PostVerify} : LeaseRunsOut(s) \/ WorkerStalls(s)
  <2>1. UNCHANGED <<backfills, lifecycle, redispatches>> /\ (Straight \/ Detour)
    BY <1>3 DEF Dispatch, ClaimVerify, StoreCursor, CallVerify, FinishDispatch, MarkDispatched, VerifyEnds,
       HandleAnswer, Continue, HandlerDies, LearningCloses, Pipeline, StartPipeline, PipelineSucceeds,
       ResearchOpens, QueuePostPipeline, StartRepair, RepairDies, WatchdogPostPipeline, WatchdogCloses,
       LeaseRunsOut, WorkerStalls, chain
  <2> QED
    BY <2>1, QuietKeepsCounters
<1>4. CASE BackfillDone \/ BackfillFails
  BY <1>4, QuietKeepsCounters DEF BackfillDone, BackfillFails
<1>5. CASE WatchdogPostVerify
  BY <1>5, QuietKeepsCounters DEF WatchdogPostVerify
<1> QED
  BY <1>1, <1>2, <1>3, <1>4, <1>5 DEF Next, Watchdog

LEMMA TableKeepsClaims ==
  ASSUME ClaimsOK, Table!Next
  PROVE  ClaimsOK'
<1>1. PICK s \in TableStages, o \in Holders :
        issued' = issued \/ issued' = [issued EXCEPT ![s] = @ \union {o}]
  BY ChainStageIsStage, OwnersAssumption, BoundsAssumption, RunsAssumption
     DEF Table!Next, Table!Enqueue, Table!EnqueueInsert, Table!EnqueueAdopt, Table!EnqueueResume,
     Table!EnqueueSupersede, Table!AuthorizedInsert, Table!AuthorizedTransition, Table!Work, Table!Claim,
     Table!Heartbeat, Table!SetCursor, Table!MarkFenced, Table!Dispatch, Table!Reserve, Table!Commit,
     Table!Fail, Table!Accept, Table!ExpireLease, Table!LearningWrites, Table!Write, Table!Issue,
     Table!Execution, Execution, TableStages, Holders
<1> QED
  BY <1>1 DEF ClaimsOK

(* Type correctness of the rows, the messages and the counters.             *)
THEOREM TypeCorrect == Spec => []TypeOK
<1> DEFINE HistoryOK == closedBy \in Producers \union {None} /\ researchable \subseteq Runs
           TInv == DInv /\ CountersOK /\ ClaimsOK /\ HistoryOK
<1>1. Init => TInv
  BY BoundsAssumption, InitDInv DEF Init, Table!Init, CountersOK, ClaimsOK, TableStages
<1>2. TInv /\ [Next]_vars => TInv'
  <2> SUFFICES ASSUME TInv, [Next]_vars PROVE TInv'
    OBVIOUS
  <2>1. ClaimsOK'
    <3>1. Table!Next \/ NoWrite
      BY StepAllowed DEF Allowed, DInv
    <3> QED
      BY <3>1, TableKeepsClaims DEF NoWrite, ClaimsOK
  <2>2. HistoryOK'
    BY HistoryIsKept, RunsAssumption DEF DInv
  <2> QED
    BY <2>1, <2>2, CountersKept, DriversKept
<1>3. TInv => TypeOK
  <2> SUFFICES ASSUME TInv PROVE TypeOK
    OBVIOUS
  <2>1. Table!TypeOK
    BY DEF DInv, IInv, RowsNamed, ClaimsOK, Table!TypeOK, Table!Row, Row, Table!Statuses, Statuses,
       Table!Holders, Holders, TableStages
  <2> QED
    BY <2>1 DEF DInv, IInv, MailOK, AnswersOK, PlacesOK, CountersOK, TypeOK
<1> QED
  BY <1>1, <1>2, <1>3, PTL DEF Spec
=============================================================================
