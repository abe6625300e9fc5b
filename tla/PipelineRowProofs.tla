-------------------------- MODULE PipelineRowProofs --------------------------
(***************************************************************************)
(* Proofs about the two protocols that keep a business date's row of       *)
(* pipeline_stage_leases.  First the table of chain stages,                *)
(* PipelineStageLease, for any sets of runs, owners, cursors and stages.   *)
(*                                                                         *)
(* Every step writes at most one row.  A row write is either ordinary,     *)
(* leaving no claim behind that was not there before (Ordinary), or hands  *)
(* the stage to a fresh claim (Handover).  The lemmas below show which of  *)
(* the two each SQL statement is; the theorems only use that.              *)
(***************************************************************************)
EXTENDS PipelineStageLease, PipelineDispatch, TLAPS

Ordinary(s, old, new) ==
  /\ new \in Row
  /\ LeaseLive(new) => LeaseLive(old)
  /\ new.owner \in {None, old.owner}
  /\ LeaseLive(new) => new.owner = old.owner
  /\ LeaseLive(old) => new.run = old.run
  /\ new.run \in Runs \/ (new.run = old.run /\ (Present(new) => Present(old)))
  /\ old.status = "success" =>
       \/ new.status = "success" /\ new.run = old.run
       \/ s # Execution /\ new.run # old.run

Handover(old, new, o) ==
  /\ new \in Row
  /\ ~LeaseLive(old)
  /\ LeaseLive(new)
  /\ new.owner = o
  /\ old.status # "success"
  /\ new.run \in Runs \/ (new.run = old.run /\ Present(old))

(* What every reachable row satisfies besides its type: a claim that holds  *)
(* the stage was issued for it, a running row that is live has an owner, and*)
(* a row that is there has a run.                                           *)
Held(s) ==
  /\ stages[s].owner # None => stages[s].owner \in issued[s]
  /\ LeaseLive(stages[s]) => stages[s].owner # None
  /\ Present(stages[s]) => stages[s].run \in Runs

IInv == TypeOK /\ \A s \in Stages : Held(s)
-----------------------------------------------------------------------------
(* The statements that may write any chain stage.                           *)
LEMMA AbsentIsRow == Absent \in Row
BY DEF Absent, Row, Statuses

LEMMA QueuedIsRow == \A run \in Runs : QueuedFor(run) \in Row /\ ~LeaseLive(QueuedFor(run))
                                       /\ QueuedFor(run).owner = None
BY NoneAssumption DEF QueuedFor, Absent, Row, Statuses, LeaseLive

LEMMA ReleasedIsRow ==
  ASSUME NEW r \in Row, NEW status \in Statuses
  PROVE  /\ Released(r, status) \in Row
         /\ Released(r, status).owner = None
         /\ Released(r, status).run = r.run
         /\ Released(r, status).status = status
         /\ Released(r, status).cursor = r.cursor
         /\ ~LeaseLive(Released(r, status))
BY DEF Released, Row, Statuses, LeaseLive

LEMMA RequeueIsOrdinary ==
  ASSUME NEW s, NEW r \in Row, NEW run \in Runs,
         ~LeaseLive(r), r.status = "success" => s # Execution /\ r.run # run
  PROVE  Ordinary(s, r, QueuedFor(run))
BY QueuedIsRow DEF Ordinary, QueuedFor, Absent, Present

LEMMA ResumeIsOrdinary ==
  ASSUME NEW s, NEW r \in Row, Resumable(r)
  PROVE  Ordinary(s, r, ResumeSet(r))
BY ReleasedIsRow DEF Ordinary, Present, ResumeSet, Resumable, Expired, Statuses, LeaseLive

LEMMA HeartbeatIsOrdinary ==
  ASSUME NEW s, NEW r \in Row, LeaseLive(r)
  PROVE  Ordinary(s, r, HeartbeatSet(r))
BY DEF Ordinary, Present, HeartbeatSet, LeaseLive, Row

LEMMA CursorIsOrdinary ==
  ASSUME NEW s, NEW r \in Row, LeaseLive(r), NEW cursor \in Cursors
  PROVE  Ordinary(s, r, CursorSet(r, cursor))
BY DEF Ordinary, Present, CursorSet, LeaseLive, Row

LEMMA MarksType ==
  ASSUME NEW s, NEW run \in Runs, NEW m \in Marks(s, run)
  PROVE  m.run = run /\ m.status \in Statuses /\ m.next \in Cursors \union {None}
<1>1. CASE m \in OwnerMarks(s, run)
  <2>1. PICK status \in {"waiting", "success", "error"}, o \in Owners,
             c \in Cursors \union {None}, n \in Cursors \union {None} :
          m = OwnerMark(run, status, o, c, n)
    BY <1>1 DEF OwnerMarks
  <2>2. m.run = run /\ m.status = status /\ m.next = n
    BY <2>1 DEF OwnerMark, Mark
  <2> QED
    BY <2>2 DEF Statuses
<1>2. CASE m \in CallbackMarks(run)
  BY <1>2 DEF CallbackMarks, CallbackMark, Mark, Statuses
<1>3. CASE m = SendFailedMark(run)
  BY <1>3 DEF SendFailedMark, Mark, Statuses
<1> QED
  BY <1>1, <1>2, <1>3 DEF Marks

LEMMA MarkIsOrdinary ==
  ASSUME NEW s, NEW r \in Row, NEW m, m.run \in Runs, m.status \in Statuses,
         m.next \in Cursors \union {None}, MarkWhere(r, m)
  PROVE  Ordinary(s, r, MarkSet(r, m))
<1> DEFINE new == MarkSet(r, m)
           next == IF m.next = None THEN r.cursor ELSE m.next
<1>1. r.run \in Runs /\ (r.status = "success" => m.status = "success")
  BY DEF MarkWhere
<1>2. next \in Cursors \union {None}
  BY DEF Row
<1>3. /\ new.owner = None
      /\ new.run = r.run
      /\ new.status = m.status
      /\ new.live = FALSE
  BY DEF MarkSet, Released, Row
<1>4. new \in Row
  BY <1>2 DEF MarkSet, Released, Row
<1> QED
  BY <1>1, <1>3, <1>4 DEF Ordinary, Present, LeaseLive

LEMMA ClaimIsHandover ==
  ASSUME NEW r \in Row, NEW run, NEW o \in Owners, ClaimWhere(r, run)
  PROVE  Handover(r, ClaimSet(r, o), o)
BY DEF Handover, Present, ClaimWhere, ClaimSet, Expired, LeaseLive, Row, Holders, Statuses
-----------------------------------------------------------------------------
(* The statements of pipeline_execution.                                    *)
LEMMA ReserveIsHandover ==
  ASSUME NEW r \in Row, NEW attempt \in Runs, NEW expected, ReserveWhere(r, expected)
  PROVE  Handover(r, ReserveSet(attempt), attempt)
BY DEF Handover, ReserveWhere, ReserveSet, QueuedFor, Absent, Present, LeaseLive,
       Row, Holders, Statuses

LEMMA CommitIsOrdinary ==
  ASSUME NEW s, NEW r \in Row, NEW attempt, NEW execution \in Cursors \union {None},
         CommitWhere(r, attempt)
  PROVE  Ordinary(s, r, CommitSet(r, execution))
BY DEF Ordinary, Present, CommitWhere, CommitSet, HeldBy, LeaseLive, Row, Statuses

LEMMA FailIsOrdinary ==
  ASSUME NEW s, NEW r \in Row, NEW attempt, FailWhere(r, attempt)
  PROVE  Ordinary(s, r, FailSet(r))
<1>1. "error" \in Statuses
  BY DEF Statuses
<1> QED
  BY <1>1, ReleasedIsRow DEF Ordinary, Present, FailWhere, FailSet, LeaseLive

LEMMA AcceptIsOrdinary ==
  ASSUME NEW s, NEW r \in Row, NEW run, NEW status \in {"success", "error"},
         AcceptWhere(r, run, status)
  PROVE  Ordinary(s, r, AcceptSet(r, status))
<1>1. status \in Statuses
  BY DEF Statuses
<1> QED
  BY <1>1, ReleasedIsRow DEF Ordinary, Present, AcceptWhere, AcceptSet, LeaseLive

LEMMA ExpiryIsOrdinary ==
  ASSUME NEW s, NEW r \in Row
  PROVE  Ordinary(s, r, [r EXCEPT !.live = FALSE])
BY DEF Ordinary, Present, LeaseLive, Row
-----------------------------------------------------------------------------
(* The row another run would take while learning still needs it.            *)
RespectsLearning(s, new) ==
  s = PostVerify /\ learning.live /\ stages[s].run \in {None, learning.run}
    => new.run \in {stages[s].run, learning.run}

OrdinaryStep(s) ==
  \E new \in Row : /\ Write(s, new)
                   /\ Ordinary(s, stages[s], new)
                   /\ RespectsLearning(s, new)
HandoverStep(s) ==
  \E o \in Holders, new \in Row : /\ Fresh(o)
                                  /\ Issue(s, o, new)
                                  /\ Handover(stages[s], new, o)
                                  /\ RespectsLearning(s, new)

LEMMA RowType ==
  ASSUME TypeOK, NEW s \in Stages
  PROVE  stages[s] \in Row
BY DEF TypeOK

(* A requeue of the row for run, by any of the statements that do it.       *)
LEMMA RequeueStep ==
  ASSUME TypeOK, NEW s \in Stages, NEW run \in Runs, ~LeaseLive(stages[s]),
         stages[s].status = "success" => s # Execution /\ stages[s].run # run,
         Write(s, QueuedFor(run)), RespectsLearning(s, QueuedFor(run))
  PROVE  OrdinaryStep(s)
BY RowType, QueuedIsRow, RequeueIsOrdinary DEF OrdinaryStep

LEMMA EnqueueSteps ==
  ASSUME IInv, NEW s \in ChainStages, NEW run \in Runs, Enqueue(s, run)
  PROVE  OrdinaryStep(s)
<1> s \in Stages /\ s # Execution
  BY DEF ChainStages
<1> stages[s] \in Row
  BY RowType DEF IInv
<1>a. QueuedFor(run).run = run
  BY DEF QueuedFor, Absent
<1>b. ~Present(stages[s]) /\ MayCreate(s, run) => RespectsLearning(s, QueuedFor(run))
  BY <1>a DEF MayCreate, RespectsLearning
<1>c. Present(stages[s]) /\ MayLeave(s, run) => RespectsLearning(s, QueuedFor(run))
  BY <1>a, NoneAssumption DEF MayLeave, RespectsLearning, IInv, Held
<1>d. Resumable(stages[s]) => Present(stages[s]) /\ ~LeaseLive(stages[s]) /\ stages[s].status # "success"
  BY DEF Resumable, Expired, Present, LeaseLive
<1>1. CASE EnqueueInsert(s, run)
  BY <1>1, <1>b, RequeueStep DEF EnqueueInsert, IInv, Present, LeaseLive
<1>2. CASE EnqueueAdopt(s, run)
  BY <1>2, <1>c, <1>d, RequeueStep DEF EnqueueAdopt, AdoptWhere, IInv
<1>3. CASE \E expected \in {None, run} : EnqueueResume(s, expected)
  <2>1. Resumable(stages[s]) /\ Write(s, ResumeSet(stages[s]))
    BY <1>3 DEF EnqueueResume, ResumeWhere
  <2>2. ResumeSet(stages[s]).run = stages[s].run /\ ResumeSet(stages[s]) \in Row
    BY ReleasedIsRow DEF ResumeSet, Statuses
  <2> QED
    BY <2>1, <2>2, ResumeIsOrdinary DEF OrdinaryStep, RespectsLearning
<1>4. CASE EnqueueSupersede(s, run)
  BY <1>4, <1>c, RequeueStep DEF EnqueueSupersede, SupersedeWhere, IInv, Present, LeaseLive
<1>5. CASE \E a \in Authority(run) :
             a.stage # s /\ (AuthorizedInsert(s, run, a) \/ AuthorizedTransition(s, run, a))
  <2>1. CASE \E a \in Authority(run) : AuthorizedInsert(s, run, a)
    BY <2>1, <1>b, RequeueStep DEF AuthorizedInsert, IInv, Present, LeaseLive
  <2>2. CASE \E a \in Authority(run) : AuthorizedTransition(s, run, a)
    BY <2>2, <1>c, <1>d, RequeueStep
    DEF AuthorizedTransition, TransitionWhere, IInv, LeaseLive
  <2> QED
    BY <1>5, <2>1, <2>2
<1> QED
  BY <1>1, <1>2, <1>3, <1>4, <1>5 DEF Enqueue

LEMMA ClaimSteps ==
  ASSUME IInv, NEW s \in ChainStages, NEW run \in Runs \union {None}, NEW o \in Owners,
         Claim(s, run, o)
  PROVE  HandoverStep(s)
<1> s \in Stages /\ stages[s] \in Row /\ o \in Holders
  BY RowType DEF IInv, ChainStages, Holders
<1>1. Handover(stages[s], ClaimSet(stages[s], o), o)
  BY ClaimIsHandover DEF Claim
<1>2. ClaimSet(stages[s], o) \in Row /\ RespectsLearning(s, ClaimSet(stages[s], o))
  BY <1>1 DEF Handover, RespectsLearning, ClaimSet, Row
<1> QED
  BY <1>1, <1>2 DEF Claim, HandoverStep

(* Writes that keep the run of the row.                                     *)
LEMMA SameRunStep ==
  ASSUME NEW s \in Stages, NEW new, new.run = stages[s].run,
         Write(s, new), Ordinary(s, stages[s], new)
  PROVE  OrdinaryStep(s)
BY DEF OrdinaryStep, Ordinary, RespectsLearning

LEMMA WorkSteps ==
  ASSUME IInv, NEW s \in ChainStages, NEW run \in Runs, NEW o \in Owners, Work(s, run, o)
  PROVE  OrdinaryStep(s) \/ HandoverStep(s)
<1> s \in Stages /\ stages[s] \in Row
  BY RowType DEF IInv, ChainStages
<1>1. CASE \E named \in {None, run} : Claim(s, named, o)
  BY <1>1, ClaimSteps
<1>2. CASE Heartbeat(s, run, o)
  <2>1. LeaseLive(stages[s]) /\ Write(s, HeartbeatSet(stages[s]))
    BY <1>2 DEF Heartbeat, HeartbeatWhere, HeldBy
  <2>2. HeartbeatSet(stages[s]).run = stages[s].run
    BY DEF HeartbeatSet, Row
  <2> QED
    BY <2>1, <2>2, HeartbeatIsOrdinary, SameRunStep
<1>3. CASE \E cursor \in Cursors : SetCursor(s, run, o, cursor)
  <2>1. PICK cursor \in Cursors : SetCursor(s, run, o, cursor)
    BY <1>3
  <2>2. LeaseLive(stages[s]) /\ Write(s, CursorSet(stages[s], cursor))
    BY <2>1 DEF SetCursor, CursorWhere, HeldBy
  <2>3. CursorSet(stages[s], cursor).run = stages[s].run
    BY DEF CursorSet, Row
  <2> QED
    BY <2>2, <2>3, CursorIsOrdinary, SameRunStep
<1> QED
  BY <1>1, <1>2, <1>3 DEF Work

LEMMA MarkSteps ==
  ASSUME IInv, NEW s \in ChainStages, NEW run \in Runs, NEW m \in Marks(s, run), MarkFenced(s, m)
  PROVE  OrdinaryStep(s)
<1> s \in Stages /\ stages[s] \in Row
  BY RowType DEF IInv, ChainStages
<1>1. MarkSet(stages[s], m).run = stages[s].run
  BY DEF MarkSet, Released, Row
<1>2. MarkWhere(stages[s], m) /\ Write(s, MarkSet(stages[s], m))
  BY DEF MarkFenced
<1> QED
  BY <1>1, <1>2, MarksType, MarkIsOrdinary, SameRunStep

LEMMA DispatchSteps ==
  ASSUME IInv, NEW run \in Runs, Dispatch(run)
  PROVE  Execution \in Stages /\ (OrdinaryStep(Execution) \/ HandoverStep(Execution))
<1>0. Execution \in Stages
  BY DEF Dispatch, Reserve, Commit, Fail, Accept
<1> DEFINE new == stages[Execution]
<1>a. new \in Row /\ run \in Holders /\ Execution # PostVerify
  BY <1>0, RowType DEF IInv, Holders, Execution, PostVerify
<1>1. CASE \E expected \in Runs \union {None} : Reserve(run, expected)
  <2>1. /\ Handover(new, ReserveSet(run), run)
        /\ Issue(Execution, run, ReserveSet(run))
        /\ Fresh(run)
    BY <1>1, <1>a, ReserveIsHandover DEF Reserve
  <2> QED
    BY <2>1, <1>0, <1>a DEF HandoverStep, Handover, RespectsLearning
<1>2. CASE \E execution \in Cursors \union {None} : Commit(run, execution)
  <2>1. PICK execution \in Cursors \union {None} : Commit(run, execution)
    BY <1>2
  <2>2. CommitSet(new, execution).run = new.run
    BY <1>a DEF CommitSet, Row
  <2> QED
    BY <2>1, <2>2, <1>0, <1>a, CommitIsOrdinary, SameRunStep DEF Commit
<1>3. CASE Fail(run)
  <2>1. FailSet(new).run = new.run
    BY <1>a DEF FailSet, Released, Row
  <2> QED
    BY <1>3, <2>1, <1>0, <1>a, FailIsOrdinary, SameRunStep DEF Fail
<1>4. CASE \E status \in {"success", "error"} : Accept(run, status)
  <2>1. PICK status \in {"success", "error"} : Accept(run, status)
    BY <1>4
  <2>2. AcceptSet(new, status).run = new.run
    BY <1>a DEF AcceptSet, Released, Row
  <2> QED
    BY <2>1, <2>2, <1>0, <1>a, AcceptIsOrdinary, SameRunStep DEF Accept
<1> QED
  BY <1>0, <1>1, <1>2, <1>3, <1>4 DEF Dispatch

LEMMA ExpirySteps ==
  ASSUME IInv, NEW s \in Stages, ExpireLease(s)
  PROVE  OrdinaryStep(s)
<1> DEFINE new == [stages[s] EXCEPT !.live = FALSE]
<1>1. stages[s] \in Row /\ new.run = stages[s].run
  BY RowType DEF IInv, Row
<1> QED
  BY <1>1, ExpiryIsOrdinary, SameRunStep DEF ExpireLease

LEMMA NextSteps ==
  ASSUME IInv, Next
  PROVE  LearningWrites \/ \E s \in Stages : OrdinaryStep(s) \/ HandoverStep(s)
<1> ChainStages \subseteq Stages
  BY DEF ChainStages
<1> QED
  BY EnqueueSteps, WorkSteps, MarkSteps, DispatchSteps, ExpirySteps DEF Next
-----------------------------------------------------------------------------
LEMMA InitIInv == Init => IInv
BY AbsentIsRow DEF Init, IInv, TypeOK, Held, NoLearning, Absent, LeaseLive, Present

(* The effect of one row write on the parts of IInv.                        *)
LEMMA OrdinaryPreserves ==
  ASSUME IInv, NEW s \in Stages, OrdinaryStep(s)
  PROVE  IInv'
<1>1. PICK new \in Row : Write(s, new) /\ Ordinary(s, stages[s], new)
  BY DEF OrdinaryStep
<1>2. TypeOK'
  BY <1>1 DEF IInv, TypeOK, Write
<1>3. ASSUME NEW t \in Stages PROVE Held(t)'
  <2>1. CASE t = s
    <3>1. stages'[s] = new /\ issued' = issued
      BY <1>1 DEF IInv, TypeOK, Write
    <3> QED
      BY <2>1, <3>1, <1>1 DEF IInv, Held, Ordinary, LeaseLive, Present
  <2>2. CASE t # s
    <3>1. stages'[t] = stages[t] /\ issued' = issued
      BY <2>2, <1>1 DEF IInv, TypeOK, Write
    <3> QED
      BY <3>1 DEF IInv, Held, LeaseLive, Present
  <2> QED
    BY <2>1, <2>2
<1> QED
  BY <1>2, <1>3 DEF IInv

LEMMA HandoverPreserves ==
  ASSUME IInv, NEW s \in Stages, HandoverStep(s)
  PROVE  IInv'
<1>1. PICK o \in Holders, new \in Row : Issue(s, o, new) /\ Handover(stages[s], new, o)
  BY DEF HandoverStep
<1>2. TypeOK'
  BY <1>1 DEF IInv, TypeOK, Issue
<1>3. ASSUME NEW t \in Stages PROVE Held(t)'
  <2>1. CASE t = s
    <3>1. stages'[s] = new /\ issued'[s] = issued[s] \union {o}
      BY <1>1 DEF IInv, TypeOK, Issue
    <3>2. o # None
      BY NoneAssumption DEF Holders
    <3> QED
      BY <2>1, <3>1, <3>2, <1>1 DEF IInv, Held, Handover, LeaseLive, Present
  <2>2. CASE t # s
    <3>1. stages'[t] = stages[t] /\ issued'[t] = issued[t]
      BY <2>2, <1>1 DEF IInv, TypeOK, Issue
    <3> QED
      BY <3>1 DEF IInv, Held, LeaseLive, Present
  <2> QED
    BY <2>1, <2>2
<1> QED
  BY <1>2, <1>3 DEF IInv

LEMMA NextPreserves == IInv /\ [Next]_vars => IInv'
<1> SUFFICES ASSUME IInv, [Next]_vars PROVE IInv'
  OBVIOUS
<1>1. CASE UNCHANGED vars
  BY <1>1 DEF vars, IInv, TypeOK, Held, LeaseLive, Present
<1>2. CASE LearningWrites
  BY <1>2 DEF LearningWrites, IInv, TypeOK, Held, LeaseLive, Present
<1>3. CASE \E s \in Stages : OrdinaryStep(s) \/ HandoverStep(s)
  BY <1>3, OrdinaryPreserves, HandoverPreserves
<1> QED
  BY <1>1, <1>2, <1>3, NextSteps

(* The inductive invariant holds in every reachable state.                  *)
THEOREM IInvariance == Spec => []IInv
BY InitIInv, NextPreserves, PTL DEF Spec

(* Every row the statements of pipelineStageLease.ts produce is well formed.*)
THEOREM TypeCorrect == Spec => []TypeOK
<1>1. IInv => TypeOK
  BY DEF IInv
<1> QED
  BY <1>1, IInvariance, PTL
-----------------------------------------------------------------------------
(* What a step does to one row, whichever step it is.                       *)
LEMMA RowSteps ==
  ASSUME IInv, Next, NEW s \in Stages
  PROVE  \/ stages'[s] = stages[s]
         \/ Ordinary(s, stages[s], stages'[s]) /\ RespectsLearning(s, stages'[s])
         \/ \E o \in Holders : Handover(stages[s], stages'[s], o) /\ RespectsLearning(s, stages'[s])
<1>1. CASE LearningWrites
  BY <1>1 DEF LearningWrites
<1>2. ASSUME NEW t \in Stages, OrdinaryStep(t) \/ HandoverStep(t)
      PROVE  \E new \in Row :
               /\ stages' = [stages EXCEPT ![t] = new]
               /\ RespectsLearning(t, new)
               /\ \/ Ordinary(t, stages[t], new)
                  \/ \E o \in Holders : Handover(stages[t], new, o)
  BY <1>2 DEF OrdinaryStep, HandoverStep, Write, Issue
<1>3. ASSUME NEW t \in Stages, NEW new \in Row, stages' = [stages EXCEPT ![t] = new]
      PROVE  stages'[s] = IF s = t THEN new ELSE stages[s]
  BY <1>3 DEF IInv, TypeOK
<1> QED
  BY <1>1, <1>2, <1>3, NextSteps

(* A success is final for its run; in pipeline_execution it is final.       *)
THEOREM SuccessStaysFinal == Spec => SuccessIsFinal
<1>1. IInv /\ Next =>
        \A s \in Stages : stages[s].status = "success" =>
           \/ stages'[s].status = "success" /\ stages'[s].run = stages[s].run
           \/ s # Execution /\ stages'[s].run # stages[s].run
  BY RowSteps DEF Ordinary, Handover
<1> QED
  BY <1>1, IInvariance, PTL DEF Spec, SuccessIsFinal

(* No statement gives a stage to another run under a live lease.            *)
THEOREM LiveRunStays == Spec => LiveRunIsNotReplaced
<1>1. IInv /\ Next =>
        \A s \in Stages : LeaseLive(stages[s]) => stages'[s].run = stages[s].run
  BY RowSteps DEF Ordinary, Handover
<1> QED
  BY <1>1, IInvariance, PTL DEF Spec, LiveRunIsNotReplaced

(* The strategy-learning guard of the enqueues is sufficient.               *)
THEOREM LearningKeepsRow == Spec => LearningKeepsItsRun
<1>1. IInv /\ Next => ~TakesLearningRow
  BY RowSteps DEF TakesLearningRow, RespectsLearning
<1> QED
  BY <1>1, IInvariance, PTL DEF Spec, LearningKeepsItsRun
-----------------------------------------------------------------------------
(* The refinement of FencedLease.                                           *)
LEMMA InitRefines == Init => Lease!Init
BY DEF Init, Lease!Init, HolderOf, LeaseLive, Absent

LEMMA OrdinaryRefines ==
  ASSUME IInv, NEW s \in Stages, OrdinaryStep(s)
  PROVE  [Lease!Next]_(Lease!vars)
<1> DEFINE holder == [t \in Stages |-> HolderOf(stages[t])]
           spent  == [t \in Stages |-> issued[t] \ {HolderOf(stages[t])}]
<1>1. PICK new \in Row : Write(s, new) /\ Ordinary(s, stages[s], new)
  BY DEF OrdinaryStep
<1>2. /\ issued' = issued
      /\ stages' = [stages EXCEPT ![s] = new]
      /\ stages'[s] = new
      /\ \A t \in Stages \ {s} : stages'[t] = stages[t]
  BY <1>1 DEF IInv, TypeOK, Write
<1>3. CASE HolderOf(new) = HolderOf(stages[s])
  <2>1. \A t \in Stages : HolderOf(stages[t])' = HolderOf(stages[t])
    BY <1>2, <1>3 DEF HolderOf, LeaseLive
  <2>2. holder' = holder /\ spent' = spent
    BY <2>1, <1>2
  <2> QED
    BY <2>2 DEF Lease!vars
<1>4. CASE HolderOf(new) # HolderOf(stages[s])
  <2>1. HolderOf(new) = None /\ HolderOf(stages[s]) # None
    BY <1>1, <1>4 DEF Ordinary, HolderOf
  <2>2. HolderOf(stages[s]) \in issued[s]
    BY <2>1 DEF IInv, Held, HolderOf
  <2>3. None \notin issued[s]
    BY NoneAssumption DEF IInv, TypeOK, Holders
  <2>a. \A t \in Stages :
          HolderOf(stages[t])' = IF t = s THEN None ELSE HolderOf(stages[t])
    BY <1>2, <2>1 DEF HolderOf, LeaseLive
  <2>b. \A t \in Stages :
          (issued[t] \ {HolderOf(stages[t])})'
             = IF t = s THEN spent[s] \union {HolderOf(stages[s])} ELSE spent[t]
    BY <1>2, <2>a, <2>2, <2>3
  <2>4. holder' = [holder EXCEPT ![s] = None]
    BY <2>a
  <2>5. spent' = [spent EXCEPT ![s] = spent[s] \union {holder[s]}]
    BY <2>b
  <2>6. Lease!Release(s)
    BY <2>1, <2>4, <2>5 DEF Lease!Release
  <2> QED
    BY <2>6 DEF Lease!Next
<1> QED
  BY <1>3, <1>4

LEMMA HandoverRefines ==
  ASSUME IInv, NEW s \in Stages, HandoverStep(s)
  PROVE  Lease!Next
<1> DEFINE holder == [t \in Stages |-> HolderOf(stages[t])]
           spent  == [t \in Stages |-> issued[t] \ {HolderOf(stages[t])}]
<1>1. PICK o \in Holders, new \in Row :
        Fresh(o) /\ Issue(s, o, new) /\ Handover(stages[s], new, o)
  BY DEF HandoverStep
<1>2. /\ stages' = [stages EXCEPT ![s] = new]
      /\ issued' = [issued EXCEPT ![s] = issued[s] \union {o}]
      /\ stages'[s] = new
      /\ issued'[s] = issued[s] \union {o}
      /\ \A t \in Stages \ {s} : stages'[t] = stages[t] /\ issued'[t] = issued[t]
  BY <1>1 DEF IInv, TypeOK, Issue
<1>3. HolderOf(stages[s]) = None /\ HolderOf(new) = o /\ o \notin issued[s]
  BY <1>1 DEF Handover, HolderOf, Fresh
<1>4. holder' = [holder EXCEPT ![s] = o]
  <2>1. \A t \in Stages :
          HolderOf(stages[t])' = IF t = s THEN o ELSE HolderOf(stages[t])
    BY <1>2, <1>3 DEF HolderOf, LeaseLive
  <2> QED
    BY <2>1
<1>5. None \notin issued[s]
  BY NoneAssumption DEF IInv, TypeOK, Holders
<1>6. spent' = spent
  <2>1. \A t \in Stages : (issued[t] \ {HolderOf(stages[t])})' = issued[t] \ {HolderOf(stages[t])}
    BY <1>2, <1>3, <1>5 DEF HolderOf, LeaseLive
  <2> QED
    BY <2>1
<1>7. Lease!Acquire(s, o)
  BY <1>3, <1>4, <1>6 DEF Lease!Acquire
<1> QED
  BY <1>7 DEF Lease!Next

(* The table implements a family of fenced leases.                          *)
THEOREM Refinement == Spec => Lease!Spec /\ LeaseIsFenced
<1>1. IInv /\ [Next]_vars => [Lease!Next]_(Lease!vars)
  <2> SUFFICES ASSUME IInv, [Next]_vars PROVE [Lease!Next]_(Lease!vars)
    OBVIOUS
  <2>1. CASE UNCHANGED <<stages, issued>>
    BY <2>1 DEF Lease!vars, HolderOf, LeaseLive
  <2>2. CASE \E s \in Stages : OrdinaryStep(s) \/ HandoverStep(s)
    BY <2>2, OrdinaryRefines, HandoverRefines
  <2> QED
    BY <2>1, <2>2, NextSteps DEF vars, LearningWrites
<1>2. [Lease!Next]_(Lease!vars) => [SameHolders \/ Lease!Next]_(Lease!vars)
  OBVIOUS
<1> QED
  BY <1>1, <1>2, InitRefines, IInvariance, PTL DEF Spec, LeaseIsFenced, Lease!Spec
-----------------------------------------------------------------------------
(***************************************************************************)
(* Then the dispatch of the run, PipelineDispatch: one run at a time for a *)
(* business date, no commit lost and no success undone, for any numbers of *)
(* attempts, in whatever order answers and callbacks arrive and whoever    *)
(* dies.                                                                   *)
(***************************************************************************)

(* A trigger asks the controller once it has reserved the row, and          *)
(* takes a run for accepted only if the controller started it.              *)
AskedInOrder ==
  \A r \in Runs :
    /\ pc[r] \in {"idle", "lockFree", "locked", "preflighted", "reserved"} => jobs[r] = "none"
    /\ pc[r] = "accepted" => jobs[r] \in Started

(* Only a run that was started calls back, and a run that reports success   *)
(* is over.                                                                 *)
CallsAreRuns ==
  \A m \in calls :
    /\ jobs[m.run] \in Started
    /\ m.status = "success" => jobs[m.run] \in {"succeeded", "failed"}

(* A run that was reserved, asked for, or started, and that nobody reported *)
(* failed.                                                                  *)
Pending(r) == /\ pc[r] = "reserved" \/ jobs[r] \in {"requested", "checked"} \union Started
              /\ ~ReportedFailed(r)

(* It has the row, which no failure has closed.                             *)
PendingIsCanonical ==
  \A r \in Runs : Pending(r) => exec.run = r /\ exec.status \in {"running", "waiting", "success"}

SuccessIsReleased == exec.status = "success" => exec.owner = None /\ ~exec.live

DispatchIInv == /\ DispatchTypeOK /\ AskedInOrder /\ CallsAreRuns /\ PendingIsCanonical
        /\ SuccessIsEarned /\ SuccessIsReleased /\ CommitIsNotLost
-----------------------------------------------------------------------------
LEMMA DispatchInitIInv == DispatchInit => DispatchIInv
BY DEF DispatchInit, DispatchIInv, DispatchTypeOK, Row, Notes, Jobs, Started, InProgress, Active, Absent, Callbacks, Callback,
       AskedInOrder, CallsAreRuns, PendingIsCanonical, Pending, SuccessIsEarned, SuccessIsReleased,
       CommitIsNotLost

(* The trigger goes on without a change of the row.                         *)
LEMMA TriggerMoves ==
  ASSUME DispatchIInv, NEW t \in Runs, UNCHANGED <<row, cloud>>,
         NEW l \in {"lockFree", "locked", "preflighted", "accepted", "committed"} \union Returned,
         pc' = [pc EXCEPT ![t] = l],
         lock' \in {None, "1"} \union Runs, resume' \in [Runs -> Runs \union {None}],
         l \in {"lockFree", "locked", "preflighted"} =>
             pc[t] \in {"idle", "lockFree", "locked", "preflighted"},
         l = "accepted" => jobs[t] \in Started,
         l = "lost" => ReportedFailed(t)
  PROVE  DispatchIInv'
<1>1. DispatchTypeOK'
  BY DEF DispatchIInv, DispatchTypeOK, row, cloud, Working
<1>2. AskedInOrder' /\ CommitIsNotLost'
  BY DEF DispatchIInv, DispatchTypeOK, AskedInOrder, CommitIsNotLost, ReportedFailed, cloud, Returned
<1>3. CallsAreRuns' /\ SuccessIsEarned' /\ SuccessIsReleased'
  BY DEF DispatchIInv, CallsAreRuns, SuccessIsEarned, SuccessIsReleased, row, cloud
<1>4. PendingIsCanonical'
  BY DEF DispatchIInv, DispatchTypeOK, PendingIsCanonical, Pending, ReportedFailed, row, cloud, Returned
<1> QED
  BY <1>1, <1>2, <1>3, <1>4 DEF DispatchIInv

(* The trigger releases its reservation, which only an attempt that was     *)
(* turned away does.                                                        *)
LEMMA TriggerReleases ==
  ASSUME DispatchIInv, NEW t \in Runs, ReleaseReservation(t), UNCHANGED <<resume, cloud>>,
         jobs[t] \in {"busy", "rejected"}, pc[t] = "awaiting", pc' = [pc EXCEPT ![t] = "returned"],
         lock' \in {lock, None}
  PROVE  DispatchIInv'
<1>1. CASE UNCHANGED row
  <2>1. lock' \in {None, "1"} \union Runs /\ resume' \in [Runs -> Runs \union {None}]
    BY DEF DispatchIInv, DispatchTypeOK
  <2> QED
    BY <1>1, <2>1, TriggerMoves DEF Returned
<1>2. CASE FailWhere(exec, t) /\ exec' = FailSet(exec) /\ note' = "none"
  <2> USE <1>2 DEF FailWhere, FailSet, Released, cloud
  <2>1. /\ exec.run = t /\ exec' \in Row
        /\ exec'.run = exec.run /\ exec'.status = "error"
    BY DEF DispatchIInv, DispatchTypeOK, Row, Statuses
  <2>2. ~Pending(t)
    BY DEF Pending, Started, InProgress, Active
  <2>3. DispatchTypeOK' /\ AskedInOrder' /\ CallsAreRuns' /\ CommitIsNotLost'
    BY <2>1 DEF DispatchIInv, DispatchTypeOK, Notes, Returned, AskedInOrder, CallsAreRuns, CommitIsNotLost, ReportedFailed
  <2>4. PendingIsCanonical'
    BY <2>1, <2>2 DEF DispatchIInv, DispatchTypeOK, PendingIsCanonical, Pending, ReportedFailed
  <2>5. SuccessIsEarned' /\ SuccessIsReleased'
    BY <2>1 DEF SuccessIsEarned, SuccessIsReleased
  <2> QED
    BY <2>3, <2>4, <2>5 DEF DispatchIInv
<1> QED
  BY <1>1, <1>2 DEF ReleaseReservation

(* A new attempt takes the row, or its INSERT goes through unnoticed.       *)
LEMMA TriggerReserves ==
  ASSUME DispatchIInv, NEW t \in Runs, ReserveWhere(exec, resume[t]), exec' = ReserveSet(t), note' = "none",
         UNCHANGED cloud, pc[t] = "preflighted",
         NEW l \in {"reserved", "returned"}, pc' = [pc EXCEPT ![t] = l],
         lock' \in {lock, None}, resume' = [resume EXCEPT ![t] = None]
  PROVE  DispatchIInv'
<1> USE DEF cloud
<1>1. exec' \in Row /\ exec'.run = t /\ exec'.status = "running"
  BY DEF ReserveSet, QueuedFor, Absent, Row, Holders, Statuses
<1>2. jobs[t] = "none" /\ \A r \in Runs : ~Pending(r)
  BY NoneAssumption DEF ReserveWhere, Present, DispatchIInv, DispatchTypeOK, Row, AskedInOrder, PendingIsCanonical
<1>3. DispatchTypeOK'
  BY <1>1 DEF DispatchIInv, DispatchTypeOK, Notes, Working, Returned
<1>4. AskedInOrder' /\ CallsAreRuns' /\ CommitIsNotLost'
  BY <1>2 DEF DispatchIInv, DispatchTypeOK, AskedInOrder, CallsAreRuns, CommitIsNotLost, ReportedFailed
<1>5. PendingIsCanonical'
  BY <1>1, <1>2 DEF DispatchIInv, DispatchTypeOK, PendingIsCanonical, Pending, ReportedFailed
<1>6. SuccessIsEarned' /\ SuccessIsReleased'
  BY <1>1 DEF SuccessIsEarned, SuccessIsReleased
<1> QED
  BY <1>3, <1>4, <1>5, <1>6 DEF DispatchIInv

LEMMA ReserveDispatchIInv == ASSUME DispatchIInv, NEW t \in Runs, ReserveDispatch(t) PROVE DispatchIInv'
<1>1. /\ lock' \in {None, "1"} \union Runs /\ resume' \in [Runs -> Runs \union {None}]
      /\ lock' = lock
  BY DEF ReserveDispatch, DispatchIInv, DispatchTypeOK
<1>2. CASE ReserveWhere(exec, resume[t])
  BY <1>1, <1>2, TriggerReserves DEF ReserveDispatch, Goto
<1>3. CASE ~ReserveWhere(exec, resume[t])
  BY <1>1, <1>3, TriggerMoves DEF ReserveDispatch, Goto, Returned
<1> QED
  BY <1>2, <1>3

LEMMA ReserveThrowsIInv == ASSUME DispatchIInv, NEW t \in Runs, ReserveThrows(t) PROVE DispatchIInv'
<1>1. lock' \in {None, "1"} \union Runs /\ resume' \in [Runs -> Runs \union {None}] /\ lock' = None
  BY DEF ReserveThrows, DispatchIInv, DispatchTypeOK
<1>2. CASE ReserveWhere(exec, resume[t]) /\ exec' = ReserveSet(t) /\ note' = "none"
  BY <1>1, <1>2, TriggerReserves DEF ReserveThrows, Goto
<1>3. CASE UNCHANGED row
  BY <1>1, <1>3, TriggerMoves DEF ReserveThrows, Goto, Returned
<1> QED
  BY <1>2, <1>3 DEF ReserveThrows

LEMMA PostRunIInv == ASSUME DispatchIInv, NEW t \in Runs, PostRun(t) PROVE DispatchIInv'
<1> USE DEF PostRun, Goto, row
<1>1. DispatchTypeOK'
  BY DEF DispatchIInv, DispatchTypeOK, Working, Jobs
<1>2. AskedInOrder' /\ CallsAreRuns' /\ CommitIsNotLost'
  BY DEF DispatchIInv, DispatchTypeOK, AskedInOrder, CallsAreRuns, CommitIsNotLost, ReportedFailed, Started, InProgress, Active
<1>3. PendingIsCanonical'
  BY DEF DispatchIInv, DispatchTypeOK, PendingIsCanonical, Pending, ReportedFailed
<1>4. SuccessIsEarned' /\ SuccessIsReleased'
  BY DEF DispatchIInv, SuccessIsEarned, SuccessIsReleased
<1> QED
  BY <1>1, <1>2, <1>3, <1>4 DEF DispatchIInv

LEMMA CommitDispatchIInv == ASSUME DispatchIInv, NEW t \in Runs, CommitDispatch(t) PROVE DispatchIInv'
<1>0. /\ lock' \in {None, "1"} \union Runs /\ resume' \in [Runs -> Runs \union {None}]
      /\ pc[t] = "accepted" /\ jobs[t] \in Started
  BY DEF CommitDispatch, Goto, DispatchIInv, DispatchTypeOK, AskedInOrder
<1>1. CASE exec.run = t /\ pc' = [pc EXCEPT ![t] = "committed"] /\ UNCHANGED exec
  BY <1>0, <1>1, TriggerMoves DEF CommitDispatch, row
<1>2. CASE exec.run # t /\ pc' = [pc EXCEPT ![t] = "lost"] /\ UNCHANGED exec
  <2>1. ReportedFailed(t)
    BY <1>0, <1>2 DEF DispatchIInv, PendingIsCanonical, Pending
  <2> QED
    BY <1>0, <1>2, <2>1, TriggerMoves DEF CommitDispatch, Returned, row
<1>3. CASE /\ CommitWhere(exec, t) /\ pc' = [pc EXCEPT ![t] = "committed"]
           /\ \E name \in Cursors \union {None} : exec' = CommitSet(exec, name)
  <2>1. exec' \in Row /\ exec'.run = exec.run /\ exec'.status = "waiting"
    BY <1>3 DEF DispatchIInv, DispatchTypeOK, CommitSet, Row, Statuses
  <2>2. note' = note /\ calls' = calls /\ jobs' = jobs
    BY DEF CommitDispatch, cloud
  <2>3. DispatchTypeOK' /\ AskedInOrder' /\ CallsAreRuns' /\ CommitIsNotLost'
    BY <1>0, <1>3, <2>1, <2>2
       DEF DispatchIInv, DispatchTypeOK, Working, AskedInOrder, CallsAreRuns, CommitIsNotLost, ReportedFailed
  <2>4. PendingIsCanonical'
    BY <1>3, <2>1, <2>2 DEF DispatchIInv, DispatchTypeOK, PendingIsCanonical, Pending, ReportedFailed
  <2>5. SuccessIsEarned' /\ SuccessIsReleased'
    BY <2>1 DEF SuccessIsEarned, SuccessIsReleased
  <2> QED
    BY <2>3, <2>4, <2>5 DEF DispatchIInv
<1> QED
  BY <1>1, <1>2, <1>3 DEF CommitDispatch, Goto

LEMMA TriggerIInv == ASSUME DispatchIInv, NEW t \in Runs, Trigger(t) PROVE DispatchIInv'
<1>0. /\ lock \in {None, "1"} \union Runs /\ resume \in [Runs -> Runs \union {None}]
      /\ [resume EXCEPT ![t] = None] \in [Runs -> Runs \union {None}]
  BY DEF DispatchIInv, DispatchTypeOK
<1>1. CASE CheckLock(t) \/ PutLock(t) \/ GiveUp(t) \/ OnUnclear(t) \/ OnAccepted(t)
  BY <1>0, <1>1, TriggerMoves DEF CheckLock, PutLock, GiveUp, OnUnclear, OnAccepted, Goto, Returned
<1>2. CASE Preflight(t)
  <2>1. resume' \in [Runs -> Runs \union {None}]
    BY <1>2 DEF Preflight, DispatchIInv, DispatchTypeOK, Row
  <2> QED
    BY <1>0, <1>2, <2>1, TriggerMoves DEF Preflight, Goto
<1>3. CASE ReserveDispatch(t) \/ ReserveThrows(t) \/ PostRun(t) \/ CommitDispatch(t)
  BY <1>3, ReserveDispatchIInv, ReserveThrowsIInv, PostRunIInv, CommitDispatchIInv
<1>4. CASE OnActive(t) \/ OnRejected(t)
  BY <1>4, TriggerReleases DEF OnActive, OnRejected, Goto
<1>5. CASE PutOwnLock(t)
  BY <1>0, <1>5, TriggerMoves DEF PutOwnLock, Goto, Returned
<1>6. CASE Crash(t)
  BY <1>0, <1>6, TriggerMoves DEF Crash, Returned
<1> QED
  BY <1>1, <1>2, <1>3, <1>4, <1>5, <1>6 DEF Trigger
-----------------------------------------------------------------------------
(* A run, or the controller about it, goes on and may call back.            *)
LEMMA RunMoves ==
  ASSUME DispatchIInv, NEW r \in Runs, UNCHANGED <<row, lock, pc, resume>>,
         NEW s \in Jobs \ {"none"}, jobs' = [jobs EXCEPT ![r] = s],
         jobs[r] \in {"requested", "checked"} \union Started,
         s \in Started => jobs[r] \in {"checked"} \union Started,
         jobs[r] \in {"succeeded", "failed"} => s = jobs[r],
         jobs[r] \in Started => s \in Started,
         s \in {"busy", "rejected", "broken", "checked"} => jobs[r] \in {"requested", "checked"},
         calls' \subseteq Callbacks, calls \subseteq calls',
         \A m \in calls' \ calls : m.run = r /\ s \in Started
                                   /\ (m.status = "success" => s \in {"succeeded", "failed"})
  PROVE  DispatchIInv'
<1>1. DispatchTypeOK'
  BY DEF DispatchIInv, DispatchTypeOK, row
<1>2. AskedInOrder'
  BY DEF DispatchIInv, DispatchTypeOK, AskedInOrder, Started, InProgress, Active
<1>3. CallsAreRuns'
  <2> SUFFICES ASSUME NEW m \in calls'
               PROVE  /\ jobs'[m.run] \in Started
                      /\ m.status = "success" => jobs'[m.run] \in {"succeeded", "failed"}
    BY DEF CallsAreRuns
  <2>1. CASE m \in calls' \ calls
    BY <2>1 DEF DispatchIInv, DispatchTypeOK
  <2>2. CASE m \in calls
    <3>1. /\ jobs[m.run] \in Started /\ (m.status = "success" => jobs[m.run] \in {"succeeded", "failed"})
          /\ m.run \in Runs
      BY <2>2 DEF DispatchIInv, DispatchTypeOK, CallsAreRuns, Callbacks
    <3> QED
      BY <3>1 DEF DispatchIInv, DispatchTypeOK
  <2> QED
    BY <2>1, <2>2
<1>4. PendingIsCanonical'
  <2>1. \A q \in Runs : Pending(q)' => Pending(q)
    BY DEF DispatchIInv, DispatchTypeOK, Pending, ReportedFailed, row, Started, InProgress, Active
  <2> QED
    BY <2>1 DEF DispatchIInv, PendingIsCanonical, row
<1>5. SuccessIsEarned' /\ SuccessIsReleased' /\ CommitIsNotLost'
  BY DEF DispatchIInv, SuccessIsEarned, SuccessIsReleased, CommitIsNotLost, ReportedFailed, row
<1> QED
  BY <1>1, <1>2, <1>3, <1>4, <1>5 DEF DispatchIInv

LEMMA HandleIInv ==
  ASSUME DispatchIInv, NEW r \in Runs, CheckActive(r) \/ Reject(r) \/ RunJob(r) PROVE DispatchIInv'
<1> USE DEF Handle, Jobs, Started, InProgress, Active
<1>1. PICK from \in {"requested", "checked"}, to \in {"checked", "busy", "rejected", "running", "broken"} :
        /\ Handle(r, from, to)
        /\ to \in {"running", "broken"} <=> from = "checked"
  BY DEF CheckActive, Reject, RunJob
<1>2. calls' = calls /\ calls \subseteq Callbacks
  BY <1>1 DEF DispatchIInv, DispatchTypeOK
<1> QED
  BY <1>1, <1>2, RunMoves

LEMMA ReportIInv ==
  ASSUME DispatchIInv, NEW r \in Runs, NEW from \in SUBSET Started, NEW to \in Started,
         NEW messages \in SUBSET Callbacks, Report(r, from, to, messages),
         from \cap {"succeeded", "failed"} \subseteq {to},
         \A m \in messages : m.run = r /\ (m.status = "success" => to \in {"succeeded", "failed"})
  PROVE  DispatchIInv'
<1>1. to \in Jobs \ {"none"} /\ to \notin {"busy", "rejected", "broken", "checked"}
  BY DEF Jobs, Started, InProgress, Active
<1>2. /\ jobs[r] \in Started /\ jobs[r] \in {"requested", "checked"} \union Started
      /\ to \in Started => jobs[r] \in {"checked"} \union Started
      /\ jobs[r] \in {"succeeded", "failed"} => to = jobs[r]
      /\ jobs' = [jobs EXCEPT ![r] = to] /\ calls' = calls \union messages
      /\ UNCHANGED <<row, lock, pc, resume>>
  BY DEF Report
<1>3. /\ calls' \subseteq Callbacks /\ calls \subseteq calls'
      /\ \A m \in calls' \ calls : m.run = r /\ to \in Started
                                   /\ (m.status = "success" => to \in {"succeeded", "failed"})
  BY <1>2 DEF DispatchIInv, DispatchTypeOK
<1> QED
  BY <1>1, <1>2, <1>3, RunMoves

LEMMA RunIInv == ASSUME DispatchIInv, NEW r \in Runs, Run(r) PROVE DispatchIInv'
<1>1. CASE CheckActive(r) \/ Reject(r) \/ RunJob(r)
  BY <1>1, HandleIInv
<1>2. /\ {} \in SUBSET Callbacks
      /\ \A status \in {"success", "seal", "error"} :
            /\ Tell(r, status) \in SUBSET Callbacks
            /\ \A m \in Tell(r, status) : m.run = r /\ m.status = status
  BY DEF Tell, Callback, Callbacks
<1>3. /\ Active \in SUBSET Started /\ InProgress \in SUBSET Started
      /\ InProgress \ {"sealed"} \in SUBSET Started
      /\ \A from \in SUBSET InProgress, to \in Started : from \cap {"succeeded", "failed"} \subseteq {to}
      /\ Active \in SUBSET InProgress /\ InProgress \ {"sealed"} \in SUBSET InProgress
      /\ \A s \in InProgress : {s} \in SUBSET Started /\ {s} \in SUBSET InProgress
      /\ {"failed"} \in SUBSET Started
      /\ {"running", "handedOff", "finishing", "sealed", "publishing"} \subseteq InProgress
      /\ InProgress \subseteq Started /\ {"succeeded", "failed"} \subseteq Started
  BY DEF Started, InProgress, Active
<1>4. ASSUME NEW from \in SUBSET InProgress, NEW to \in Started, Report(r, from, to, {}) PROVE DispatchIInv'
  <2>1. from \in SUBSET Started /\ from \cap {"succeeded", "failed"} \subseteq {to}
    BY <1>3
  <2> QED
    BY <1>2, <1>4, <2>1, ReportIInv
<1>5. ASSUME NEW from \in SUBSET InProgress, NEW to \in Started, NEW status \in {"success", "seal", "error"},
             Report(r, from, to, Tell(r, status)), status = "success" => to \in {"succeeded", "failed"}
      PROVE  DispatchIInv'
  <2>1. from \in SUBSET Started /\ from \cap {"succeeded", "failed"} \subseteq {to}
    BY <1>3
  <2>2. Tell(r, status) \in SUBSET Callbacks
    BY <1>2
  <2>3. \A m \in Tell(r, status) : m.run = r /\ (m.status = "success" => to \in {"succeeded", "failed"})
    BY <1>2, <1>5
  <2> QED
    BY <1>5, <2>1, <2>2, <2>3, ReportIInv
<1>6. CASE HandOff(r) \/ Continue(r) \/ Publish(r) \/ Die(r)
  BY <1>3, <1>4, <1>6 DEF HandOff, Continue, Publish, Die
<1>7. CASE Seal(r) \/ Succeed(r) \/ FailRun(r) \/ Unanswered(r)
  BY <1>3, <1>5, <1>7 DEF Seal, Succeed, FailRun, Unanswered
<1>8. CASE Reconcile(r)
  <2>1. CASE Report(r, {"failed"}, "failed", Tell(r, "error"))
    <3>1. \A m \in Tell(r, "error") : m.run = r /\ (m.status = "success" => "failed" \in {"succeeded", "failed"})
      BY <1>2
    <3>2. Tell(r, "error") \in SUBSET Callbacks /\ {"failed"} \in SUBSET Started /\ "failed" \in Started
      BY <1>2, <1>3
    <3>3. {"failed"} \cap {"succeeded", "failed"} \subseteq {"failed"}
      OBVIOUS
    <3> QED
      BY <2>1, <3>1, <3>2, <3>3, ReportIInv
  <2>2. ASSUME NEW s \in {"handedOff", "sealed"},
               Report(r, {s}, s, {Callback(r, "error", "falseFailure")})
        PROVE  DispatchIInv'
    <3> DEFINE messages == {Callback(r, "error", "falseFailure")}
    <3>1. /\ messages \in SUBSET Callbacks
          /\ \A m \in messages : m.run = r /\ (m.status = "success" => s \in {"succeeded", "failed"})
      BY DEF Callback, Callbacks
    <3>2. {s} \in SUBSET Started /\ s \in Started /\ {s} \cap {"succeeded", "failed"} \subseteq {s}
      BY <1>3
    <3> HIDE DEF messages
    <3> QED
      BY <2>2, <3>1, <3>2, ReportIInv DEF messages
  <2> QED
    BY <1>8, <2>1, <2>2 DEF Reconcile
<1> QED
  BY <1>1, <1>6, <1>7, <1>8 DEF Run
-----------------------------------------------------------------------------
LEMMA AcceptTerminalIInv == ASSUME DispatchIInv, NEW m \in calls, AcceptTerminal(m) PROVE DispatchIInv'
<1> USE DEF AcceptWhere, AcceptSet, Released, cloud
<1>1. m \in Callbacks /\ m.run \in Runs /\ m.note \in Notes
  BY DEF DispatchIInv, DispatchTypeOK, Callbacks, Notes
<1>2. /\ exec.run = m.run /\ exec' \in Row /\ exec'.run = exec.run /\ exec'.status = m.status
      /\ exec'.owner = None /\ ~exec'.live
  BY <1>1 DEF AcceptTerminal, DispatchIInv, DispatchTypeOK, Row, Statuses
<1>3. DispatchTypeOK'
  BY <1>1, <1>2 DEF AcceptTerminal, DispatchIInv, DispatchTypeOK
<1>4. AskedInOrder' /\ CallsAreRuns' /\ CommitIsNotLost'
  BY DEF AcceptTerminal, DispatchIInv, AskedInOrder, CallsAreRuns, CommitIsNotLost, ReportedFailed
<1>5. PendingIsCanonical'
  <2>1. m.status = "error" => ReportedFailed(m.run)
    BY DEF ReportedFailed
  <2> QED
    BY <1>2, <2>1 DEF AcceptTerminal, DispatchIInv, PendingIsCanonical, Pending, ReportedFailed
<1>6. SuccessIsEarned'
  <2> SUFFICES ASSUME m.status = "success" PROVE Callback(m.run, "success", "none") \in calls
    BY <1>2 DEF SuccessIsEarned, AcceptTerminal
  <2>1. m = Callback(m.run, "success", "none")
    BY <1>1 DEF Callbacks, Callback
  <2> QED
    BY <2>1
<1>7. SuccessIsReleased'
  BY <1>2 DEF SuccessIsReleased
<1> QED
  BY <1>3, <1>4, <1>5, <1>6, <1>7 DEF DispatchIInv

LEMMA AcceptSealIInv == ASSUME DispatchIInv, NEW m \in calls, AcceptSeal(m) PROVE DispatchIInv'
<1> USE DEF cloud
<1>1. /\ exec' \in Row /\ exec'.run = exec.run /\ exec'.status = "waiting" /\ note' \in Notes
  BY DEF AcceptSeal, DispatchIInv, DispatchTypeOK, Row, Statuses, Notes
<1>2. DispatchTypeOK' /\ AskedInOrder' /\ CallsAreRuns' /\ CommitIsNotLost'
  BY <1>1 DEF AcceptSeal, DispatchIInv, DispatchTypeOK, AskedInOrder, CallsAreRuns, CommitIsNotLost, ReportedFailed
<1>3. PendingIsCanonical'
  BY <1>1 DEF AcceptSeal, DispatchIInv, PendingIsCanonical, Pending, ReportedFailed
<1>4. SuccessIsEarned' /\ SuccessIsReleased'
  BY <1>1 DEF SuccessIsEarned, SuccessIsReleased
<1> QED
  BY <1>2, <1>3, <1>4 DEF DispatchIInv

(* Time and the KV lock decide nothing of this.                             *)
LEMMA ExpireIInv == ASSUME DispatchIInv, ExpireReservation \/ ExpireLock \/ UNCHANGED dispatchVars PROVE DispatchIInv'
<1> USE DEF ExpireReservation, ExpireLock, dispatchVars, row, cloud
<1>1. exec' \in Row /\ exec'.run = exec.run /\ exec'.status = exec.status /\ exec'.owner = exec.owner
      /\ (exec'.live => exec.live)
  BY DEF DispatchIInv, DispatchTypeOK, Row
<1>2. DispatchTypeOK' /\ AskedInOrder' /\ CallsAreRuns' /\ CommitIsNotLost'
  BY <1>1 DEF DispatchIInv, DispatchTypeOK, AskedInOrder, CallsAreRuns, CommitIsNotLost, ReportedFailed
<1>3. PendingIsCanonical' /\ SuccessIsEarned' /\ SuccessIsReleased'
  BY <1>1 DEF DispatchIInv, PendingIsCanonical, Pending, ReportedFailed, SuccessIsEarned, SuccessIsReleased
<1> QED
  BY <1>2, <1>3 DEF DispatchIInv

LEMMA StepIInv == DispatchIInv /\ [DispatchNext]_dispatchVars => DispatchIInv'
BY TriggerIInv, RunIInv, AcceptTerminalIInv, AcceptSealIInv, ExpireIInv DEF DispatchNext, Deliver

THEOREM Invariance == DispatchSpec => []DispatchIInv
BY DispatchInitIInv, StepIInv, PTL DEF DispatchSpec
-----------------------------------------------------------------------------
(* Type correctness of the row, the lock, the triggers and the runs.        *)
THEOREM DispatchTypeCorrect == DispatchSpec => []DispatchTypeOK
<1>1. DispatchIInv => DispatchTypeOK
  BY DEF DispatchIInv
<1> QED
  BY <1>1, Invariance, PTL

(* A run in progress that nobody reported failed is the canonical run of    *)
(* the date, so no second run is started beside it.                         *)
THEOREM RunInProgressHolds == DispatchSpec => []RunInProgressIsCanonical
<1>1. DispatchIInv => RunInProgressIsCanonical
  <2> SUFFICES ASSUME DispatchIInv, NEW r \in Runs, jobs[r] \in InProgress \union {"checked"}, ~ReportedFailed(r)
               PROVE  exec.run = r /\ exec.status \in {"running", "waiting"}
    BY DEF RunInProgressIsCanonical
  <2>1. exec.run = r /\ exec.status \in {"running", "waiting", "success"}
    BY DEF DispatchIInv, PendingIsCanonical, Pending, Started
  <2>2. exec.status # "success"
    <3> SUFFICES ASSUME exec.status = "success" PROVE FALSE
      OBVIOUS
    <3>1. Callback(r, "success", "none") \in calls
      BY <2>1 DEF DispatchIInv, SuccessIsEarned
    <3>2. jobs[r] \in {"succeeded", "failed"}
      BY <3>1 DEF DispatchIInv, CallsAreRuns, Callback
    <3> QED
      BY <3>2 DEF InProgress, Active
  <2> QED
    BY <2>1, <2>2
<1> QED
  BY <1>1, Invariance, PTL

(* The row of an accepted attempt is never found with another run, unless   *)
(* the attempt was reported failed.                                         *)
THEOREM CommitNotLost == DispatchSpec => []CommitIsNotLost
<1>1. DispatchIInv => CommitIsNotLost
  BY DEF DispatchIInv
<1> QED
  BY <1>1, Invariance, PTL

(* The date is closed with success only by a run that reported it.          *)
THEOREM SuccessEarned == DispatchSpec => []SuccessIsEarned
<1>1. DispatchIInv => SuccessIsEarned
  BY DEF DispatchIInv
<1> QED
  BY <1>1, Invariance, PTL

(* No later trigger, callback, seal or expiry changes a successful row.     *)
THEOREM SuccessStaysSo == DispatchSpec => SuccessStays
<1>1. DispatchIInv /\ [DispatchNext]_dispatchVars => [exec.status = "success" => exec' = exec]_dispatchVars
  <2> SUFFICES ASSUME DispatchIInv, [DispatchNext]_dispatchVars, exec.status = "success" PROVE exec' = exec
    OBVIOUS
  <2>1. exec.owner = None /\ ~exec.live /\ exec \in Row
    BY DEF DispatchIInv, SuccessIsReleased, DispatchTypeOK
  <2>2. ASSUME NEW t \in Runs, Trigger(t) PROVE exec' = exec
    BY <2>2, <2>1 DEF Trigger, CheckLock, PutLock, GiveUp, Preflight, ReserveDispatch, ReserveThrows,
       PostRun, OnUnclear, OnActive, OnRejected, OnAccepted, CommitDispatch, PutOwnLock, Crash,
       ReleaseReservation, ReserveWhere, Present, FailWhere, CommitWhere, HeldBy, LeaseLive, row
  <2>3. ASSUME NEW r \in Runs, Run(r) PROVE exec' = exec
    BY <2>3 DEF Run, CheckActive, Reject, RunJob, Handle, HandOff, Continue, Seal, Publish, Unanswered,
       Succeed, FailRun, Die, Reconcile, Report, row
  <2>4. ASSUME NEW m \in Callbacks, Deliver(m) PROVE exec' = exec
    <3>1. AcceptTerminal(m) /\ m.status = "success"
      BY <2>4 DEF Deliver, AcceptSeal, SealWhere, AcceptTerminal, AcceptWhere
    <3> QED
      BY <3>1, <2>1 DEF AcceptTerminal, AcceptSet, Released, Row
  <2>5. CASE ExpireReservation \/ ExpireLock \/ UNCHANGED dispatchVars
    BY <2>5, <2>1 DEF ExpireReservation, ExpireLock, row, dispatchVars
  <2> QED
    BY <2>2, <2>3, <2>4, <2>5 DEF DispatchNext
<1> QED
  BY <1>1, Invariance, PTL DEF DispatchSpec, SuccessStays
=============================================================================
