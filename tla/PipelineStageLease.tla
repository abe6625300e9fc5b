-------------------------- MODULE PipelineStageLease --------------------------
(***************************************************************************)
(* The table pipeline_stage_runs for one business date, under every fenced *)
(* statement of worker/src/lib/pipelineStageLease.ts, issued by any number *)
(* of workers, callbacks and watchdogs in any order.  markPipelineStage,   *)
(* the one without a fence, is called by nobody and has no action.         *)
(*                                                                         *)
(* enqueuePipelineStage is a sequence of statements of which at most one   *)
(* has an effect, and other callers may run between two of them.  A        *)
(* statement that finds its WHERE clause false changes nothing, so the     *)
(* sequence is modelled by one action per statement.                       *)
(***************************************************************************)
EXTENDS StageRow

CONSTANT Stages      \* the stages of the table that are modelled

PostVerify == "post_verify_chain"
Execution  == "pipeline_execution"

(* pipeline_execution has statements of its own; the others share theirs.   *)
ChainStages == Stages \ {Execution}

VARIABLES
  stages,    \* [Stages -> Row], the table
  learning,  \* the strategy_learning_runs row as these statements read it
  issued     \* history: the owner ids that ever claimed each stage

vars == <<stages, learning, issued>>

NoLearning == [run |-> None, live |-> FALSE]

TypeOK ==
  /\ stages \in [Stages -> Row]
  /\ learning \in [run : Runs \union {None}, live : BOOLEAN]
  /\ issued \in [Stages -> SUBSET Holders]

Init ==
  /\ stages = [s \in Stages |-> Absent]
  /\ learning = NoLearning
  /\ issued = [s \in Stages |-> {}]

Fresh(o) == \A s \in Stages : o \notin issued[s]

Write(s, row) ==
  /\ stages' = [stages EXCEPT ![s] = row]
  /\ UNCHANGED <<learning, issued>>

Issue(s, o, row) ==
  /\ stages' = [stages EXCEPT ![s] = row]
  /\ issued' = [issued EXCEPT ![s] = @ \union {o}]
  /\ UNCHANGED learning

(* noForeignLiveStrategyLearningSql, on INSERT: no other run's learning     *)
(* lease is live.  liveStrategyLearningGuardSql, on UPDATE: the run the row *)
(* would be taken from has no live learning lease.                          *)
MayCreate(s, run) == s = PostVerify /\ learning.live => learning.run = run
MayLeave_LearningIgnored(s, run) == TRUE
MayLeave(s, run) ==
  s = PostVerify /\ learning.live /\ learning.run = stages[s].run => stages[s].run = run
-----------------------------------------------------------------------------
(* enqueuePipelineStage, statement by statement.                            *)
EnqueueInsert(s, run) ==
  /\ ~Present(stages[s])
  /\ MayCreate(s, run)
  /\ Write(s, QueuedFor(run))

EnqueueAdopt(s, run) ==
  /\ AdoptWhere(stages[s], run, MayLeave(s, run))
  /\ Write(s, QueuedFor(run))

EnqueueResume(s, expected) ==
  /\ ResumeWhere(stages[s], expected)
  /\ Write(s, ResumeSet(stages[s]))

EnqueueSupersede(s, run) ==
  /\ SupersedeWhere(stages[s], run, MayLeave(s, run))
  /\ Write(s, QueuedFor(run))

(* enqueuePipelineStageAuthorized: INSERT, else UPDATE, both under the      *)
(* authority a of another stage's row.                                      *)
AuthorizedInsert(s, run, a) ==
  /\ Authorizes(stages[a.stage], a)
  /\ ~Present(stages[s])
  /\ MayCreate(s, run)
  /\ Write(s, QueuedFor(run))

AuthorizedTransition(s, run, a) ==
  /\ Authorizes(stages[a.stage], a)
  /\ Present(stages[s])
  /\ TransitionWhere(stages[s], run, MayLeave(s, run))
  /\ Write(s, QueuedFor(run))

Claim(s, run, o) ==
  /\ Fresh(o)
  /\ Present(stages[s])
  /\ ClaimWhere(stages[s], run)
  /\ Issue(s, o, ClaimSet(stages[s], o))

Heartbeat(s, run, o) ==
  /\ HeartbeatWhere(stages[s], run, o)
  /\ Write(s, HeartbeatSet(stages[s]))

SetCursor(s, run, o, cursor) ==
  /\ CursorWhere(stages[s], run, o)
  /\ Write(s, CursorSet(stages[s], cursor))

MarkFenced(s, m) ==
  /\ MarkWhere(stages[s], m)
  /\ Write(s, MarkSet(stages[s], m))
-----------------------------------------------------------------------------
(* pipeline_execution.                                                      *)
Reserve(attempt, expectedFailed) ==
  /\ Execution \in Stages
  /\ Fresh(attempt)
  /\ ReserveWhere(stages[Execution], expectedFailed)
  /\ Issue(Execution, attempt, ReserveSet(attempt))

Commit(attempt, execution) ==
  /\ Execution \in Stages
  /\ CommitWhere(stages[Execution], attempt)
  /\ Write(Execution, CommitSet(stages[Execution], execution))

Fail(attempt) ==
  /\ Execution \in Stages
  /\ FailWhere(stages[Execution], attempt)
  /\ Write(Execution, FailSet(stages[Execution]))

Accept(run, status) ==
  /\ Execution \in Stages
  /\ AcceptWhere(stages[Execution], run, status)
  /\ Write(Execution, AcceptSet(stages[Execution], status))
-----------------------------------------------------------------------------
(* The environment: time passes, and strategy_learning_runs is written by   *)
(* strategyLearningRunState.ts, of which only the canonical run and whether *)
(* its lease is live matter here.                                           *)
ExpireLease(s) ==
  /\ stages[s].live
  /\ Write(s, [stages[s] EXCEPT !.live = FALSE])

LearningWrites ==
  /\ learning' \in [run : Runs, live : BOOLEAN]
  /\ UNCHANGED <<stages, issued>>
-----------------------------------------------------------------------------
(* What callers pass.  Authority is asked of an upstream stage for the same *)
(* run: it succeeded, its worker still holds it, or just that it owns it.   *)
(* One that names an owner no row has authorizes nothing.                   *)
Authority(run) ==
  [stage : Stages, run : {run}, status : {"success"}, cursor : Cursors \union {None}, owner : {None}]
    \union [stage : Stages, run : {run}, status : {"running"}, cursor : {None},
            owner : Owners \intersect {stages[s].owner : s \in Stages}]
    \union [stage : Stages, run : {run}, status : {None}, cursor : {None}, owner : {None}]

(* A mark that names another owner than the row's writes nothing.           *)
OwnerMarks(s, run) ==
  {OwnerMark(run, status, o, c, n) :
     status \in {"waiting", "success", "error"}, o \in Owners \intersect {stages[s].owner},
     c \in Cursors \union {None}, n \in Cursors \union {None}}
CallbackMarks(run) ==
  {CallbackMark(run, status, c) :
     status \in {"waiting", "success", "error"}, c \in Cursors \union {None}}
Marks(s, run) == OwnerMarks(s, run) \union CallbackMarks(run) \union {SendFailedMark(run)}

Enqueue(s, run) ==
  \/ EnqueueInsert(s, run)
  \/ EnqueueAdopt(s, run)
  \/ \E expected \in {None, run} : EnqueueResume(s, expected)
  \/ EnqueueSupersede(s, run)
  \/ \E a \in Authority(run) :
       a.stage # s /\ (AuthorizedInsert(s, run, a) \/ AuthorizedTransition(s, run, a))

Work(s, run, o) ==
  \/ \E named \in {None, run} : Claim(s, named, o)
  \/ Heartbeat(s, run, o)
  \/ \E cursor \in Cursors : SetCursor(s, run, o, cursor)

Dispatch(run) ==
  \/ \E expectedFailed \in Runs \union {None} : Reserve(run, expectedFailed)
  \/ \E execution \in Cursors \union {None} : Commit(run, execution)
  \/ Fail(run)
  \/ \E status \in {"success", "error"} : Accept(run, status)

Next ==
  \/ \E s \in ChainStages, run \in Runs :
       \/ Enqueue(s, run)
       \/ \E o \in Owners : Work(s, run, o)
       \/ \E m \in Marks(s, run) : MarkFenced(s, m)
  \/ \E run \in Runs : Dispatch(run)
  \/ \E s \in Stages : ExpireLease(s)
  \/ LearningWrites

Spec == Init /\ [][Next]_vars
-----------------------------------------------------------------------------
Lease == INSTANCE FencedLease WITH
  Ids    <- Holders,
  holder <- [s \in Stages |-> HolderOf(stages[s])],
  spent  <- [s \in Stages |-> issued[s] \ {HolderOf(stages[s])}]

SameHolders ==
  \A s \in Stages : HolderOf(stages'[s]) = HolderOf(stages[s]) /\ issued'[s] = issued[s]

(* Every stage's lease keeps the promise of FencedLease: only the current   *)
(* holder gives the stage up or lets it run out, nobody takes it from a     *)
(* live holder to hold it himself, and a claim that lost it never heartbeats*)
(* or writes itself back in.  (claimPipelineStage, heartbeatPipelineStage-  *)
(* Lease and every statement that resets lease_owner.)  It is Lease!Spec;   *)
(* the steps that change no holder come first, which spares TLC the search. *)
LeaseIsFenced == Lease!Init /\ [][SameHolders \/ Lease!Next]_(Lease!vars)

(* A success is never undone for the run that reached it: a late error      *)
(* callback, a failed send or a stale worker cannot reopen the stage.  Only *)
(* another canonical run may supersede it, and in pipeline_execution not    *)
(* even that ("same-date success is immutable").                            *)
SuccessIsFinal ==
  [][\A s \in Stages :
       stages[s].status = "success" =>
         \/ stages'[s].status = "success" /\ stages'[s].run = stages[s].run
         \/ s # Execution /\ stages'[s].run # stages[s].run]_vars

(* No enqueue, adoption, supersession or reservation replaces the canonical *)
(* run of a stage while a worker holds a live lease on it.                  *)
LiveRunIsNotReplaced ==
  [][\A s \in Stages : LeaseLive(stages[s]) => stages'[s].run = stages[s].run]_vars

(* While the strategy-learning row of a run holds a live lease, the         *)
(* post_verify_chain row is neither taken from that run nor created for     *)
(* another one: the learning finalizer keeps the stage authority it needs.  *)
TakesLearningRow ==
  /\ PostVerify \in Stages
  /\ learning.live
  /\ stages[PostVerify].run \in {None, learning.run}
  /\ stages'[PostVerify].run \notin {stages[PostVerify].run, learning.run}

LearningKeepsItsRun == [][~TakesLearningRow]_vars
=============================================================================
