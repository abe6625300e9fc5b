------------------------------- MODULE StageRow -------------------------------
(***************************************************************************)
(* One row of pipeline_stage_runs (business_date, stage) and the SQL       *)
(* statements of worker/src/lib/pipelineStageLease.ts that change it.      *)
(* Every statement is one D1 UPDATE or INSERT, hence atomic: its WHERE     *)
(* clause is an operator named ...Where, its SET list an operator ...Set.  *)
(*                                                                         *)
(* Time is abstracted to one bit.  The code only ever compares             *)
(* lease_expires_at with CURRENT_TIMESTAMP, with "<" for expired and ">="  *)
(* for live, so a row's lease is either live or not, and a live lease may  *)
(* run out between any two statements.  Counters, timestamps and           *)
(* last_error are left out: no WHERE clause of the file reads them.        *)
(*                                                                         *)
(* An operator whose name ends in _Something is a wrong version of the one *)
(* that follows it, kept to show which property notices the mistake.       *)
(***************************************************************************)
CONSTANTS
  Runs,      \* canonical run ids
  Owners,    \* lease owner ids: a fresh UUID for every claim
  Cursors,   \* cursor keys
  None       \* SQL NULL

ASSUME NoneAssumption == None \notin Runs \union Owners \union Cursors

(* A reservation of pipeline_execution uses the attempt id as run and as    *)
(* owner at once, so an owner column may also hold a run id.                *)
Holders == Owners \union Runs

Statuses == {"queued", "running", "waiting", "success", "error"}

ASSUME StatusesAssumption == None \notin Statuses

Row == [run    : Runs \union {None},
        status : Statuses \union {"absent"},
        cursor : Cursors \union {None},
        owner  : Holders \union {None},
        live   : BOOLEAN]

Absent == [run |-> None, status |-> "absent", cursor |-> None,
           owner |-> None, live |-> FALSE]

(* The row every INSERT and every canonical-run change leaves behind.       *)
QueuedFor(run) == [Absent EXCEPT !.run = run, !.status = "queued"]

Present(r)   == r.status # "absent"
LeaseLive(r) == r.status = "running" /\ r.live
Expired(r)   == r.status = "running" /\ ~r.live
Resumable(r) == r.status \in {"waiting", "error"} \/ Expired(r)

(* The fence of a worker's own writes: canonical run, running, lease_owner  *)
(* and an unexpired lease.                                                  *)
HeldBy(r, run, o) == r.run = run /\ LeaseLive(r) /\ r.owner = o

(* The worker, if any, that owns the row right now.                         *)
HolderOf(r) == IF LeaseLive(r) THEN r.owner ELSE None

Released(r, status) == [r EXCEPT !.status = status, !.owner = None, !.live = FALSE]
-----------------------------------------------------------------------------
(* claimPipelineStage: run is None when the caller names no canonical run.  *)
ClaimWhere(r, run) ==
  /\ run \in {None, r.run}
  /\ r.status = "queued" \/ Expired(r)
ClaimSet(r, o) == [r EXCEPT !.status = "running", !.owner = o, !.live = TRUE]

(* heartbeatPipelineStageLease.                                             *)
HeartbeatWhere_LeaseUnchecked(r, run, o) ==
  r.run = run /\ r.status = "running" /\ r.owner = o
HeartbeatWhere(r, run, o) == HeldBy(r, run, o)
HeartbeatSet(r) == [r EXCEPT !.live = TRUE]

(* setPipelineStageCursorFenced.                                            *)
CursorWhere(r, run, o) == HeldBy(r, run, o)
CursorSet(r, cursor) == [r EXCEPT !.cursor = cursor]

(* enqueuePipelineStage, the statements after the INSERT.  mayLeave is the  *)
(* strategy-learning guard that post_verify_chain adds.                     *)
AdoptWhere_ExpiryUnchecked(r, run, mayLeave) ==
  Present(r) /\ r.run # run /\ mayLeave /\ r.status \in {"waiting", "error", "running"}
AdoptWhere(r, run, mayLeave) == Present(r) /\ r.run # run /\ mayLeave /\ Resumable(r)
ResumeWhere(r, expected) == expected \in {None, r.run} /\ Resumable(r)
ResumeSet(r) == Released(r, "queued")
SupersedeWhere(r, run, mayLeave) == r.status = "success" /\ r.run # run /\ mayLeave

(* enqueuePipelineStageAuthorized, the UPDATE.                              *)
TransitionWhere(r, run, mayLeave) ==
  /\ mayLeave
  /\ Resumable(r) \/ (r.status = "success" /\ r.run # run)

(* The authority another stage's row must still give, read inside the same  *)
(* statement.  Fields of a that are None are not compared.                  *)
Authorizes(r, a) ==
  /\ r.run = a.run
  /\ a.status \in {None, r.status}
  /\ a.cursor \in {None, r.cursor}
  /\ a.owner # None => HeldBy(r, a.run, a.owner)

(* markPipelineStageFenced.  Fields of m that are None are not compared.    *)
MarkWhere_SuccessReopens(r, m) ==
  /\ r.run = m.run
  /\ m.cursor \in {None, r.cursor}
  /\ m.owner # None => HeldBy(r, m.run, m.owner)
  /\ m.expected \in {None, r.status}
  /\ m.unleased => r.owner = None
MarkWhere(r, m) ==
  /\ r.run = m.run
  /\ m.cursor \in {None, r.cursor}
  /\ m.owner # None => HeldBy(r, m.run, m.owner)
  /\ m.expected \in {None, r.status}
  /\ m.unleased => r.owner = None
  /\ r.status = "success" => m.status = "success"
MarkSet_SwappedBinding(r, m) == [Released(r, m.status) EXCEPT !.cursor = m.status]
MarkSet(r, m) ==
  [Released(r, m.status) EXCEPT !.cursor = IF m.next = None THEN r.cursor ELSE m.next]

(* What the kinds of caller pass to markPipelineStageFenced.           *)
Mark(run, status) == [run |-> run, status |-> status, cursor |-> None, owner |-> None,
                      expected |-> None, unleased |-> FALSE, next |-> None]
OwnerMark(run, status, o, c, n) ==
  [Mark(run, status) EXCEPT !.owner = o, !.cursor = c, !.next = n]
CallbackMark(run, status, c) == [Mark(run, status) EXCEPT !.cursor = c]
SendFailedMark(run) ==
  [Mark(run, "error") EXCEPT !.expected = "queued", !.unleased = TRUE]
-----------------------------------------------------------------------------
(* reservePipelineExecutionDispatch: an INSERT, or the takeover of a failed *)
(* run.  attempt is both the canonical run and the lease owner.             *)
ReserveWhere(r, expectedFailed) ==
  \/ ~Present(r)
  \/ r.status = "error" /\ expectedFailed \in {None, r.run}
ReserveSet(attempt) == [QueuedFor(attempt) EXCEPT !.status = "running",
                                                  !.owner = attempt, !.live = TRUE]

(* commitPipelineExecutionDispatch keeps the owner and starts the callback  *)
(* lease (its runId is the attempt: runMLAndRiskV2 rejects any other);      *)
(* failPipelineExecutionDispatch does not ask for a live lease.             *)
CommitWhere(r, attempt) == HeldBy(r, attempt, attempt)
CommitSet(r, execution) == [r EXCEPT !.status = "waiting", !.cursor = execution, !.live = TRUE]
FailWhere(r, attempt) == r.run = attempt /\ r.status = "running" /\ r.owner = attempt
FailSet(r) == Released(r, "error")

(* acceptPipelineExecutionCallback.                                         *)
AcceptWhere_CommittedOnly(r, run, status) == r.run = run /\ r.status \in {"waiting", status}
AcceptWhere(r, run, status) == r.run = run /\ r.status \in {"running", "waiting", status}
AcceptSet(r, status) == Released(r, status)
=============================================================================
