--------------------------- MODULE PipelineDispatch ---------------------------
(***************************************************************************)
(* How one business date's ML pipeline is started and closed.              *)
(*                                                                         *)
(* runMLAndRiskV2 (worker) takes a best-effort KV lock, reserves the       *)
(* pipeline_execution row under a fresh attempt id, asks ml-controller to  *)
(* run that attempt and commits the hand-off.  ml-controller starts a      *)
(* Cloud Run execution unless one is active.  The run reports by callback, *)
(* possibly before the trigger commits, more than once, or only through    *)
(* the reconciler after it died.                                           *)
(*                                                                         *)
(* A trigger makes one attempt, so a trigger is named by its attempt id.   *)
(* The KV entry is a plain variable here: get and put are separate steps,  *)
(* and it may disappear at any time (TTL).                                 *)
(*                                                                         *)
(* DispatchInit, DispatchNext and the like are named so that a module can  *)
(* extend this one and PipelineStageLease.                                 *)
(***************************************************************************)
EXTENDS StageRow

VARIABLES
  exec,      \* the pipeline_execution row
  note,      \* what its last_error says, as far as a statement reads it
  lock,      \* lock:ml-predict:<date> in KV: None, "1" or an attempt id
  pc,        \* [Runs -> where the trigger is]
  resume,    \* [Runs -> the failed run the trigger verified as resumable]
  jobs,      \* [Runs -> how far the controller and the cloud run got]
  calls      \* the callbacks sent so far; delivered at least once

dispatchVars == <<exec, note, lock, pc, resume, jobs, calls>>

Working  == {"lockFree", "locked", "preflighted", "reserved", "awaiting",
             "accepted", "committed"}
Returned == {"ambiguous", "refused", "lost", "returned"}

(* last_error: the errors of a false failure, which yield to an L3 seal, and *)
(* "awaiting_premarket", which the seal leaves behind.                      *)
Notes == {"none", "falseFailure", "awaitingPremarket"}

(* An execution of the cloud job is active while the run prepares its       *)
(* inputs, while it goes on with the model's predictions and while it       *)
(* publishes.  In between it waits, for the model or, after its L3 seal, for*)
(* the next premarket, and no execution is active.                          *)
Active     == {"running", "finishing", "publishing"}
InProgress == Active \union {"handedOff", "sealed"}
Started    == InProgress \union {"failed", "succeeded"}
Jobs       == Started \union {"none", "requested", "checked", "busy", "rejected", "broken"}

Callbacks == [run : Runs, status : {"success", "seal"}, note : {"none"}]
             \union [run : Runs, status : {"error"}, note : {"none", "falseFailure"}]
Callback(run, status, n) == [run |-> run, status |-> status, note |-> n]

DispatchTypeOK ==
  /\ exec \in Row
  /\ note \in Notes
  /\ lock \in {None, "1"} \union Runs
  /\ pc \in [Runs -> {"idle"} \union Working \union Returned]
  /\ resume \in [Runs -> Runs \union {None}]
  /\ jobs \in [Runs -> Jobs]
  /\ calls \subseteq Callbacks

DispatchInit ==
  /\ exec = Absent
  /\ note = "none"
  /\ lock = None
  /\ pc = [t \in Runs |-> "idle"]
  /\ resume = [t \in Runs |-> None]
  /\ jobs = [t \in Runs |-> "none"]
  /\ calls = {}

row   == <<exec, note>>
cloud == <<jobs, calls>>

Goto(t, from, to) == pc[t] = from /\ pc' = [pc EXCEPT ![t] = to]

(* failPipelineExecutionDispatch as the trigger calls it; the D1 write may  *)
(* itself fail, which the trigger swallows.                                 *)
ReleaseReservation(t) ==
  \/ FailWhere(exec, t) /\ exec' = FailSet(exec) /\ note' = "none"
  \/ UNCHANGED row
-----------------------------------------------------------------------------
(* The trigger.                                                             *)
CheckLock(t) ==
  /\ \/ lock # None /\ Goto(t, "idle", "returned")
     \/ lock = None /\ Goto(t, "idle", "lockFree")
  /\ UNCHANGED <<row, lock, resume, cloud>>

PutLock(t) ==
  /\ Goto(t, "lockFree", "locked")
  /\ lock' = "1"
  /\ UNCHANGED <<row, resume, cloud>>

(* No controller URL, no market risk, or the resume preflight failed.       *)
GiveUp(t) ==
  /\ Goto(t, "locked", "returned")
  /\ lock' = None
  /\ UNCHANGED <<row, resume, cloud>>

(* The controller says whether the failed run it was asked about, if any,   *)
(* can be resumed.                                                          *)
Preflight(t) ==
  /\ Goto(t, "locked", "preflighted")
  /\ \E r \in {None} \union (IF exec.status = "error" THEN {exec.run} ELSE {}) :
       resume' = [resume EXCEPT ![t] = r]
  /\ UNCHANGED <<row, lock, cloud>>

ReserveDispatch(t) ==
  /\ \/ /\ ReserveWhere(exec, resume[t])
        /\ Goto(t, "preflighted", "reserved")
        /\ exec' = ReserveSet(t)
        /\ note' = "none"
     \/ /\ ~ReserveWhere(exec, resume[t])
        /\ Goto(t, "preflighted", "refused")
        /\ UNCHANGED row
  /\ resume' = [resume EXCEPT ![t] = None]
  /\ UNCHANGED <<lock, cloud>>

(* The reservation throws, though D1 may have made it.                      *)
ReserveThrows(t) ==
  /\ Goto(t, "preflighted", "returned")
  /\ \/ ReserveWhere(exec, resume[t]) /\ exec' = ReserveSet(t) /\ note' = "none"
     \/ UNCHANGED row
  /\ resume' = [resume EXCEPT ![t] = None]
  /\ lock' = None
  /\ UNCHANGED cloud

PostRun(t) ==
  /\ Goto(t, "reserved", "awaiting")
  /\ jobs' = [jobs EXCEPT ![t] = "requested"]
  /\ UNCHANGED <<row, lock, resume, calls>>

(* No answer within the timeout, whatever the controller did or will do; an *)
(* HTTP 5xx is treated alike.  The reservation is kept.                     *)
OnUnclear_Releases(t) ==
  /\ Goto(t, "awaiting", "ambiguous")
  /\ ReleaseReservation(t)
  /\ UNCHANGED <<lock, resume, cloud>>
OnUnclear(t) ==
  /\ Goto(t, "awaiting", "ambiguous")
  /\ UNCHANGED <<row, lock, resume, cloud>>

(* HTTP 409: another execution is active.  The lock stays.                  *)
OnActive(t) ==
  /\ jobs[t] = "busy"
  /\ Goto(t, "awaiting", "returned")
  /\ ReleaseReservation(t)
  /\ UNCHANGED <<lock, resume, cloud>>

(* Any other 4xx.                                                           *)
OnRejected(t) ==
  /\ jobs[t] = "rejected"
  /\ Goto(t, "awaiting", "returned")
  /\ ReleaseReservation(t)
  /\ lock' = None
  /\ UNCHANGED <<resume, cloud>>

OnAccepted(t) ==
  /\ jobs[t] \in Started
  /\ Goto(t, "awaiting", "accepted")
  /\ UNCHANGED <<row, lock, resume, cloud>>

(* Up to three tries; then the row is read back.  A callback or a seal may  *)
(* have overtaken the commit, which is fine as long as the row is still     *)
(* this attempt's.                                                          *)
CommitDispatch_NoReadBack(t) ==
  /\ \/ /\ CommitWhere(exec, t)
        /\ Goto(t, "accepted", "committed")
        /\ \E name \in Cursors \union {None} : exec' = CommitSet(exec, name)
     \/ /\ ~CommitWhere(exec, t)
        /\ Goto(t, "accepted", "lost")
        /\ UNCHANGED exec
  /\ UNCHANGED <<note, lock, resume, cloud>>
CommitDispatch(t) ==
  /\ \/ /\ CommitWhere(exec, t)
        /\ Goto(t, "accepted", "committed")
        /\ \E name \in Cursors \union {None} : exec' = CommitSet(exec, name)
     \/ /\ exec.run = t
        /\ Goto(t, "accepted", "committed")
        /\ UNCHANGED exec
     \/ /\ exec.run # t
        /\ Goto(t, "accepted", "lost")
        /\ UNCHANGED exec
  /\ UNCHANGED <<note, lock, resume, cloud>>

PutOwnLock(t) ==
  /\ Goto(t, "committed", "returned")
  /\ lock' = t
  /\ UNCHANGED <<row, resume, cloud>>

(* The isolate is evicted: whatever it did so far stands.                   *)
Crash(t) ==
  /\ pc[t] \in Working
  /\ pc' = [pc EXCEPT ![t] = "returned"]
  /\ resume' = [resume EXCEPT ![t] = None]
  /\ UNCHANGED <<row, lock, cloud>>

Trigger(t) ==
  \/ CheckLock(t) \/ PutLock(t) \/ GiveUp(t) \/ Preflight(t) \/ ReserveDispatch(t)
  \/ ReserveThrows(t) \/ PostRun(t) \/ OnUnclear(t) \/ OnActive(t) \/ OnRejected(t) \/ OnAccepted(t)
  \/ CommitDispatch(t) \/ PutOwnLock(t) \/ Crash(t)
-----------------------------------------------------------------------------
(* The controller: get_active_execution, then run_job.  All dates share the *)
(* job, so another date's execution may be active too.  A request that is   *)
(* lost on the way stays "requested"; an answer may always be lost.         *)
Handle(r, from, to) ==
  /\ jobs[r] = from
  /\ jobs' = [jobs EXCEPT ![r] = to]
  /\ UNCHANGED <<row, lock, pc, resume, calls>>

CheckActive(r) ==
  \/ (\A q \in Runs : jobs[q] \notin Active) /\ Handle(r, "requested", "checked")
  \/ Handle(r, "requested", "busy")

Reject(r) == Handle(r, "requested", "rejected")

(* The Jobs API call starts the execution or raises; when it raises (HTTP   *)
(* 502) the execution may have started all the same.                        *)
RunJob(r) == \E outcome \in {"running", "broken"} : Handle(r, "checked", outcome)
-----------------------------------------------------------------------------
(* The run.                                                                 *)
Report(r, from, to, messages) ==
  /\ jobs[r] \in from
  /\ jobs' = [jobs EXCEPT ![r] = to]
  /\ calls' = calls \union messages
  /\ UNCHANGED <<row, lock, pc, resume>>

Tell(r, status) == {Callback(r, status, "none")}

HandOff(r)  == Report(r, {"running"}, "handedOff", {})
Continue(r) == Report(r, {"handedOff"}, "finishing", {})
Seal(r)     == Report(r, {"finishing"}, "sealed", Tell(r, "seal"))
Publish(r)  == Report(r, {"sealed"}, "publishing", {})
Succeed(r)  == Report(r, Active, "succeeded", Tell(r, "success"))
FailRun(r)  == Report(r, InProgress \ {"sealed"}, "failed", Tell(r, "error"))
Die(r)      == Report(r, InProgress \ {"sealed"}, "failed", {})

(* _callback_worker posts once and raises unless the answer is 200: the     *)
(* execution then fails, though its callback may arrive, or may be lost.    *)
Unanswered(r) == \E status \in {"success", "seal"} :
                   Report(r, Active, "failed", Tell(r, status))

(* reconcilePipelineCloudFailure: a verified failure of the canonical run is*)
(* reported on its behalf, but not once the row awaits the premarket.  A run*)
(* that waits for the model can be reported failed by mistake (its inputs   *)
(* recovered later, or the release changed).                                *)
Reconcile(r) ==
  /\ exec.run = r
  /\ exec.status \in {"running", "waiting"}
  /\ note # "awaitingPremarket"
  /\ \/ Report(r, {"failed"}, "failed", Tell(r, "error"))
     \/ \E s \in {"handedOff", "sealed"} :
          Report(r, {s}, s, {Callback(r, "error", "falseFailure")})

Run(r) == CheckActive(r) \/ Reject(r) \/ RunJob(r) \/ HandOff(r) \/ Continue(r)
          \/ Seal(r) \/ Publish(r) \/ Unanswered(r) \/ Succeed(r) \/ FailRun(r) \/ Die(r) \/ Reconcile(r)
-----------------------------------------------------------------------------
(* The callback route.  It clears the KV lock after the row is written; a   *)
(* clearing that fails or comes later is an ExpireLock.                     *)
AcceptTerminal(m) ==
  /\ m.status \in {"success", "error"}
  /\ AcceptWhere(exec, m.run, m.status)
  /\ exec' = AcceptSet(exec, m.status)
  /\ note' = m.note
  /\ lock' \in {lock, IF lock \in {m.run, "1"} THEN None ELSE lock}
  /\ UNCHANGED <<pc, resume, cloud>>

SealWhere(r, run) ==
  /\ r.run = run
  /\ r.status \in {"running", "waiting"} \/ (r.status = "error" /\ note = "falseFailure")

(* acceptPipelineL3Seal leaves lease_owner and lease_expires_at alone.      *)
AcceptSeal(m) ==
  /\ m.status = "seal"
  /\ SealWhere(exec, m.run)
  /\ exec' = [exec EXCEPT !.status = "waiting"]
  /\ note' = "awaitingPremarket"
  /\ UNCHANGED <<lock, pc, resume, cloud>>

Deliver(m) == m \in calls /\ (AcceptTerminal(m) \/ AcceptSeal(m))

ExpireReservation ==
  /\ exec.live
  /\ exec' = [exec EXCEPT !.live = FALSE]
  /\ UNCHANGED <<note, lock, pc, resume, cloud>>

ExpireLock ==
  /\ lock # None
  /\ lock' = None
  /\ UNCHANGED <<row, pc, resume, cloud>>

DispatchNext ==
  \/ \E t \in Runs : Trigger(t) \/ Run(t)
  \/ \E m \in Callbacks : Deliver(m)
  \/ ExpireReservation
  \/ ExpireLock

DispatchSpec == DispatchInit /\ [][DispatchNext]_dispatchVars

(* The cloud ends every execution it started and wakes a run that waits for *)
(* the model; the reconciler is called by cron, again and again, so that an *)
(* error it reports gets through; an answered callback was delivered.       *)
(* Nothing is assumed of the trigger, of an unanswered callback or of the   *)
(* premarket.                                                               *)
Answered(m) == m.status = "error" \/ jobs[m.run] # "failed"
Fairness ==
  /\ \A r \in Runs : WF_dispatchVars(HandOff(r) \/ Continue(r) \/ Seal(r) \/ Succeed(r)
                              \/ FailRun(r) \/ Die(r) \/ Unanswered(r))
  /\ \A r \in Runs : WF_dispatchVars(jobs[r] = "failed" /\ Reconcile(r))
  /\ WF_dispatchVars(\E m \in calls : Answered(m) /\ Deliver(m))

FairSpec == DispatchSpec /\ Fairness
-----------------------------------------------------------------------------
ReportedFailed(r) == \E m \in calls : m.run = r /\ m.status = "error"

(* A run in progress that nobody reported failed is the canonical run of    *)
(* the date and its row is open: a lost answer, a dead trigger, an expired  *)
(* reservation or a broken lock never lets a second run start beside it.    *)
(* (The reservation, its retention on ambiguity, and the fail of a 4xx.)    *)
RunInProgressIsCanonical ==
  \A r \in Runs :
    jobs[r] \in InProgress \union {"checked"} /\ ~ReportedFailed(r) =>
      exec.run = r /\ exec.status \in {"running", "waiting"}

(* A trigger whose controller accepted the attempt never finds another run  *)
(* in its place, unless its own run was reported failed meanwhile; a        *)
(* callback or a seal that overtakes the commit does not count as a loss.   *)
CommitIsNotLost == \A t \in Runs : pc[t] = "lost" => ReportedFailed(t)

(* The date is closed with success only by a run that succeeded, and a      *)
(* successful date stays closed for later triggers and callbacks.           *)
SuccessIsEarned ==
  exec.status = "success" => Callback(exec.run, "success", "none") \in calls
SuccessStays == [][exec.status = "success" => exec' = exec]_dispatchVars

(* Every run that was started is closed in the end, or replaced after a     *)
(* failure, or handed to the premarket by its seal, though its trigger may  *)
(* be dead and its execution may have died silently.                        *)
Settled(r) == exec.run # r \/ exec.status \in {"success", "error"} \/ note = "awaitingPremarket"
StartedRunIsClosed == \A r \in Runs : jobs[r] = "running" ~> Settled(r)

(* "callback or lease expiry required" (mlPipelineTrigger.ts:120): once the *)
(* lease of an ambiguous dispatch is over, the reservation does not make a  *)
(* later trigger give up.                                                   *)
RefusedAfterExpiry ==
  /\ Expired(exec)
  /\ pc[exec.run] = "ambiguous"
  /\ \E t \in Runs : pc[t] = "preflighted" /\ pc'[t] = "refused"
LeaseExpiryFreesReservation == [][~RefusedAfterExpiry]_dispatchVars
=============================================================================
