----------------------------- MODULE InputStage -----------------------------
(***************************************************************************)
(* One stage of the pipeline's deferred inputs (pipeline_input_events.py): *)
(* the run stops when it has asked for a snapshot or for feature batches,  *)
(* and the callbacks and reconciliations that see the results arrive seal  *)
(* them, start one continuation job and watch it consume the stage.        *)
(*                                                                         *)
(* The objects are created once and replaced by compare-and-swap on their  *)
(* generation.  The age of a claim is a bit, set by a step of time.        *)
(***************************************************************************)
EXTENDS Naturals, FiniteSets

CONSTANTS Callbacks,     \* requests of POST /pipeline/v2/input/callback
          Reconcilers,   \* requests of POST /pipeline/v2/reconcile
          Batches,       \* what the stage waits for
          Kinds,         \* what the stage may be: "snapshot", "prep" or either
          MaxJobs,       \* bound: continuation jobs that can be started
          MaxFaults      \* bound: deaths, failed releases, outputs that change

ASSUME InputStageAssumption ==
    /\ Kinds \subseteq {"snapshot", "prep"}
    /\ MaxJobs \in Nat /\ MaxFaults \in Nat
    /\ Callbacks \cap Reconcilers = {} /\ Batches # {}

VARIABLES
    kind,        \* what the stage is, for good
    result,      \* per batch: what has arrived, or that it is overdue
    seal,        \* seal.json: its status and its age
    receipt,     \* the immutable receipt: none, or does it fit the outputs?
    locked,      \* is the preparation's lock held?
    cont,        \* continuation.json
    consuming,   \* consuming.json: the job that claimed the stage, 0 for none
    consumed,    \* has consumed.json been written?
    jobs,        \* the continuation jobs on Cloud Run, in order of creation
    pc, gen,     \* per handler: where it is, and the generation it has read
    exec,        \* per handler: the job it has read, found or started
    reported,    \* has the worker been told of an error?
    closed,      \* may the run's date no longer be written?
    kept,        \* history: has a release of the lock failed?
    hasty,       \* history: has a claim grown old under a handler at work?
    faults

storage  == <<result, seal, receipt, locked, cont>>
cloud    == <<consuming, consumed, jobs>>
handlers == <<pc, gen, exec>>
past     == <<kind, closed, kept, hasty>>
vars     == <<storage, cloud, handlers, reported, past, faults>>

Handlers == Callbacks \cup Reconcilers
Jobs     == 1..MaxJobs

TypeOK ==
    /\ kind \in Kinds
    /\ result \in [Batches -> {"none", "overdue", "ok", "unfit", "error"}]
    /\ seal \in [status : {"none", "sealing", "ready"}, old : BOOLEAN]
    /\ receipt \in {"none", "good", "stale"} /\ locked \in BOOLEAN
    /\ cont \in [status : {"none", "dispatching", "dispatched"},
                 gen : Nat, exec : 0..MaxJobs, old : BOOLEAN]
    /\ consuming \in 0..MaxJobs /\ consumed \in BOOLEAN
    /\ jobs \in [Jobs -> {"none", "queued", "working", "consumed", "succeeded", "failed"}]
    /\ pc \in [Handlers -> {"idle", "stage", "observe", "ready", "seal", "receipt", "release",
                            "sealed", "claim", "find", "take", "run", "save"}]
    /\ gen \in [Handlers -> Nat] /\ exec \in [Handlers -> 0..MaxJobs]
    /\ reported \in BOOLEAN /\ closed \in BOOLEAN /\ kept \in BOOLEAN /\ hasty \in BOOLEAN
    /\ faults \in 0..MaxFaults

Init ==
    /\ kind \in Kinds
    /\ result = [b \in Batches |-> "none"]
    /\ seal = [status |-> "none", old |-> FALSE]
    /\ receipt = "none" /\ locked = (kind = "prep")
    /\ cont = [status |-> "none", gen |-> 0, exec |-> 0, old |-> FALSE]
    /\ consuming = 0 /\ consumed = FALSE /\ jobs = [j \in Jobs |-> "none"]
    /\ pc = [h \in Handlers |-> "idle"] /\ gen = [h \in Handlers |-> 0]
    /\ exec = [h \in Handlers |-> 0]
    /\ reported = FALSE /\ closed = FALSE /\ kept = FALSE /\ hasty = FALSE /\ faults = 0

At(h, l)   == pc[h] = l
Goto(h, l) == pc' = [pc EXCEPT ![h] = l]

Return(h) ==
    /\ Goto(h, "idle")
    /\ gen' = [gen EXCEPT ![h] = 0] /\ exec' = [exec EXCEPT ![h] = 0]

\* A ValueError: 409 for a callback, the worker's error callback for a
\* reconciliation.
Raise(h) == Return(h) /\ reported' = (reported \/ h \in Reconcilers)

\* lookup_execution(): the newest job of the run, 0 for the one that deferred.
Newest == LET Started == {j \in Jobs : jobs[j] # "none"}
          IN  IF Started = {} THEN 0 ELSE CHOOSE j \in Started : \A k \in Started : k <= j

Fault == faults < MaxFaults /\ faults' = faults + 1

Over(j) == jobs[j] \in {"succeeded", "failed"}

----------------------------------------------------------------------------
(* What arrives, and time.                                                 *)

\* A snapshot is one result.
Awaited == IF kind = "prep" THEN Batches ELSE {CHOOSE b \in Batches : TRUE}

\* A batch is overdue after 2100 s, or when its attempts are used up; it is
\* unfit when its rows or its contract will not do.
Arrive(b) ==
    /\ b \in Awaited /\ result[b] \in {"none", "overdue"}
    /\ \E r \in {"ok", "unfit", "error", "overdue"} \ {result[b]} : result' = [result EXCEPT ![b] = r]
    /\ kind = "snapshot" => result'[b] \in {"ok", "error"}
    /\ UNCHANGED <<seal, receipt, locked, cont, cloud, handlers, reported, past, faults>>

Sealing == {h \in Handlers : pc[h] \in {"receipt", "release", "sealed"}}
Dispatching == {h \in Handlers : pc[h] \in {"run", "save"}}

\* 300 seconds for the seal, 120 for the dispatch.
Age ==
    /\ \/ /\ seal.status = "sealing" /\ ~seal.old
          /\ seal' = [seal EXCEPT !.old = TRUE]
          /\ hasty' = (hasty \/ Sealing # {}) /\ UNCHANGED cont
       \/ /\ cont.status = "dispatching" /\ ~cont.old
          /\ cont' = [cont EXCEPT !.old = TRUE]
          /\ hasty' = (hasty \/ Dispatching # {}) /\ UNCHANGED seal
    /\ UNCHANGED <<result, receipt, locked, cloud, handlers, reported, kind, closed, kept, faults>>

\* The next session opens: the canonical rows of the date are closed.
Close ==
    /\ ~closed /\ closed' = TRUE
    /\ UNCHANGED <<storage, cloud, handlers, reported, kind, kept, hasty, faults>>

----------------------------------------------------------------------------
(* reconcile_pipeline_execution and reconcile_inputs.                      *)

\* Only a run whose newest job has succeeded is looked into.
Look(h) ==
    /\ At(h, "idle")
    /\ \/ /\ Newest # 0 => jobs[Newest] = "succeeded"
          /\ Goto(h, "stage") /\ UNCHANGED reported
       \/ /\ Newest # 0 /\ jobs[Newest] = "failed"
          /\ reported' = TRUE /\ UNCHANGED pc
    /\ UNCHANGED <<storage, cloud, gen, exec, past, faults>>

Stage(h) ==
    /\ At(h, "stage")
    /\ \/ cont.status # "dispatched" /\ Goto(h, "ready") /\ UNCHANGED <<gen, exec>>
       \/ cont.status = "dispatched" /\ consumed /\ Return(h)
       \/ /\ cont.status = "dispatched" /\ ~consumed
          /\ exec' = [exec EXCEPT ![h] = cont.exec]
          /\ Goto(h, "observe") /\ UNCHANGED gen
    /\ UNCHANGED <<storage, cloud, reported, past, faults>>

Observe_Queued(h) ==
    /\ At(h, "observe")
    /\ IF jobs[exec[h]] # "working" THEN Raise(h) ELSE Return(h) /\ UNCHANGED reported
    /\ UNCHANGED <<storage, cloud, past, faults>>

Observe(h) ==
    /\ At(h, "observe")
    /\ IF Over(exec[h]) THEN Raise(h) ELSE Return(h) /\ UNCHANGED reported
    /\ UNCHANGED <<storage, cloud, past, faults>>

Called(h) ==
    /\ At(h, "idle") /\ Goto(h, "ready")
    /\ UNCHANGED <<storage, cloud, gen, exec, reported, past, faults>>

----------------------------------------------------------------------------
(* dispatch_ready: the inputs.                                             *)

Failed == \E b \in Awaited : result[b] \in {"error", "overdue"}
Complete == \A b \in Awaited : result[b] \in {"ok", "unfit"}

\* assert_canonical_window_open() comes first, and its RuntimeError is
\* neither a 409 nor reported.
Ready(h) ==
    /\ At(h, "ready")
    /\ \/ /\ closed \/ cont.status = "dispatched"
          /\ Return(h) /\ UNCHANGED reported
       \/ ~closed /\ cont.status # "dispatched" /\ Failed /\ Raise(h)
       \/ /\ ~closed /\ cont.status # "dispatched" /\ ~Failed /\ ~Complete
          /\ Return(h) /\ UNCHANGED reported
       \/ /\ ~closed /\ cont.status # "dispatched" /\ Complete
          /\ Goto(h, IF kind = "prep" THEN "seal" ELSE "claim")
          /\ UNCHANGED <<gen, exec, reported>>
    /\ UNCHANGED <<storage, cloud, past, faults>>

Sealer(h) == seal' = [status |-> "sealing", old |-> FALSE] /\ Goto(h, "receipt")

Seal_Once(h) ==
    /\ At(h, "seal")
    /\ \/ seal.status = "none" /\ Sealer(h) /\ UNCHANGED <<gen, exec>>
       \/ seal.status = "ready" /\ Goto(h, "claim") /\ UNCHANGED <<seal, gen, exec>>
       \/ seal.status = "sealing" /\ Return(h) /\ UNCHANGED seal
    /\ UNCHANGED <<result, receipt, locked, cont, cloud, reported, past, faults>>

Seal_TrustsOld(h) ==
    /\ At(h, "seal")
    /\ \/ seal.status = "none" /\ Sealer(h) /\ UNCHANGED <<gen, exec>>
       \/ /\ seal.status = "ready" \/ (seal.status = "sealing" /\ seal.old)
          /\ Goto(h, "claim") /\ UNCHANGED <<seal, gen, exec>>
       \/ seal.status = "sealing" /\ ~seal.old /\ Return(h) /\ UNCHANGED seal
    /\ UNCHANGED <<result, receipt, locked, cont, cloud, reported, past, faults>>

Seal(h) ==
    /\ At(h, "seal")
    /\ \/ /\ seal.status = "none" \/ (seal.status = "sealing" /\ seal.old)
          /\ Sealer(h) /\ UNCHANGED <<gen, exec>>
       \/ seal.status = "ready" /\ Goto(h, "claim") /\ UNCHANGED <<seal, gen, exec>>
       \/ seal.status = "sealing" /\ ~seal.old /\ Return(h) /\ UNCHANGED seal
    /\ UNCHANGED <<result, receipt, locked, cont, cloud, reported, past, faults>>

Unfit == \E b \in Awaited : result[b] = "unfit"

\* Create-once.  The outputs have to be fit and those of whatever receipt is
\* there; a container that was taken over may have written others meanwhile.
\* Otherwise a ValueError, that leaves the seal at "sealing".
WriteReceipt(h) ==
    /\ At(h, "receipt")
    /\ \/ /\ Unfit \/ receipt = "stale"
          /\ Raise(h) /\ UNCHANGED <<receipt, faults>>
       \/ /\ ~Unfit /\ receipt # "stale" /\ receipt' = "good"
          /\ Goto(h, "release") /\ UNCHANGED <<gen, exec, reported, faults>>
       \/ ~Unfit /\ receipt # "stale" /\ receipt' = "stale" /\ Raise(h) /\ Fault
    /\ UNCHANGED <<result, seal, locked, cont, cloud, past>>

\* A storage error is swallowed and the answer of release() is not read: the
\* stage goes on, its lock still held.
Release(h) ==
    /\ At(h, "release") /\ Goto(h, "sealed")
    /\ \/ locked' = FALSE /\ UNCHANGED <<kept, faults>>
       \/ locked /\ Fault /\ kept' = TRUE /\ UNCHANGED locked
    /\ UNCHANGED <<result, seal, receipt, cont, cloud, gen, exec, reported, kind, closed, hasty>>

\* _save_launch(): reloaded and overwritten.
Sealed(h) ==
    /\ At(h, "sealed")
    /\ seal' = [status |-> "ready", old |-> FALSE]
    /\ Goto(h, "claim")
    /\ UNCHANGED <<result, receipt, locked, cont, cloud, gen, exec, reported, past, faults>>

----------------------------------------------------------------------------
(* dispatch_ready: the continuation.                                       *)

Claimed(h) ==
    /\ cont' = [status |-> "dispatching", gen |-> cont.gen + 1, exec |-> 0, old |-> FALSE]
    /\ Goto(h, "run") /\ UNCHANGED <<gen, exec>>

Claim(h) ==
    /\ At(h, "claim")
    /\ \/ cont.status = "none" /\ Claimed(h)
       \/ /\ cont.status = "dispatching" /\ cont.old
          /\ gen' = [gen EXCEPT ![h] = cont.gen]
          /\ Goto(h, "find") /\ UNCHANGED <<cont, exec>>
       \/ /\ cont.status = "dispatched" \/ (cont.status = "dispatching" /\ ~cont.old)
          /\ Return(h) /\ UNCHANGED cont
    /\ UNCHANGED <<result, seal, receipt, locked, cloud, reported, past, faults>>

Find_Nothing(h) ==
    /\ At(h, "find") /\ Goto(h, "take")
    /\ UNCHANGED <<storage, cloud, gen, exec, reported, past, faults>>

\* A job with this stage in its environment is adopted, whatever its state.
Find(h) ==
    /\ At(h, "find")
    /\ exec' = [exec EXCEPT ![h] = Newest]
    /\ Goto(h, IF Newest = 0 THEN "take" ELSE "save")
    /\ UNCHANGED <<storage, cloud, gen, reported, past, faults>>

Take(h) ==
    /\ At(h, "take")
    /\ \/ cont.gen = gen[h] /\ Claimed(h)
       \/ cont.gen # gen[h] /\ Return(h) /\ UNCHANGED cont
    /\ UNCHANGED <<result, seal, receipt, locked, cloud, reported, past, faults>>

Run(h) ==
    /\ At(h, "run")
    /\ \E j \in Jobs :
          /\ j = Newest + 1
          /\ jobs' = [jobs EXCEPT ![j] = "queued"]
          /\ exec' = [exec EXCEPT ![h] = j]
    /\ Goto(h, "save")
    /\ UNCHANGED <<storage, consuming, consumed, gen, reported, past, faults>>

\* _save_launch() again: whatever is there gives way.
Save(h) ==
    /\ At(h, "save")
    /\ cont' = [status |-> "dispatched", gen |-> cont.gen + 1, exec |-> exec[h], old |-> FALSE]
    /\ Return(h)
    /\ UNCHANGED <<result, seal, receipt, locked, cloud, reported, past, faults>>

\* The request ends, by a death, a lost answer or a storage error.
Die(h) ==
    /\ pc[h] # "idle" /\ Fault
    /\ Return(h)
    /\ UNCHANGED <<storage, cloud, reported, past>>

----------------------------------------------------------------------------
(* run_pipeline_v2_from_input_event, as job j.                             *)

Begin_Unclaimed(j) ==
    /\ jobs[j] = "queued"
    /\ jobs' = [jobs EXCEPT ![j] = IF consumed THEN "succeeded" ELSE "working"]
    /\ consuming' = IF consumed THEN consuming ELSE j
    /\ UNCHANGED <<storage, consumed, handlers, reported, past, faults>>

\* claim_consumption(): the second job defers, which is a success.
Begin(j) ==
    /\ jobs[j] = "queued"
    /\ \/ /\ consuming = 0 /\ consuming' = j
          /\ jobs' = [jobs EXCEPT ![j] = "working"]
       \/ /\ consuming # 0 /\ UNCHANGED consuming
          /\ jobs' = [jobs EXCEPT ![j] = "succeeded"]
    /\ UNCHANGED <<storage, consumed, handlers, reported, past, faults>>

Consume(j) ==
    /\ jobs[j] = "working"
    /\ consumed' = TRUE /\ jobs' = [jobs EXCEPT ![j] = "consumed"]
    /\ UNCHANGED <<storage, consuming, handlers, reported, past, faults>>

Exit(j) ==
    /\ jobs[j] = "consumed"
    /\ jobs' = [jobs EXCEPT ![j] = "succeeded"]
    /\ UNCHANGED <<storage, consuming, consumed, handlers, reported, past, faults>>

Crash(j) ==
    /\ jobs[j] \in {"queued", "working", "consumed"}
    /\ Fault
    /\ jobs' = [jobs EXCEPT ![j] = "failed"]
    /\ UNCHANGED <<storage, consuming, consumed, handlers, reported, past>>

\* The window is asked again between the claim of the stage and its work.
Refuse(j) ==
    /\ jobs[j] = "working" /\ closed
    /\ jobs' = [jobs EXCEPT ![j] = "failed"]
    /\ UNCHANGED <<storage, consuming, consumed, handlers, reported, past, faults>>

Dispatch(h) == \/ Ready(h) \/ Seal(h) \/ WriteReceipt(h) \/ Release(h) \/ Sealed(h)
               \/ Claim(h) \/ Find(h) \/ Take(h) \/ Run(h) \/ Save(h)
Reconcile(h) == Look(h) \/ Stage(h) \/ Observe(h) \/ Dispatch(h)
Work(j)      == Begin(j) \/ Consume(j) \/ Exit(j)

Next ==
    \/ \E b \in Batches : Arrive(b)
    \/ Age \/ Close
    \/ \E h \in Callbacks : Called(h) \/ Dispatch(h)
    \/ \E h \in Reconcilers : Reconcile(h)
    \/ \E h \in Handlers : Die(h)
    \/ \E j \in Jobs : Work(j) \/ Refuse(j) \/ Crash(j)

Spec == Init /\ [][Next]_vars

\* Results arrive or become overdue, abandoned claims grow old, the worker
\* asks for a reconciliation again and again, jobs run, and there are only so
\* many callbacks.
FairSpec ==
    /\ Spec
    /\ \A b \in Batches : WF_vars(Arrive(b))
    /\ WF_vars(Age)
    /\ \A h \in Callbacks : WF_vars(Dispatch(h)) /\ <>[][~Called(h)]_vars
    /\ \A h \in Reconcilers : WF_vars(Reconcile(h))
    /\ \A j \in Jobs : WF_vars(Work(j))

----------------------------------------------------------------------------
(* The part of the pipeline behind the inputs runs once: only one job ever  *)
(* works on the stage, however many were started.                           *)
OneConsumer ==
    \A j, k \in Jobs : jobs[j] \in {"working", "consumed"} /\ jobs[k] \in {"working", "consumed"} => j = k

(* No job is started before every input is there and, for a preparation,    *)
(* sealed: the receipt written and the training lock given back, whichever  *)
(* of the sealers died on the way.  A lock is carried into the continuation *)
(* only by a release that failed, whose answer nobody reads.                *)
SealedBeforeDispatch ==
    Newest # 0 =>
        /\ Complete
        /\ kind = "prep" => receipt # "none" /\ seal.status # "none" /\ (locked => kept)

(* As long as only abandoned claims have grown old, one job is started,    *)
(* also when a handler dies between the start and its record of it.         *)
DispatchedOnce == ~hasty => Cardinality({j \in Jobs : jobs[j] # "none"}) <= 1

(* As long as only abandoned claims have grown old, a job that waits or     *)
(* works is not called off: the worker is told of an error only if an input *)
(* failed or is overdue, or no job is left.                                 *)
WorkIsNotCalledOff ==
    [][reported' # reported =>
          hasty \/ Failed \/ \A j \in Jobs : jobs[j] \notin {"queued", "working"}]_vars

(* The stage ends: consumed, or reported; unless the date is closed before  *)
(* the continuation is recorded, which no reconciliation reports.           *)
StageSettles ==
    <>(consumed \/ reported) \/ <>[](closed /\ cont.status # "dispatched")
=============================================================================
