------------------------------ MODULE GpuStage ------------------------------
(***************************************************************************)
(* One GPU stage of a prediction request on Modal: the CPU driver that     *)
(* claims the stage and suspends (Journal, pipeline_prediction_stages.py), *)
(* the GPU containers that run it under a lease (run_gpu_stage), and the   *)
(* controller's watchdog that sends another driver or gives the run up     *)
(* (recover_request, pipeline_prediction_recovery.py).                     *)
(*                                                                         *)
(* A formal stage: at its queue limit the run fails.  Times are bits that  *)
(* steps of time set; a lease outlives the hard timeout of its function,   *)
(* so it ends only once its holder is over.                                *)
(***************************************************************************)
EXTENDS Naturals, FiniteSets

CONSTANTS Drivers,        \* Modal calls of pipeline_prediction_bundle
          Reconcilers,    \* requests that call recover_request
          MaxAttempts,    \* GPU_ATTEMPTS, 3 in the code
          MaxDispatches,  \* GPU_DISPATCHES, 3 in the code
          MaxRecoveries,  \* recovery attempts without progress, 3 in the code
          MaxContainers,  \* GPU containers at a time, 1 in the code
          MaxPending,     \* bound: driver calls waiting; further ones are dropped
          MaxFaults       \* bound: deaths, lost calls and lost answers

ASSUME GpuStageAssumption ==
    /\ MaxAttempts \in Nat \ {0} /\ MaxDispatches \in Nat \ {0}
    /\ MaxRecoveries \in Nat /\ MaxContainers \in Nat \ {0} /\ MaxPending \in Nat \ {0}
    /\ MaxFaults \in Nat

VARIABLES
    claim,       \* the claim of the stage, with its tokens 1..claim.tok
    result,      \* per token: the published result
    executed,    \* per token: has an execution been recorded?
    receipt,     \* per token: has a dispatch been acknowledged and recorded?
    progress,    \* the token in the progress object, 0 before the stage
    lease,       \* the driver lease: "free", "held", or "dead" with its driver
    terminal,    \* has the run's end been recorded?
    recovery,    \* the watchdog's own record
    pending,     \* driver calls that Modal has not started yet
    dpc, dsaw,   \* per driver: where it is, and the claim it has read
    sends,       \* per driver: the container it is to spawn
    cpc, cgen,   \* per container: where it is, and the generation it has read
    leased,      \* per container: does it hold the lease?
    rpc, rsaw,   \* per reconciliation: where it is, and what it has read
    told,        \* what the controller and the worker have been told
    faults

journal    == <<claim, result, executed, receipt, progress, terminal>>
driver     == <<lease, dpc, dsaw, sends>>
containers == <<cpc, cgen, leased>>
watchdog   == <<recovery, rpc, rsaw>>
vars       == <<journal, driver, containers, watchdog, pending, told, faults>>

Tokens     == 1..MaxAttempts
Containers == Tokens \X (1..MaxDispatches)

Claims == [tok : 0..MaxAttempts, gen : Nat, attempt : 0..MaxAttempts, dispatches : 0..MaxDispatches,
           started : BOOLEAN, live : BOOLEAN, overdue : BOOLEAN, late : BOOLEAN,
           waited : BOOLEAN, abandoned : BOOLEAN]
NoClaim == [tok |-> 0, gen |-> 0, attempt |-> 0, dispatches |-> 0,
            started |-> FALSE, live |-> FALSE, overdue |-> FALSE, late |-> FALSE,
            waited |-> FALSE, abandoned |-> FALSE]

Views  == [claim : Claims, current : BOOLEAN, older : 0..MaxAttempts, unseen : BOOLEAN,
           marker : (0..MaxAttempts) \X Nat, gen : Nat, attempt : Nat, before : 0..MaxAttempts]
NoView == [claim |-> NoClaim, current |-> FALSE, older |-> 0, unseen |-> FALSE,
           marker |-> <<0, 0>>, gen |-> 0, attempt |-> 0, before |-> 0]

TypeOK ==
    /\ claim \in Claims
    /\ result \in [Tokens -> {"none", "ok", "error"}]
    /\ executed \in [Tokens -> BOOLEAN] /\ receipt \in [Tokens -> BOOLEAN]
    /\ progress \in 0..MaxAttempts /\ terminal \in BOOLEAN
    /\ lease \in {"free", "held", "dead"} /\ pending \in 0..MaxPending
    /\ recovery \in [gen : Nat, marker : (0..MaxAttempts) \X Nat, attempt : 0..MaxRecoveries,
                     older : 0..MaxAttempts, fresh : BOOLEAN]
    /\ dpc \in [Drivers -> {"idle", "read", "view", "abandon", "resend", "claim", "progress", "leave",
                            "spawn", "deliver", "fail", "tell"}]
    /\ dsaw \in [Drivers -> Claims] /\ sends \in [Drivers -> Containers \cup {<<0, 0>>}]
    /\ cpc \in [Containers -> {"off", "queued", "start", "execute", "renew", "predict",
                               "resume", "over"}]
    /\ cgen \in [Containers -> Nat] /\ leased \in [Containers -> BOOLEAN]
    /\ rpc \in [Reconcilers -> {"idle", "fence", "dispatch", "spawn"}]
    /\ rsaw \in [Reconcilers -> Views]
    /\ told \subseteq {"success", "error", "exhausted"} /\ faults \in 0..MaxFaults

Init ==
    /\ claim = NoClaim /\ result = [t \in Tokens |-> "none"]
    /\ executed = [t \in Tokens |-> FALSE] /\ receipt = [t \in Tokens |-> FALSE]
    /\ progress = 0 /\ terminal = FALSE /\ lease = "free" /\ pending = 1
    /\ recovery = [gen |-> 0, marker |-> <<0, 0>>, attempt |-> 0, older |-> 0, fresh |-> FALSE]
    /\ dpc = [d \in Drivers |-> "idle"] /\ dsaw = [d \in Drivers |-> NoClaim]
    /\ sends = [d \in Drivers |-> <<0, 0>>]
    /\ cpc = [c \in Containers |-> "off"] /\ cgen = [c \in Containers |-> 0]
    /\ leased = [c \in Containers |-> FALSE]
    /\ rpc = [r \in Reconcilers |-> "idle"] /\ rsaw = [r \in Reconcilers |-> NoView]
    /\ told = {} /\ faults = 0

Fault == faults < MaxFaults /\ faults' = faults + 1

SpawnDriver == pending' = IF pending < MaxPending THEN pending + 1 ELSE pending

\* A compare-and-swap of the claim read at generation g.
Swap(g, new) == claim.gen = g /\ claim' = [new EXCEPT !.gen = g + 1]

----------------------------------------------------------------------------
(* Time.                                                                   *)

\* 1050 s from the start of an execution that is killed after 900 s.
LeaseEnds ==
    /\ claim.live /\ \A c \in Containers : ~leased[c]
    /\ claim' = [claim EXCEPT !.live = FALSE]
    /\ UNCHANGED recovery

QueueLimit ==
    /\ claim.tok # 0 /\ ~claim.started /\ ~claim.overdue
    /\ claim' = [claim EXCEPT !.overdue = TRUE]
    /\ UNCHANGED recovery

ResendGrace ==
    /\ claim.tok # 0 /\ ~claim.started /\ ~claim.waited
    /\ claim' = [claim EXCEPT !.waited = TRUE]
    /\ UNCHANGED recovery

RecoveryGrace ==
    /\ recovery.fresh
    /\ recovery' = [recovery EXCEPT !.fresh = FALSE]
    /\ UNCHANGED claim

Clock ==
    /\ LeaseEnds \/ QueueLimit \/ ResendGrace \/ RecoveryGrace
    /\ UNCHANGED <<result, executed, receipt, progress, terminal, driver, containers,
                   rpc, rsaw, pending, told, faults>>

\* 3660 s of a driver that is killed after 3600 s.
DriverLapse ==
    /\ lease = "dead" /\ lease' = "free"
    /\ UNCHANGED <<journal, dpc, dsaw, sends, containers, watchdog, pending, told, faults>>

----------------------------------------------------------------------------
(* The CPU driver: Journal.driver, Journal.gpu and their caller.           *)

Goto(d, l) == dpc' = [dpc EXCEPT ![d] = l]

Return(d) ==
    /\ Goto(d, "idle")
    /\ dsaw' = [dsaw EXCEPT ![d] = NoClaim]
    /\ sends' = [sends EXCEPT ![d] = <<0, 0>>]

Begin(d) ==
    /\ dpc[d] = "idle" /\ pending > 0 /\ pending' = pending - 1
    /\ \/ lease = "free" /\ lease' = "held" /\ Goto(d, "read")
       \/ lease # "free" /\ UNCHANGED <<lease, dpc>>
    /\ UNCHANGED <<journal, dsaw, sends, containers, watchdog, told, faults>>

Read(d) ==
    /\ dpc[d] = "read" /\ Goto(d, "view")
    /\ dsaw' = [dsaw EXCEPT ![d] = claim]
    /\ UNCHANGED <<journal, lease, sends, containers, watchdog, pending, told, faults>>

Valid(v)   == \E t \in 1..v.tok : result[t] = "ok"
Errored(v) == v.tok # 0 /\ result[v.tok] = "error"

Exhausted(v) == v.attempt >= MaxAttempts

\* What Journal.gpu makes of the claim v, with the results read after it.
Verdict(v) ==
    IF Valid(v) THEN "deliver"
    ELSE IF Errored(v) \/ v.abandoned THEN "fail"
    ELSE IF v.tok = 0 THEN "claim"
    ELSE IF ~v.started THEN
        IF v.overdue THEN "abandon"
        ELSE IF receipt[v.tok] \/ v.dispatches >= MaxDispatches \/ ~v.waited THEN "leave"
        ELSE "resend"
    ELSE IF v.live THEN "leave"
    ELSE IF Exhausted(v) THEN "fail"
    ELSE IF v.late THEN "abandon"
    ELSE "claim"

View(d) ==
    LET v == dsaw[d] IN
    /\ dpc[d] = "view" /\ Goto(d, Verdict(v))
    /\ progress' = IF Verdict(v) \in {"leave", "resend"} THEN v.tok ELSE progress
    /\ UNCHANGED <<claim, result, executed, receipt, terminal, lease, dsaw, sends,
                   containers, watchdog, pending, told, faults>>

Abandon_Unfenced(d) ==
    /\ dpc[d] = "abandon" /\ Goto(d, "read")
    /\ claim' = [claim EXCEPT !.abandoned = TRUE, !.gen = @ + 1]
    /\ UNCHANGED <<result, executed, receipt, progress, terminal, lease, dsaw, sends,
                   containers, watchdog, pending, told, faults>>

\* Whether it was swapped or not, the claim is read again.
Abandon(d) ==
    /\ dpc[d] = "abandon" /\ Goto(d, "read")
    /\ \/ Swap(dsaw[d].gen, [claim EXCEPT !.abandoned = TRUE])
       \/ claim.gen # dsaw[d].gen /\ UNCHANGED claim
    /\ UNCHANGED <<result, executed, receipt, progress, terminal, lease, dsaw, sends,
                   containers, watchdog, pending, told, faults>>

\* The same token once more: its acknowledgement was lost.
Resend(d) ==
    /\ dpc[d] = "resend" /\ Goto(d, "leave")
    /\ \/ /\ Swap(dsaw[d].gen, [claim EXCEPT !.dispatches = @ + 1, !.waited = FALSE])
          /\ sends' = [sends EXCEPT ![d] = <<claim.tok, claim.dispatches + 1>>]
       \/ claim.gen # dsaw[d].gen /\ UNCHANGED <<claim, sends>>
    /\ UNCHANGED <<result, executed, receipt, progress, terminal, lease, dsaw,
                   containers, watchdog, pending, told, faults>>

NewToken_EveryView(d) ==
    /\ dpc[d] = "claim"
    /\ claim' = [NoClaim EXCEPT !.tok = claim.tok + 1, !.attempt = claim.attempt,
                                !.dispatches = 1, !.gen = claim.gen + 1]
    /\ Goto(d, "progress")
    /\ UNCHANGED <<result, executed, receipt, progress, terminal, lease, dsaw, sends,
                   containers, watchdog, pending, told, faults>>

NewToken(d) ==
    /\ dpc[d] = "claim"
    /\ \/ /\ Swap(dsaw[d].gen, [NoClaim EXCEPT !.tok = claim.tok + 1, !.attempt = claim.attempt,
                                               !.dispatches = 1])
          /\ Goto(d, "progress")
       \/ claim.gen # dsaw[d].gen /\ Goto(d, "leave") /\ UNCHANGED claim
    /\ UNCHANGED <<result, executed, receipt, progress, terminal, lease, dsaw, sends,
                   containers, watchdog, pending, told, faults>>

Progress(d) ==
    /\ dpc[d] = "progress" /\ Goto(d, "leave")
    /\ progress' = dsaw[d].tok + 1
    /\ sends' = [sends EXCEPT ![d] = <<dsaw[d].tok + 1, 1>>]
    /\ UNCHANGED <<claim, result, executed, receipt, terminal, lease, dsaw,
                   containers, watchdog, pending, told, faults>>

\* Suspended: the driver lease is released before the dispatch.
Leave(d) ==
    /\ dpc[d] = "leave" /\ lease' = "free"
    /\ \/ sends[d] = <<0, 0>> /\ Return(d)
       \/ sends[d] # <<0, 0>> /\ Goto(d, "spawn") /\ UNCHANGED <<dsaw, sends>>
    /\ UNCHANGED <<journal, containers, watchdog, pending, told, faults>>

Spawned(d) == cpc' = [cpc EXCEPT ![sends[d]] = "queued"]

\* A lost acknowledgement, or a receipt that is not written: the container may
\* have been spawned or not.
Spawn(d) ==
    /\ dpc[d] = "spawn" /\ Return(d)
    /\ \/ Spawned(d) /\ receipt' = [receipt EXCEPT ![sends[d][1]] = TRUE] /\ UNCHANGED faults
       \/ Fault /\ (Spawned(d) \/ UNCHANGED cpc) /\ UNCHANGED receipt
    /\ UNCHANGED <<claim, result, executed, progress, terminal, lease, cgen, leased, watchdog,
                   pending, told>>

\* The callback is accepted before the end of the run is recorded.
Deliver(d) ==
    /\ dpc[d] = "deliver" /\ Return(d)
    /\ told' = told \cup {"success"}
    /\ \/ terminal' = TRUE /\ lease' = "free" /\ UNCHANGED faults
       \/ Fault /\ lease' = "dead" /\ UNCHANGED terminal
    /\ UNCHANGED <<claim, result, executed, receipt, progress, containers, watchdog, pending>>

\* The exception leaves the driver's lease before the callback is sent.
Fail(d) ==
    /\ dpc[d] = "fail" /\ Goto(d, "tell") /\ lease' = "free"
    /\ UNCHANGED <<journal, dsaw, sends, containers, watchdog, pending, told, faults>>

Tell(d) ==
    /\ dpc[d] = "tell" /\ Return(d)
    /\ told' = told \cup {"error"}
    /\ \/ terminal' = TRUE /\ UNCHANGED faults
       \/ Fault /\ UNCHANGED terminal
    /\ UNCHANGED <<claim, result, executed, receipt, progress, lease, containers, watchdog, pending>>

\* A death, or a callback without an answer, which ends the call as well.
DriverDies(d) ==
    /\ dpc[d] # "idle" /\ Fault /\ Return(d)
    /\ lease' = IF dpc[d] \in {"spawn", "tell"} THEN lease ELSE "dead"
    /\ UNCHANGED <<journal, containers, watchdog, pending, told>>

----------------------------------------------------------------------------
(* A GPU container: run_gpu_stage.                                         *)

Enter(c, l) == cpc' = [cpc EXCEPT ![c] = l]
Over(c)     == Enter(c, "over") /\ leased' = [leased EXCEPT ![c] = FALSE] /\ UNCHANGED cgen
Stale(c)    == claim.tok # c[1] \/ claim.abandoned

Accept(c) ==
    /\ ~Stale(c)
    /\ cgen' = [cgen EXCEPT ![c] = claim.gen]
    /\ Enter(c, IF claim.started THEN "execute" ELSE "start")
    /\ UNCHANGED leased

Room == Cardinality({c \in Containers : cpc[c] \notin {"off", "queued", "over"}}) < MaxContainers

Arrive(c) ==
    /\ cpc[c] = "queued" /\ Room
    /\ \/ (Stale(c) \/ terminal) /\ Over(c)
       \/ ~terminal /\ Accept(c)
    /\ UNCHANGED <<journal, driver, watchdog, pending, told, faults>>

Leased(c) == claim' = [claim EXCEPT !.started = TRUE, !.live = TRUE, !.late = claim.overdue,
                                    !.attempt = @ + 1, !.gen = @ + 1]

\* The lease starts here; a lost swap means the driver has changed the claim.
Start(c) ==
    /\ cpc[c] = "start"
    /\ \/ /\ claim.gen = cgen[c] /\ Leased(c)
          /\ leased' = [leased EXCEPT ![c] = TRUE]
          /\ Enter(c, "execute") /\ UNCHANGED cgen
       \/ claim.gen # cgen[c] /\ Stale(c) /\ Over(c) /\ UNCHANGED claim
       \/ claim.gen # cgen[c] /\ Accept(c) /\ UNCHANGED claim
    /\ UNCHANGED <<result, executed, receipt, progress, terminal, driver, watchdog,
                   pending, told, faults>>

\* A result is not computed again.  Create-once: a token is executed by one container.
Execute(c) ==
    /\ cpc[c] = "execute"
    /\ \/ result[c[1]] # "none" /\ Enter(c, "resume") /\ UNCHANGED <<executed, cgen, leased>>
       \/ result[c[1]] = "none" /\ executed[c[1]] /\ Over(c) /\ UNCHANGED executed
       \/ /\ ~executed[c[1]] /\ executed' = [executed EXCEPT ![c[1]] = TRUE]
          /\ Enter(c, IF leased[c] THEN "predict" ELSE "renew") /\ UNCHANGED <<cgen, leased>>
    /\ UNCHANGED <<claim, result, receipt, progress, terminal, driver, watchdog,
                   pending, told, faults>>

\* The container that took the lease died before executing: this one needs its own.
Renew(c) ==
    /\ cpc[c] = "renew"
    /\ \/ /\ Swap(cgen[c], [claim EXCEPT !.live = TRUE])
          /\ leased' = [leased EXCEPT ![c] = TRUE]
          /\ Enter(c, "predict") /\ UNCHANGED cgen
       \/ claim.gen # cgen[c] /\ Stale(c) /\ Over(c) /\ UNCHANGED claim
       \/ /\ claim.gen # cgen[c] /\ ~Stale(c)
          /\ Enter(c, "predict") /\ UNCHANGED <<claim, cgen, leased>>
    /\ UNCHANGED <<result, executed, receipt, progress, terminal, driver, watchdog,
                   pending, told, faults>>

Predict(c) ==
    /\ cpc[c] = "predict" /\ Enter(c, "resume")
    /\ \E r \in {"ok", "error"} :
          result' = [result EXCEPT ![c[1]] = IF @ = "none" THEN r ELSE @]
    /\ UNCHANGED <<claim, executed, receipt, progress, terminal, driver, cgen, leased,
                   watchdog, pending, told, faults>>

Resume(c) ==
    /\ cpc[c] = "resume" /\ Over(c) /\ SpawnDriver
    /\ UNCHANGED <<journal, driver, watchdog, told, faults>>

\* A time-out or a crash; a preempted container is started again.
ContainerDies(c) ==
    /\ cpc[c] \notin {"off", "over"} /\ Fault
    /\ leased' = [leased EXCEPT ![c] = FALSE]
    /\ Enter(c, "over") \/ Enter(c, "queued")
    /\ UNCHANGED <<journal, driver, cgen, watchdog, pending, told>>

----------------------------------------------------------------------------
(* The watchdog: recover_request.                                          *)

Known   == progress # 0 /\ claim.tok # 0
Current == Known /\ result[claim.tok] # "none"
Older   == IF Known THEN Cardinality({t \in 1..(claim.tok - 1) : result[t] # "none"}) ELSE 0
Unseen  == Older # 0 /\ recovery.older # Older

\* The generation of the result a driver is sent for, 0 for none.
Generation == IF Current THEN MaxAttempts + claim.tok ELSE IF Unseen THEN Older ELSE 0

Waits_Started ==
    /\ Known /\ Generation = 0 /\ ~claim.abandoned
    /\ claim.started \/ ~claim.overdue

\* _gpu_wait: no driver is needed now.
Waits == /\ Known /\ Generation = 0 /\ ~claim.abandoned
         /\ IF claim.started THEN claim.live
            ELSE /\ ~claim.overdue
                 /\ receipt[claim.tok] \/ claim.dispatches >= MaxDispatches \/ ~claim.waited

Again(r, l) == rpc' = [rpc EXCEPT ![r] = l]

Marker == <<progress, Generation>>

Spent(n) == n > MaxRecoveries

Look(r) ==
    /\ rpc[r] = "idle" /\ ~terminal /\ lease = "free" /\ ~Waits /\ ~recovery.fresh
    /\ LET n == IF recovery.marker = Marker /\ recovery.gen # 0 THEN recovery.attempt + 1 ELSE 1 IN
       /\ rsaw' = [rsaw EXCEPT ![r] =
              [claim |-> IF Known THEN claim ELSE NoClaim, current |-> Current, older |-> Older,
               unseen |-> Unseen, marker |-> Marker, gen |-> recovery.gen, attempt |-> n,
               before |-> recovery.older]]
       /\ Again(r, IF Spent(n) THEN "fence" ELSE "dispatch")
    /\ UNCHANGED <<journal, driver, containers, recovery, pending, told, faults>>

Ends(r) == Again(r, "idle") /\ rsaw' = [rsaw EXCEPT ![r] = NoView]

\* A request still queued is abandoned; a container that has started keeps its lease.
GiveUp(r) ==
    LET v == rsaw[r].claim
        Queued == ~rsaw[r].current /\ v.tok # 0 /\ ~v.started /\ ~v.abandoned IN
    /\ rpc[r] = "fence" /\ Ends(r)
    /\ \/ ~Queued /\ UNCHANGED claim /\ told' = told \cup {"exhausted"}
       \/ /\ Queued /\ Swap(v.gen, [claim EXCEPT !.abandoned = TRUE])
          /\ told' = told \cup {"exhausted"}
       \/ /\ Queued /\ claim.gen # v.gen /\ UNCHANGED claim
          /\ told' = IF claim.tok = v.tok /\ claim.started THEN told ELSE told \cup {"exhausted"}
    /\ UNCHANGED <<result, executed, receipt, progress, terminal, driver, containers,
                   recovery, pending, faults>>

Record(r) ==
    /\ rpc[r] = "dispatch"
    /\ \/ /\ recovery.gen = rsaw[r].gen
          /\ recovery' = [gen |-> recovery.gen + 1, marker |-> rsaw[r].marker,
                          attempt |-> rsaw[r].attempt, older |-> rsaw[r].older, fresh |-> TRUE]
          /\ Again(r, "spawn") /\ UNCHANGED rsaw
       \/ recovery.gen # rsaw[r].gen /\ Ends(r) /\ UNCHANGED recovery
    /\ UNCHANGED <<journal, driver, containers, pending, told, faults>>

\* An uncertain dispatch for an older result is to be repeated.
Send(r) ==
    /\ rpc[r] = "spawn" /\ Ends(r)
    /\ \/ SpawnDriver /\ UNCHANGED <<recovery, faults>>
       \/ /\ Fault /\ (SpawnDriver \/ UNCHANGED pending)
          /\ recovery' = IF rsaw[r].unseen /\ ~rsaw[r].current /\ recovery.gen = rsaw[r].gen + 1
                         THEN [recovery EXCEPT !.older = rsaw[r].before, !.gen = @ + 1]
                         ELSE recovery
    /\ UNCHANGED <<journal, driver, containers, told>>

Drive(d) == \/ Begin(d) \/ Read(d) \/ View(d) \/ Abandon(d) \/ Resend(d) \/ NewToken(d)
            \/ Progress(d) \/ Leave(d) \/ Spawn(d) \/ Deliver(d) \/ Fail(d) \/ Tell(d)
Compute(c) == Arrive(c) \/ Start(c) \/ Execute(c) \/ Renew(c) \/ Predict(c) \/ Resume(c)
Watch(r) == Look(r) \/ GiveUp(r) \/ Record(r) \/ Send(r)

Next ==
    \/ Clock \/ DriverLapse
    \/ \E d \in Drivers : Drive(d) \/ DriverDies(d)
    \/ \E c \in Containers : Compute(c) \/ ContainerDies(c)
    \/ \E r \in Reconcilers : Watch(r)

Spec == Init /\ [][Next]_vars

\* Time goes on, one or another of the calls that Modal has taken does, and
\* the worker asks for a reconciliation again and again.
Modal == (\E d \in Drivers : Drive(d)) \/ (\E c \in Containers : Compute(c))
FairSpec ==
    /\ Spec /\ WF_vars(Clock \/ DriverLapse) /\ WF_vars(Modal)
    /\ \A r \in Reconcilers : WF_vars(Watch(r))

----------------------------------------------------------------------------
(* The stage is computed by one container at a time: duplicates of a token, *)
(* restarts and newer tokens do not run beside it.                          *)
OneGpuRun == Cardinality({c \in Containers : cpc[c] = "predict"}) <= 1

(* A request that was abandoned at its queue limit does not run, though its *)
(* containers may still arrive.                                             *)
AbandonedNeverRuns ==
    claim.abandoned => \A c \in Containers : c[1] = claim.tok => cpc[c] # "predict"

(* The run ends: delivered, failed or given up.                             *)
RunSettles == <>(told # {})
=============================================================================
