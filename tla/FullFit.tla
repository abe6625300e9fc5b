------------------------------ MODULE FullFit ------------------------------
(***************************************************************************)
(* The full-fit training of a sealed out-of-fold cohort: the callers of    *)
(* dispatch_oof_full_fit_training (walk_forward.py), the training lock     *)
(* they take (retrain_lock.py: a storage blob behind a cache in each       *)
(* instance) and the training job itself.  One cohort and one cutoff, so   *)
(* one receipt and one lock key.                                           *)
(*                                                                         *)
(* A call reads the receipt once and works from that copy: every later     *)
(* write of the receipt is unconditional.  Time is a step: Lapse is the    *)
(* end of a lock's TTL.                                                    *)
(***************************************************************************)
EXTENDS Naturals

CONSTANTS Requests,      \* the callers; each calls again and again
          Instances,     \* the processes, each with its own lock cache
          On,            \* On[q]: the instance that serves caller q
          PollOnly,      \* the callers with allow_new_dispatch = False
          MaxRuns,       \* bound: trainings that can be named
          MaxAttempts,   \* the code's 3
          MaxFaults      \* bound: deaths, lost answers and storage errors

ASSUME FullFitAssumption ==
    /\ On \in [Requests -> Instances]
    /\ PollOnly \subseteq Requests
    /\ MaxRuns \in Nat /\ MaxAttempts \in Nat \ {0} /\ MaxFaults \in Nat

VARIABLES
    lock,        \* the blob: the run in its metadata (0: no blob), within its TTL?
    cache,       \* per instance: the run whose lock it remembers, 0 for none
    receipt,     \* the full-fit receipt
    registered,  \* the runs whose models are all in the artifact registry
    noted,       \* the runs whose log row has a terminal status
    job,         \* per run: the training job; "ended" until a poll sees how
    pc, seen,    \* per caller: where it is, and the receipt it has read
    own, saw,    \* per caller: the run it dispatches; the generation it read
    unowned,     \* history: runs under way without the blob, or that lost it
    misread,     \* history: runs under way that a poll has called failed
    faults

lockVars == <<lock, cache>>
durable  == <<receipt, registered, noted>>
callVars == <<pc, seen, own, saw>>
vars     == <<lockVars, durable, job, callVars, unowned, misread, faults>>

Runs     == 1..MaxRuns
Outcomes == {"good", "invalid", "partial", "error", "timeout"}

NoReceipt == [status |-> "none", run |-> 0, attempt |-> 0, terminal |-> FALSE]
Final(rc) == rc.status \in {"completed", "blocked"}

Receipts ==
    {rc \in [status : {"none", "dispatched", "completed", "blocked", "limit"},
             run : 0..MaxRuns, attempt : 0..MaxAttempts, terminal : BOOLEAN] :
        rc.run = 0 <=> rc.attempt = 0}

TypeOK ==
    /\ lock \in [run : 0..MaxRuns, fresh : BOOLEAN]
    /\ cache \in [Instances -> 0..MaxRuns]
    /\ receipt \in Receipts
    /\ registered \subseteq Runs /\ noted \subseteq Runs
    /\ job \in [Runs -> Outcomes \cup {"none", "running", "ended"}]
    /\ pc \in [Requests -> {"idle", "examine", "settle", "repair", "conclude",
                            "acquire", "inspect", "takeover", "spawn", "write"}]
    /\ seen \in [Requests -> Receipts]
    /\ own \in [Requests -> 0..MaxRuns] /\ saw \in [Requests -> 0..MaxRuns]
    /\ unowned \subseteq Runs /\ misread \subseteq Runs
    /\ faults \in 0..MaxFaults

Init ==
    /\ lock = [run |-> 0, fresh |-> FALSE]
    /\ cache = [i \in Instances |-> 0]
    /\ receipt = NoReceipt
    /\ registered = {} /\ noted = {}
    /\ job = [r \in Runs |-> "none"]
    /\ pc = [q \in Requests |-> "idle"]
    /\ seen = [q \in Requests |-> NoReceipt]
    /\ own = [q \in Requests |-> 0] /\ saw = [q \in Requests |-> 0]
    /\ unowned = {} /\ misread = {} /\ faults = 0

Goto(q, l) == pc' = [pc EXCEPT ![q] = l]

\* The call returns (or raises): its locals are gone.
Return(q) ==
    /\ Goto(q, "idle")
    /\ seen' = [seen EXCEPT ![q] = NoReceipt]
    /\ own' = [own EXCEPT ![q] = 0]
    /\ saw' = [saw EXCEPT ![q] = 0]

Fault == faults < MaxFaults /\ faults' = faults + 1

Running == {r \in Runs : job[r] = "running"}

----------------------------------------------------------------------------
(* The call up to its verdict on the run the receipt names.                *)

\* A final receipt is returned as it is, which changes nothing.
Read(q) ==
    /\ pc[q] = "idle" /\ ~Final(receipt)
    /\ seen' = [seen EXCEPT ![q] = receipt]
    /\ Goto(q, IF receipt.run = 0 THEN "acquire" ELSE "examine")
    /\ UNCHANGED <<lockVars, durable, job, own, saw, unowned, misread, faults>>

\* Every model of the run is registered: conclude without asking anybody.
Registered(q) ==
    /\ pc[q] = "examine" /\ seen[q].run \in registered
    /\ Goto(q, "conclude")
    /\ UNCHANGED <<lockVars, durable, job, seen, own, saw, unowned, misread, faults>>

\* The terminal payload the receipt points to, or the log row, is the answer.
AlreadyTerminal(q) ==
    /\ pc[q] = "examine" /\ seen[q].run \notin registered
    /\ seen[q].terminal \/ seen[q].run \in noted
    /\ Goto(q, IF seen[q].terminal THEN "settle" ELSE "repair")
    /\ UNCHANGED <<lockVars, durable, job, seen, own, saw, unowned, misread, faults>>

Asks(q) ==
    /\ pc[q] = "examine" /\ seen[q].run \notin registered \cup noted
    /\ ~seen[q].terminal

\* How a training ended is chosen when the first poll sees it.
Sees(q, o) ==
    /\ job[seen[q].run] \in {"ended", o}
    /\ job' = [job EXCEPT ![seen[q].run] = o]

\* Modal's error for a call it killed at its limit is a TimeoutError, too.
PollPending(q) ==
    /\ Asks(q)
    /\ (job[seen[q].run] = "running" /\ UNCHANGED job) \/ Sees(q, "timeout")
    /\ Return(q)
    /\ UNCHANGED <<lockVars, durable, unowned, misread, faults>>

\* The payload is stored create-once and the receipt is pointed to it.
PollCompleted(q) ==
    /\ Asks(q) /\ \E o \in {"good", "invalid", "partial"} : Sees(q, o)
    /\ seen' = [seen EXCEPT ![q].terminal = TRUE]
    /\ receipt' = seen'[q]
    /\ Goto(q, "settle")
    /\ UNCHANGED <<lockVars, registered, noted, own, saw, unowned, misread, faults>>

\* Any other exception counts as the training's own error, also one of the way
\* to it, whatever the training does meanwhile.
PollFailed(q) ==
    /\ Asks(q)
    /\ \/ Sees(q, "error") /\ UNCHANGED <<misread, faults>>
       \/ /\ Fault /\ UNCHANGED job
          /\ misread' = misread \cup ({seen[q].run} \cap Running)
    /\ Goto(q, "settle")
    /\ UNCHANGED <<lockVars, durable, seen, own, saw, unowned>>

\* release(): the metadata must name the run; no blob counts as released.
\* Only the releasing instance forgets the lock.
Release_Unchecked(i, r) ==
    /\ lock' = [run |-> 0, fresh |-> FALSE]
    /\ cache' = [cache EXCEPT ![i] = 0]

Release(i, r) ==
    \/ /\ lock.run \in {0, r}
       /\ lock' = [run |-> 0, fresh |-> FALSE]
       /\ cache' = [cache EXCEPT ![i] = 0]
    \/ lock.run \notin {0, r} /\ UNCHANGED lockVars

\* The lock is released and the log row gets the terminal status.
Settle(q) ==
    /\ pc[q] = "settle"
    /\ \/ Release(On[q], seen[q].run) /\ UNCHANGED faults
       \/ Fault /\ UNCHANGED lockVars
    /\ noted' = noted \cup {seen[q].run}
    /\ Goto(q, "repair")
    /\ UNCHANGED <<receipt, registered, job, seen, own, saw, unowned, misread>>

\* The verdict on a run whose models are not all registered.  The repair takes
\* the terminal payload (never the log row another caller wrote) and needs every
\* model in it; a repair whose write fails is a failed run like any other.
\* "limit" keeps the run, so the next call comes here again.
Repaired(q) ==
    /\ seen[q].terminal /\ job[seen[q].run] \in {"good", "invalid"}
    /\ registered' = registered \cup {seen[q].run}
    /\ Goto(q, "conclude")
    /\ UNCHANGED <<receipt, seen, own, saw, faults>>

RunFailed_Unlimited(q) ==
    /\ ~(seen[q].terminal /\ job[seen[q].run] \in {"good", "invalid"})
    /\ Goto(q, "acquire")
    /\ UNCHANGED <<receipt, registered, seen, own, saw, faults>>

RunFailed(q) ==
    /\ IF seen[q].terminal /\ job[seen[q].run] \in {"good", "invalid"}
       THEN Fault ELSE UNCHANGED faults
    /\ \/ /\ seen[q].attempt >= MaxAttempts
          /\ receipt' = [seen[q] EXCEPT !.status = "limit"]
          /\ Return(q)
       \/ /\ seen[q].attempt < MaxAttempts /\ q \in PollOnly
          /\ Return(q) /\ UNCHANGED <<receipt>>
       \/ /\ seen[q].attempt < MaxAttempts /\ q \notin PollOnly
          /\ Goto(q, "acquire") /\ UNCHANGED <<receipt, seen, own, saw>>
    /\ UNCHANGED registered

Repair_TrustsLogRow(q) ==
    /\ pc[q] = "repair"
    /\ \/ /\ registered' = registered \cup {seen[q].run}
          /\ Goto(q, "conclude") /\ UNCHANGED <<receipt, seen, own, saw, faults>>
       \/ RunFailed(q)
    /\ UNCHANGED <<lockVars, noted, job, unowned, misread>>

Repair(q) ==
    /\ pc[q] = "repair"
    /\ Repaired(q) \/ RunFailed(q)
    /\ UNCHANGED <<lockVars, noted, job, unowned, misread>>

\* The ensemble is validated on the registered models; either verdict is final.
Conclude(q) ==
    /\ pc[q] = "conclude"
    /\ receipt' = [seen[q] EXCEPT !.status =
                       IF job[seen[q].run] = "invalid" THEN "blocked" ELSE "completed"]
    /\ Return(q)
    /\ UNCHANGED <<lockVars, registered, noted, job, unowned, misread, faults>>

----------------------------------------------------------------------------
(* acquire(): the cache, the create, then the look at what is there.       *)

\* Run ids are random: any that nothing refers to any more.
Unused == {r \in Runs : /\ job[r] = "none" /\ lock.run # r
                        /\ \A i \in Instances : cache[i] # r
                        /\ \A q \in Requests : own[q] # r /\ saw[q] # r}

\* acquired = True, and the instance remembers it; the blob is the caller's
\* only if it was written.
Admit(q, owned) ==
    /\ Unused # {}
    /\ LET r == CHOOSE r \in Unused : TRUE IN
       /\ own' = [own EXCEPT ![q] = r]
       /\ cache' = [cache EXCEPT ![On[q]] = r]
       /\ lock' = IF owned THEN [run |-> r, fresh |-> TRUE] ELSE lock
       /\ unowned' = IF owned THEN unowned \ {r} ELSE unowned \cup {r}
    /\ Goto(q, "spawn")

\* The lock is held: the dispatch is "skipped" and the call returns pending.
SkipOnCache(q) ==
    /\ pc[q] = "acquire" /\ cache[On[q]] # 0
    /\ Return(q)
    /\ UNCHANGED <<lockVars, durable, job, unowned, misread, faults>>

Create(q) ==
    /\ pc[q] = "acquire" /\ cache[On[q]] = 0
    /\ \/ lock.run = 0 /\ Admit(q, TRUE)
       \/ /\ lock.run # 0
          /\ Goto(q, "inspect") /\ UNCHANGED <<lockVars, own, unowned>>
    /\ UNCHANGED <<durable, job, seen, saw, misread, faults>>

\* Storage is unreachable or answers with an unexpected error: fail open.
CreateFails(q) ==
    /\ pc[q] \in {"acquire", "inspect", "takeover"}
    /\ pc[q] = "acquire" => cache[On[q]] = 0
    /\ Fault /\ Admit(q, FALSE)
    /\ UNCHANGED <<durable, job, seen, saw, misread>>

Inspect_Refuses(q) ==
    /\ pc[q] = "inspect"
    /\ \/ lock.run = 0 /\ Admit(q, FALSE) /\ UNCHANGED <<seen, saw>>
       \/ /\ lock.run # 0
          /\ Return(q) /\ UNCHANGED <<lockVars, unowned>>
    /\ UNCHANGED <<durable, job, misread, faults>>

\* A blob that is gone by now raises, and every exception here fails open.
Inspect(q) ==
    /\ pc[q] = "inspect"
    /\ \/ lock.run = 0 /\ Admit(q, FALSE) /\ UNCHANGED <<seen, saw>>
       \/ /\ lock.run # 0 /\ lock.fresh
          /\ Return(q) /\ UNCHANGED <<lockVars, unowned>>
       \/ /\ lock.run # 0 /\ ~lock.fresh
          /\ saw' = [saw EXCEPT ![q] = lock.run]
          /\ Goto(q, "takeover") /\ UNCHANGED <<lockVars, seen, own, unowned>>
    /\ UNCHANGED <<durable, job, misread, faults>>

\* Compare-and-set on the generation read; losing it raises, and fails open.
TakeOver(q) ==
    /\ pc[q] = "takeover"
    /\ Admit(q, lock.run = saw[q])
    /\ UNCHANGED <<durable, job, seen, saw, misread, faults>>

----------------------------------------------------------------------------
(* The dispatch of the training, and the receipt that records it.          *)

Spawn(q) ==
    /\ pc[q] = "spawn"
    /\ job' = [job EXCEPT ![own[q]] = "running"]
    /\ Goto(q, "write")
    /\ UNCHANGED <<lockVars, durable, seen, own, saw, unowned, misread, faults>>

\* Any exception of the dispatch releases the lock and ends the call with an
\* error, whether the job was started or not.
SpawnFails(q) ==
    /\ pc[q] = "spawn" /\ Fault
    /\ Release(On[q], own[q])
    /\ \/ UNCHANGED <<job, unowned>>
       \/ /\ job' = [job EXCEPT ![own[q]] = "running"]
          /\ unowned' = unowned \cup {own[q]}
    /\ Return(q)
    /\ UNCHANGED <<durable, misread>>

WriteReceipt(q) ==
    /\ pc[q] = "write"
    /\ receipt' = [status |-> "dispatched", run |-> own[q],
                   attempt |-> seen[q].attempt + 1, terminal |-> FALSE]
    /\ Return(q)
    /\ UNCHANGED <<lockVars, registered, noted, job, unowned, misread, faults>>

----------------------------------------------------------------------------
(* The job, time and deaths.                                               *)

\* The job ends within its limit of 5 hours: with all the models ("good"), a set
\* the ensemble validation refuses, some models missing, an error, or killed.
Finish(r) ==
    /\ job[r] = "running"
    /\ job' = [job EXCEPT ![r] = "ended"]
    /\ unowned' = unowned \ {r} /\ misread' = misread \ {r}
    /\ UNCHANGED <<lockVars, durable, callVars, faults>>

\* Twelve hours after run r's acquire, for the blob and for the caches alike.
\* A job or a dispatch under way is younger than that.
Lapse(r) ==
    /\ lock = [run |-> r, fresh |-> TRUE] \/ \E i \in Instances : cache[i] = r
    /\ job[r] # "running" /\ \A q \in Requests : pc[q] = "spawn" => own[q] # r
    /\ lock' = IF lock.run = r THEN [lock EXCEPT !.fresh = FALSE] ELSE lock
    /\ cache' = [i \in Instances |-> IF cache[i] = r THEN 0 ELSE cache[i]]
    /\ UNCHANGED <<durable, job, callVars, unowned, misread, faults>>

\* An unhandled exception ends one call; a restart ends the calls of an
\* instance and empties its cache.
Dies(Q) ==
    /\ Fault /\ \E q \in Q : pc[q] # "idle"
    /\ pc' = [q \in Requests |-> IF q \in Q THEN "idle" ELSE pc[q]]
    /\ seen' = [q \in Requests |-> IF q \in Q THEN NoReceipt ELSE seen[q]]
    /\ own' = [q \in Requests |-> IF q \in Q THEN 0 ELSE own[q]]
    /\ saw' = [q \in Requests |-> IF q \in Q THEN 0 ELSE saw[q]]
    /\ UNCHANGED <<lock, durable, job, unowned, misread>>

Abort(q)   == Dies({q}) /\ UNCHANGED cache
Restart(i) == Dies({q \in Requests : On[q] = i}) /\ cache' = [cache EXCEPT ![i] = 0]

----------------------------------------------------------------------------
Call(q) ==
    \/ Read(q) \/ Registered(q) \/ AlreadyTerminal(q)
    \/ PollPending(q) \/ PollCompleted(q) \/ PollFailed(q)
    \/ Settle(q) \/ Repair(q) \/ Conclude(q)
    \/ SkipOnCache(q) \/ Create(q) \/ CreateFails(q) \/ Inspect(q) \/ TakeOver(q)
    \/ Spawn(q) \/ SpawnFails(q) \/ WriteReceipt(q)

Next ==
    \/ \E q \in Requests : Call(q) \/ Abort(q)
    \/ \E r \in Runs : Finish(r) \/ Lapse(r)
    \/ \E i \in Instances : Restart(i)

Spec == Init /\ [][Next]_vars

\* The schedulers call again and again, a call that is not killed goes on, a
\* job ends at its limit and a TTL runs out.
FairSpec ==
    /\ Spec
    /\ \A q \in Requests : WF_vars(Call(q))
    /\ \A r \in Runs : WF_vars(Finish(r)) /\ WF_vars(Lapse(r))

----------------------------------------------------------------------------
(* A training that was admitted with the lock keeps it until it ends, or    *)
(* until a poll of this very training throws: no other caller's release or  *)
(* takeover, working from a receipt it read earlier, removes the blob under *)
(* it.  Two trainings run side by side only where acquire() fails open, a   *)
(* dispatch lost its answer or a poll took its own trouble for a failure.   *)
TrainingKeepsItsLock ==
    \A r \in Running : r \in unowned \cup misread \/ lock.run = r

(* The receipt says completed, or finally blocked, only of the run that     *)
(* delivered every model, whatever copies of older receipts slower callers  *)
(* write in between.                                                        *)
VerdictIsEarned ==
    /\ receipt.status = "completed" => receipt.run \in registered /\ job[receipt.run] = "good"
    /\ receipt.status = "blocked" => receipt.run \in registered /\ job[receipt.run] = "invalid"

(* A training is replaced only when it is over or its poll threw, whoever   *)
(* asked, and only as often as the attempts allow: the call goes by a       *)
(* receipt that may be old, and by a log row another caller wrote.          *)
ReplacementIsDue ==
    \A q \in Requests :
        pc[q] \in {"acquire", "inspect", "takeover", "spawn", "write"} /\ seen[q].run # 0
          => /\ seen[q].run \in misread \/ seen[q].run \notin Running
             /\ seen[q].attempt < MaxAttempts

(* The full fit comes to an end: whatever calls die and whatever polls      *)
(* throw, the receipt is completed, finally blocked, or at its retry limit  *)
(* for good, unless its training was killed at Modal's limit, or the model  *)
(* has no name left for a training that a caller is about to dispatch.      *)
Settled  == Final(receipt) \/ receipt.status = "limit"
Killed   == receipt.run # 0 /\ job[receipt.run] = "timeout"
NoName   == Unused = {} /\ \E q \in Requests : pc[q] \in {"acquire", "inspect", "takeover"}
FullFitSettles == <>[](Settled \/ Killed \/ NoName)

(* "without this branch it read as "running" forever" (modal_client.py:1003, *)
(* of the probe of out-of-fold calls): a call that hit its own Modal timeout *)
(* is to be reported as failed, and so a killed training gets a verdict.     *)
KilledTrainingIsReported ==
    \A r \in Runs : (receipt.run = r /\ job[r] = "timeout") ~> (receipt.run # r \/ Settled)
=============================================================================
