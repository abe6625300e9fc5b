------------------------ MODULE PostVerifyCheckpoint ------------------------
(***************************************************************************)
(* The post-verify chain of one business date and canonical run, task by   *)
(* task (runPostVerifyCallbackChain), behind the receipts that decide      *)
(* whether a task's producer may start (postVerifyTaskCheckpoint.ts).      *)
(*                                                                         *)
(* A delivery of a post_verify_chain message claims the stage under a lease*)
(* owner of its own and walks through the tasks.  A task's producer is a   *)
(* process beside it: it outlives the timeout after which the delivery     *)
(* gives up, and writes through an environment that asserts its authority  *)
(* before each write, which is a statement of its own.                     *)
(*                                                                         *)
(* A checksum covers the claim's UUID, so a claim stands for its receipt's *)
(* checksum; NoClaim is the digest of the identity that starts the chain.  *)
(***************************************************************************)
EXTENDS Naturals, FiniteSets, Sequences, StageRow

CONSTANTS
  Tasks,       \* the chain's tasks, in order
  RetrySafe,   \* POST_VERIFY_RETRY_SAFE_TASKS
  Optional,    \* tasks with critical: false
  Stopping,    \* tasks whose error ends the chain at once
  Run,         \* the canonical run
  MaxTimeouts, \* producers that outlive their delivery; each sends one message
  MaxRetries,  \* deliveries of one message after the first
  MaxClaims,   \* producers started
  MaxWrites,   \* writes of one producer
  MaxRoots,    \* root tickets of the date
  MaxRevisions,\* deployed revisions and trading configurations
  MaxFaults    \* deaths, expiries, failed calls, changed outputs, roots and revisions

Messages == 0 .. MaxTimeouts
Claims   == 1 .. MaxClaims
NoClaim  == 0
Idents   == [root : 1 .. MaxRoots, rev : 1 .. MaxRevisions]
Keys     == [ident : Idents, at : 1 .. Len(Tasks), pred : 0 .. MaxClaims]

ASSUME TasksAssumption ==
  /\ Tasks \in Seq(STRING) /\ Tasks # <<>>
  /\ RetrySafe \subseteq STRING /\ Optional \subseteq STRING /\ Stopping \subseteq STRING
ASSUME RunsAssumption == Run \in Runs
ASSUME OwnersAssumption == Messages \X (0 .. MaxRetries) \subseteq Owners
ASSUME BoundsAssumption ==
  /\ {MaxTimeouts, MaxRetries, MaxClaims, MaxWrites, MaxFaults} \subseteq Nat
  /\ {MaxRoots, MaxRevisions} \subseteq Nat \ {0}

VARIABLES
  stage,     \* the post_verify_chain row
  ident,     \* the latest root ticket, and the deployed revision with its configuration
  receipts,  \* post_verify_task_receipts_v1, without the invalidated copies
  worker,    \* what the delivery of each message is doing
  producer,  \* the producers started so far, by claim
  faults

vars == <<stage, ident, receipts, worker, producer, faults>>

Open == {"running", "uncertain"}
Receipt == [key : Keys, claim : Claims, owner : Owners, state : Open \union {"success", "error"}]

NoWorker == [pc |-> "unsent", try |-> 0, ident |-> [root |-> 1, rev |-> 1], at |-> 1,
             pred |-> NoClaim, seen |-> {}, failed |-> FALSE]
WorkerStates == {"unsent", "queued", "delayed", "resumed", "claimed", "enter", "verifying", "claim", "reclaim",
                 "reclaimed", "watching", "failing", "done", "acked", "gaveUp"}
Worker == [pc : WorkerStates, try : 0 .. MaxRetries, ident : Idents, at : 1 .. Len(Tasks) + 1,
           pred : 0 .. MaxClaims, seen : SUBSET Receipt, failed : BOOLEAN]
ProducerStates == {"unused", "idle", "checked", "settling", "settled", "conflict", "dead"}
Outcomes == {"success", "error", "uncertain"}
NoProducer == [pc |-> "unused", key |-> None, owner |-> None, msg |-> 0, orphan |-> FALSE,
               result |-> None, writes |-> 0]

Producer == [pc : ProducerStates, key : Keys \union {None}, owner : Owners \union {None},
             msg : Messages, orphan : BOOLEAN, result : Outcomes \union {None}, writes : 0 .. MaxWrites]

TypeOK ==
  /\ stage \in Row
  /\ ident \in Idents
  /\ receipts \subseteq Receipt
  /\ worker \in [Messages -> Worker]
  /\ producer \in [Claims -> Producer]
  /\ faults \in 0 .. MaxFaults

Init ==
  /\ stage = QueuedFor(Run)
  /\ ident = [root |-> 1, rev |-> 1]
  /\ receipts = {}
  /\ worker = [m \in Messages |-> IF m = 0 THEN [NoWorker EXCEPT !.pc = "queued"] ELSE NoWorker]
  /\ producer = [c \in Claims |-> NoProducer]
  /\ faults = 0
-----------------------------------------------------------------------------
Fault     == faults < MaxFaults /\ faults' = faults + 1
NoFault   == UNCHANGED faults
Owner(m)  == <<m, worker[m].try>>
Holds(m)  == HeldBy(stage, Run, Owner(m))
Task(k)   == Tasks[k.at]
Key(m)    == [ident |-> worker[m].ident, at |-> worker[m].at, pred |-> worker[m].pred]
At(m, pc) == worker[m].pc = pc
Step(m, changed) == worker' = [worker EXCEPT ![m] = changed]
Goto(m, pc) == Step(m, [worker[m] EXCEPT !.pc = pc])
Throw(m)  == Goto(m, "failing")

RowOf(key) == {r \in receipts : r.key = key}
Put(r)     == receipts' = {s \in receipts : s.key # r.key} \union {r}
OpenRows   == {r \in receipts : r.state \in Open}
Started    == {c \in Claims : producer[c].pc # "unused"}

(* The live stage lease and the latest root ticket, as every statement of   *)
(* the checkpoint asks for them.                                            *)
Authority(owner, id) == HeldBy(stage, Run, owner) /\ id.root = ident.root
-----------------------------------------------------------------------------
(* The queue consumer: enqueue resumes a stage that stopped, claim takes    *)
(* it.  A busy stage of the same run throws, which retries the delivery.    *)
Resume(m) ==
  /\ At(m, "queued")
  /\ stage' = IF ResumeWhere(stage, Run) THEN ResumeSet(stage) ELSE stage
  /\ Goto(m, "resumed")
  /\ NoFault
  /\ UNCHANGED <<ident, receipts, producer>>

Retry_Unlimited(m, pc) ==
  Step(m, [NoWorker EXCEPT !.pc = pc, !.try = worker[m].try + 1])
Retry(m, pc) ==
  Step(m, IF worker[m].try < MaxRetries
          THEN [NoWorker EXCEPT !.pc = pc, !.try = worker[m].try + 1]
          ELSE [worker[m] EXCEPT !.pc = "gaveUp"])

Claim(m) ==
  /\ At(m, "resumed")
  /\ IF ClaimWhere(stage, Run)
     THEN stage' = ClaimSet(stage, Owner(m)) /\ Goto(m, "claimed")
     ELSE /\ IF stage.status = "running" THEN Retry(m, "delayed") ELSE Goto(m, "acked")
          /\ UNCHANGED stage
  /\ NoFault
  /\ UNCHANGED <<ident, receipts, producer>>

(* The delay ends when the lease that was seen has run out, or its holder   *)
(* has renewed it.                                                          *)
Running(m) == worker[m].pc \notin {"unsent", "queued", "delayed", "done", "acked", "gaveUp"}
Alive(owner) == \E m \in Messages : Running(m) /\ owner = Owner(m)
Redeliver(m) ==
  /\ At(m, "delayed")
  /\ LeaseLive(stage) => Alive(stage.owner)
  /\ Goto(m, "queued")
  /\ NoFault
  /\ UNCHANGED <<stage, ident, receipts, producer>>

(* createPostVerifyTaskCheckpoints reads the identity of this attempt.      *)
Create(m) ==
  /\ At(m, "claimed")
  /\ Step(m, [worker[m] EXCEPT !.pc = "enter", !.ident = ident])
  /\ NoFault
  /\ UNCHANGED <<stage, ident, receipts, producer>>
-----------------------------------------------------------------------------
(* The chain after run() returned a result with this checksum: a lost lease *)
(* stops the worker, an error may stop the chain.                           *)
Advance(m, claim, error) ==
  LET task == Tasks[worker[m].at]
      next == [worker[m] EXCEPT !.pc = "enter", !.at = @ + 1, !.pred = claim, !.seen = {},
                                !.failed = @ \/ (error /\ task \notin Optional)]
  IN IF ~Holds(m) THEN Goto(m, "acked")
     ELSE IF error /\ task \in Stopping THEN Throw(m)
     ELSE Step(m, next)

(* run(): the authority, then the receipt under this key.  A settled one is *)
(* a hit unless its task may run again; a success is verified first.        *)
Hit(r) == r.state = "success" \/ (r.state = "error" /\ Task(r.key) \notin RetrySafe)

Enter(m) ==
  /\ At(m, "enter") /\ worker[m].at <= Len(Tasks)
  /\ IF ~Authority(Owner(m), worker[m].ident) THEN Throw(m)
     ELSE IF \E r \in RowOf(Key(m)) : r.state = "success"
          THEN Step(m, [worker[m] EXCEPT !.pc = "verifying", !.seen = RowOf(Key(m))])
     ELSE IF \E r \in RowOf(Key(m)) : Hit(r)
          THEN \E r \in RowOf(Key(m)) : Advance(m, r.claim, TRUE)
     ELSE Goto(m, "claim")
  /\ NoFault
  /\ UNCHANGED <<stage, ident, receipts, producer>>

Verified(m) ==
  /\ At(m, "verifying")
  /\ \E r \in worker[m].seen : Advance(m, r.claim, FALSE)
  /\ NoFault
  /\ UNCHANGED <<stage, ident, receipts, producer>>

(* verifyResult found the output changed: only an idempotent producer may   *)
(* repair it, after its receipt has been set aside.                         *)
Invalidate(m, r) ==
  IF r \in receipts /\ Authority(Owner(m), worker[m].ident)
  THEN Put([r EXCEPT !.state = "error"]) /\ Goto(m, "claim")
  ELSE Throw(m) /\ UNCHANGED receipts

OutputChanged(m) ==
  /\ At(m, "verifying")
  /\ \E r \in worker[m].seen :
       IF Task(r.key) \in RetrySafe THEN Invalidate(m, r)
       ELSE /\ IF Task(r.key) \in Optional THEN Advance(m, r.claim, TRUE) ELSE Throw(m)
            /\ UNCHANGED receipts
  /\ Fault
  /\ UNCHANGED <<stage, ident, producer>>
-----------------------------------------------------------------------------
(* claimOnce, one INSERT ... ON CONFLICT: no unsettled receipt of the date, *)
(* and only the closed error of an idempotent task may be replaced.         *)
Claimable_RunningOnly(m) ==
  /\ Authority(Owner(m), worker[m].ident)
  /\ \A r \in receipts : r.state # "running"
  /\ \A r \in RowOf(Key(m)) : r.state = "error" /\ Task(r.key) \in RetrySafe
Claimable_AnyTask(m) ==
  /\ Authority(Owner(m), worker[m].ident)
  /\ OpenRows = {}
  /\ \A r \in RowOf(Key(m)) : r.state = "error"
Claimable(m) ==
  /\ Authority(Owner(m), worker[m].ident)
  /\ OpenRows = {}
  /\ \A r \in RowOf(Key(m)) : r.state = "error" /\ Task(r.key) \in RetrySafe

ClaimTask(m) ==
  /\ worker[m].pc \in {"claim", "reclaimed"}
  /\ IF Claimable(m)
     THEN \E c \in Claims :
            /\ c \notin Started /\ \A d \in Claims : d < c => d \in Started
            /\ Put([key |-> Key(m), claim |-> c, owner |-> Owner(m), state |-> "running"])
            /\ producer' = [producer EXCEPT ![c] = [NoProducer EXCEPT
                 !.pc = "idle", !.key = Key(m), !.owner = Owner(m), !.msg = m]]
            /\ Step(m, [worker[m] EXCEPT !.pc = "watching"])
     ELSE /\ IF At(m, "reclaimed") THEN Throw(m)
             ELSE Step(m, [worker[m] EXCEPT !.pc = "reclaim",
                                            !.seen = {r \in receipts : r.state = "running"}])
          /\ UNCHANGED <<receipts, producer>>
  /\ NoFault
  /\ UNCHANGED <<stage, ident>>

(* reclaimExpiredLeases: the running receipts it read, closed one by one if *)
(* the lease they were claimed under is gone and their task is idempotent.  *)
Reclaimable(m, r) ==
  /\ r \in receipts /\ r.owner # Owner(m) /\ Task(r.key) \in RetrySafe
  /\ Authority(Owner(m), worker[m].ident) /\ ~HeldBy(stage, Run, r.owner)
Reclaim(m) ==
  /\ At(m, "reclaim")
  /\ \/ \E r \in worker[m].seen :
          Reclaimable(m, r) /\ Put([r EXCEPT !.state = "error"]) /\ Goto(m, "reclaimed")
     \/ ~(\E r \in worker[m].seen : Reclaimable(m, r)) /\ Throw(m) /\ UNCHANGED receipts
  /\ NoFault
  /\ UNCHANGED <<stage, ident, producer>>

(* scripts/postVerifyReceiptReconcile.ts, by an operator: it closes the     *)
(* same receipts while no delivery holds the stage.                         *)
OperatorCloses_LeaseUnchecked(r) ==
  /\ r \in receipts /\ r.state = "running" /\ Task(r.key) \in RetrySafe
  /\ Put([r EXCEPT !.state = "error"])
OperatorCloses(r) ==
  /\ r \in receipts /\ r.state = "running" /\ Task(r.key) \in RetrySafe
  /\ ~LeaseLive(stage)
  /\ Put([r EXCEPT !.state = "error"])
-----------------------------------------------------------------------------
(* A producer: each write of the scoped environment first asserts that the  *)
(* stage lease, the root and its own running receipt are still its own.     *)
MyReceipt(c) == {r \in receipts : r.claim = c /\ r.key = producer[c].key /\ r.state = "running"}
MayWrite(c)  == Authority(producer[c].owner, producer[c].key.ident) /\ MyReceipt(c) # {}
Produce(c, changed) == producer' = [producer EXCEPT ![c] = changed]
Ends(c, pc, result) == [producer[c] EXCEPT !.pc = pc, !.result = result, !.writes = 0]

CheckWrite(c) ==
  /\ producer[c].pc = "idle" /\ producer[c].writes < MaxWrites
  /\ Produce(c, IF MayWrite(c) THEN [producer[c] EXCEPT !.pc = "checked"]
                ELSE Ends(c, "settling", "error"))
  /\ NoFault
  /\ UNCHANGED <<stage, ident, receipts, worker>>

Write(c) ==
  /\ producer[c].pc = "checked"
  /\ Produce(c, [producer[c] EXCEPT !.pc = "idle", !.writes = @ + 1])
  /\ NoFault
  /\ UNCHANGED <<stage, ident, receipts, worker>>

(* The task function returns.  An error that may hide an applied remote     *)
(* effect is uncertain unless the task is idempotent.                       *)
Return(c) ==
  /\ producer[c].pc = "idle"
  /\ \E result \in Outcomes :
       /\ result = "uncertain" => Task(producer[c].key) \notin RetrySafe
       /\ Produce(c, Ends(c, "settling", result))
       /\ IF result = "success" THEN NoFault ELSE Fault
  /\ UNCHANGED <<stage, ident, receipts, worker>>

(* The message that wakes the stage when a producer settles after its       *)
(* delivery timed out.                                                      *)
Wake(c) ==
  IF producer[c].orphan /\ producer[c].key.ident.root = ident.root
  THEN \E m \in Messages :
         /\ At(m, "unsent") /\ \A n \in Messages : n < m => ~At(n, "unsent")
         /\ Goto(m, "queued")
  ELSE UNCHANGED worker
(* persist: the UPDATE is keyed by the claim's own running receipt.         *)
Persist(c, state) ==
  {IF r \in MyReceipt(c) THEN [r EXCEPT !.state = state] ELSE r : r \in receipts}

Settle_WakeForgotten(c) ==
  /\ producer[c].pc = "settling"
  /\ receipts' = Persist(c, producer[c].result)
  /\ Produce(c, IF MyReceipt(c) # {} THEN [producer[c] EXCEPT !.pc = "settled"]
                ELSE Ends(c, "conflict", None))
  /\ NoFault
  /\ UNCHANGED <<stage, ident, worker>>
Settle(c) ==
  /\ producer[c].pc = "settling"
  /\ receipts' = Persist(c, producer[c].result)
  /\ Produce(c, IF MyReceipt(c) # {} THEN [producer[c] EXCEPT !.pc = "settled"]
                ELSE Ends(c, "conflict", None))
  /\ Wake(c)
  /\ NoFault
  /\ UNCHANGED <<stage, ident>>

(* The receipt is written but the call fails, or the result cannot be       *)
(* recorded and the claim is closed as an error.                            *)
SettleFails(c) ==
  /\ producer[c].pc = "settling"
  /\ \E state \in {producer[c].result, "error"} : receipts' = Persist(c, state)
  /\ Produce(c, Ends(c, "conflict", None))
  /\ Wake(c)
  /\ Fault
  /\ UNCHANGED <<stage, ident>>
-----------------------------------------------------------------------------
(* The delivery waits for its producer, or for its timeout.                 *)
Mine(m) == {c \in Claims : producer[c].key = Key(m) /\ producer[c].owner = Owner(m)
                           /\ ~producer[c].orphan}
Watch(m) ==
  /\ At(m, "watching")
  /\ \E c \in Mine(m) :
       /\ \A d \in Mine(m) : d <= c
       /\ \/ producer[c].pc = "settled" /\ Advance(m, c, producer[c].result # "success")
          \/ producer[c].pc = "conflict" /\ Throw(m)
  /\ NoFault
  /\ UNCHANGED <<stage, ident, receipts, producer>>

TimesOut(m) ==
  /\ At(m, "watching")
  /\ Cardinality({c \in Claims : producer[c].orphan}) < MaxTimeouts
  /\ \E c \in Mine(m) :
       /\ producer[c].pc \in {"idle", "checked", "settling"}
       /\ Produce(c, [producer[c] EXCEPT !.orphan = TRUE])
  /\ Throw(m)
  /\ NoFault
  /\ UNCHANGED <<stage, ident, receipts>>

(* The chain's end, and the consumer's catch: a worker that lost its lease  *)
(* stops silently, another marks the stage and lets the queue retry.        *)
Finish(m) ==
  /\ At(m, "enter") /\ worker[m].at > Len(Tasks)
  /\ \/ /\ worker[m].failed
        /\ Throw(m) /\ UNCHANGED stage
     \/ /\ ~worker[m].failed /\ Holds(m)
        /\ \E status \in {"waiting", "success"} :
             stage' = MarkSet(stage, OwnerMark(Run, status, Owner(m), None, None))
        /\ Goto(m, "done")
     \/ /\ ~worker[m].failed /\ ~Holds(m)
        /\ Goto(m, "acked") /\ UNCHANGED stage
  /\ NoFault
  /\ UNCHANGED <<ident, receipts, producer>>

Fail(m) ==
  /\ At(m, "failing")
  /\ IF Holds(m)
     THEN stage' = MarkSet(stage, OwnerMark(Run, "error", Owner(m), None, None)) /\ Retry(m, "queued")
     ELSE Goto(m, "acked") /\ UNCHANGED stage
  /\ NoFault
  /\ UNCHANGED <<ident, receipts, producer>>

Die(m) ==
  /\ Running(m)
  /\ Retry(m, "queued")
  /\ producer' = [c \in Claims |->
       IF producer[c].owner = Owner(m) /\ producer[c].pc \in {"idle", "checked", "settling"}
       THEN Ends(c, "dead", None) ELSE producer[c]]
  /\ Fault
  /\ UNCHANGED <<stage, ident, receipts>>

(* A producer whose delivery is over goes with its isolate.                 *)
Vanish(c) ==
  /\ producer[c].orphan /\ producer[c].pc \in {"idle", "checked", "settling"}
  /\ Produce(c, Ends(c, "dead", None))
  /\ Fault
  /\ UNCHANGED <<stage, ident, receipts, worker>>

(* A lease is renewed while its delivery runs, and runs out after it; a     *)
(* delivery may also stall for longer than its lease.                       *)
LeaseRunsOut ==
  /\ LeaseLive(stage) /\ ~Alive(stage.owner)
  /\ stage' = [stage EXCEPT !.live = FALSE]
  /\ NoFault
  /\ UNCHANGED <<ident, receipts, worker, producer>>
Stall ==
  /\ LeaseLive(stage) /\ Alive(stage.owner)
  /\ stage' = [stage EXCEPT !.live = FALSE]
  /\ Fault
  /\ UNCHANGED <<ident, receipts, worker, producer>>

NewRoot ==
  /\ ident.root < MaxRoots
  /\ ident' = [ident EXCEPT !.root = @ + 1]
  /\ Fault
  /\ UNCHANGED <<stage, receipts, worker, producer>>
NewRevision ==
  /\ ident.rev < MaxRevisions
  /\ ident' = [ident EXCEPT !.rev = @ + 1]
  /\ Fault
  /\ UNCHANGED <<stage, receipts, worker, producer>>
Reconcile ==
  /\ \E r \in receipts : OperatorCloses(r)
  /\ Fault
  /\ UNCHANGED <<stage, ident, worker, producer>>
-----------------------------------------------------------------------------
Deliver(m) ==
  \/ Resume(m) \/ Claim(m) \/ Redeliver(m) \/ Create(m) \/ Enter(m) \/ Verified(m)
  \/ ClaimTask(m) \/ Reclaim(m) \/ Watch(m) \/ Finish(m) \/ Fail(m)
Work(c) == CheckWrite(c) \/ Write(c) \/ Return(c) \/ Settle(c)

Next ==
  \/ \E m \in Messages : Deliver(m) \/ OutputChanged(m) \/ TimesOut(m) \/ Die(m)
  \/ \E c \in Claims : Work(c) \/ SettleFails(c) \/ Vanish(c)
  \/ LeaseRunsOut \/ Stall \/ NewRoot \/ NewRevision \/ Reconcile

Spec == Init /\ [][Next]_vars

(* The queue delivers, deliveries go on, producers settle and a lease that  *)
(* nobody renews runs out.                                                  *)
FairSpec ==
  Spec /\ WF_vars(\/ \E m \in Messages : Deliver(m)
                  \/ \E c \in Claims : Work(c)
                  \/ LeaseRunsOut)
-----------------------------------------------------------------------------
(* However deliveries, time-outs, reclaims and late settlements interleave, *)
(* at most one claim of the date is unsettled: no two producers are both    *)
(* entitled to write.  (claimOnce's NOT EXISTS, reclaimExpiredLeases.)      *)
OneOpenClaim == \A r, s \in OpenRows : r = s

(* A producer that is not idempotent never starts twice after the same      *)
(* predecessor under the same root, revision and configuration, whatever    *)
(* became of it: success, error, uncertain, timeout, death, or output found *)
(* changed later.  (Hit, the ON CONFLICT guard, verifyResult.)              *)
UnsafeOncePerKey ==
  \A c, d \in Started :
    producer[c].key = producer[d].key /\ Task(producer[c].key) \notin RetrySafe => c = d

(* A claim whose stage lease is live is closed by its own producer only,    *)
(* even while an operator reconciles.  (reclaimExpiredLeases,               *)
(* postVerifyReceiptReconcile.ts.)                                          *)
LiveClaimIsLeftAlone ==
  [][\A r \in receipts \ receipts' :
       r.state = "running" /\ HeldBy(stage, Run, r.owner) => producer[r.claim].pc = "settling"]_vars

(* In a chain where nothing else goes wrong, a producer that settles after  *)
(* its delivery timed out gets the chain moving again, though every retry of*)
(* that delivery may have been used up while its claim blocked the date: the*)
(* chain ends, unless an operator is needed, or the message was used up too,*)
(* because another delivery held the stage when it came.  (wake.)           *)
Ended == stage.status \in {"waiting", "success"}
HeldUp ==
  \/ \E r \in receipts : r.state = "error" /\ Task(r.key) \notin RetrySafe \union Optional
  \/ \E r \in OpenRows : r.state = "uncertain" \/ producer[r.claim].pc = "dead"
Missed == \E m \in Messages \ {0} : worker[m].pc \in {"acked", "gaveUp"}
LateSettled(c) == /\ producer[c].orphan /\ producer[c].pc \in {"settled", "conflict"}
                  /\ producer[c].key.ident.root = ident.root
LateSettleResumes == \A c \in Claims : LateSettled(c) ~> (Ended \/ HeldUp \/ Missed \/ faults > 0)
=============================================================================
