---------------------- MODULE PostVerifyCheckpointProofs ----------------------
(***************************************************************************)
(* The receipts of the post-verify chain, whatever the tasks and their     *)
(* kinds, the number of messages, redeliveries and producers, and however  *)
(* often a delivery stalls, dies, times out or finds its output changed.   *)
(*                                                                         *)
(* What a statement of the checkpoint does to the receipts is put in terms *)
(* of two effects: Put replaces the row of one key, Persist settles the row*)
(* of one claim.  Neither adds an unsettled row beside another, and neither*)
(* removes a key: the key of every producer that ever started stays on     *)
(* record, which is what keeps an unsafe one from starting again.          *)
(***************************************************************************)
EXTENDS PostVerifyCheckpoint, TLAPS

(* Where a delivery is inside a task.                                       *)
InTask == {"verifying", "claim", "reclaim", "reclaimed", "watching"}

(* A delivery inside a task has one, and verifies the output of successes.  *)
GoodWorker(w) ==
  /\ w \in Worker
  /\ w.pc \in InTask => w.at <= Len(Tasks)
  /\ w.pc = "verifying" => \A r \in w.seen : r.state = "success"
WorkersOK == worker \in [Messages -> Worker] /\ \A m \in Messages : GoodWorker(worker[m])

(* A producer that was started has a key, one that settles has a result,    *)
(* and one that has passed its check may still write.                       *)
GoodProducer(p) ==
  /\ p \in Producer
  /\ p.pc # "unused" => p.key \in Keys
  /\ p.pc = "settling" => p.result \in Outcomes
  /\ p.pc = "checked" => p.writes < MaxWrites
ProducersOK == producer \in [Claims -> Producer] /\ \A c \in Claims : GoodProducer(producer[c])

OneRowPerKey == \A r, s \in receipts : r.key = s.key => r = s
ReceiptsOK   == receipts \subseteq Receipt /\ OneRowPerKey /\ OneOpenClaim
StagesOK     == stage \in Row /\ ident \in Idents /\ faults \in 0 .. MaxFaults

(* The receipt of a key that a producer was started under is never removed. *)
StartIsRecorded == \A c \in Started : \E r \in receipts : r.key = producer[c].key

IInv == /\ StagesOK /\ WorkersOK /\ ProducersOK /\ ReceiptsOK
        /\ StartIsRecorded /\ UnsafeOncePerKey
-----------------------------------------------------------------------------
LEMMA Bounds ==
  /\ Len(Tasks) \in Nat \ {0}
  /\ MaxTimeouts \in Nat /\ MaxRetries \in Nat /\ MaxClaims \in Nat /\ MaxWrites \in Nat
  /\ MaxFaults \in Nat /\ MaxRoots \in Nat \ {0} /\ MaxRevisions \in Nat \ {0}
BY TasksAssumption, BoundsAssumption

LEMMA FirstIdentity == [root |-> 1, rev |-> 1] \in Idents
BY Bounds DEF Idents

LEMMA NoWorkerIsWorker == NoWorker \in Worker /\ NoWorker.pc = "unsent"
<1> DEFINE first == [root |-> 1, rev |-> 1]
<1>1. {} \in SUBSET Receipt /\ 1 \in 1 .. Len(Tasks) + 1 /\ NoClaim \in 0 .. MaxClaims
        /\ FALSE \in BOOLEAN /\ 0 \in 0 .. MaxRetries /\ "unsent" \in WorkerStates
  BY Bounds DEF NoClaim, WorkerStates
<1>2. first \in Idents
  BY FirstIdentity
<1>3. NoWorker = [pc |-> "unsent", try |-> 0, ident |-> first, at |-> 1, pred |-> NoClaim,
                  seen |-> {}, failed |-> FALSE]
  BY DEF NoWorker
<1> HIDE DEF first
<1> QED
  BY <1>1, <1>2, <1>3 DEF Worker

LEMMA FreshWorker ==
  ASSUME NEW pc \in WorkerStates \ InTask, NEW try \in 0 .. MaxRetries
  PROVE  GoodWorker([NoWorker EXCEPT !.pc = pc, !.try = try])
<1> DEFINE w == [NoWorker EXCEPT !.pc = pc, !.try = try]
<1>1. w \in Worker /\ w.pc = pc
  BY NoWorkerIsWorker DEF Worker
<1>2. "verifying" \in InTask
  BY DEF InTask
<1>3. GoodWorker(w)
  <2> HIDE DEF w
  <2> QED
    BY <1>1, <1>2 DEF GoodWorker
<1> QED
  BY <1>3

LEMMA OwnersAreOwners ==
  ASSUME WorkersOK, NEW m \in Messages
  PROVE  /\ Owner(m) \in Owners
         /\ worker[m] \in Worker /\ GoodWorker(worker[m])
         /\ worker[m].at <= Len(Tasks) => Key(m) \in Keys
<1>1. worker[m] \in Worker /\ GoodWorker(worker[m])
  BY DEF WorkersOK
<1>2. worker[m].try \in 0 .. MaxRetries
  BY <1>1 DEF Worker
<1>3. Owner(m) \in Owners
  BY <1>2, OwnersAssumption DEF Owner
<1>4. worker[m].at <= Len(Tasks) => Key(m) \in Keys
  BY <1>1, Bounds DEF Worker, Key, Keys
<1> QED
  BY <1>1, <1>3, <1>4
-----------------------------------------------------------------------------
(* What a delivery does to its own record.                                  *)
LEMMA StepKeepsWorkers ==
  ASSUME WorkersOK, NEW m \in Messages, NEW w, GoodWorker(w), Step(m, w)
  PROVE  WorkersOK'
BY DEF WorkersOK, Step, GoodWorker

LEMMA GotoKeepsWorkers ==
  ASSUME WorkersOK, NEW m \in Messages, NEW pc \in WorkerStates, pc # "verifying",
         pc \in InTask => worker[m].at <= Len(Tasks), Goto(m, pc)
  PROVE  WorkersOK'
<1> DEFINE w == [worker[m] EXCEPT !.pc = pc]
<1>1. worker[m] \in Worker
  BY DEF WorkersOK
<1>2. w \in Worker /\ w.pc = pc /\ w.at = worker[m].at
  BY <1>1 DEF Worker
<1>3. Step(m, w)
  BY DEF Goto
<1>4. GoodWorker(w)
  BY <1>2 DEF GoodWorker
<1> QED
  BY <1>3, <1>4, StepKeepsWorkers

LEMMA ThrowKeepsWorkers ==
  ASSUME WorkersOK, NEW m \in Messages, Throw(m)
  PROVE  WorkersOK'
<1>1. "failing" \in WorkerStates /\ "failing" # "verifying" /\ "failing" \notin InTask
  BY DEF WorkerStates, InTask
<1> QED
  BY <1>1, GotoKeepsWorkers DEF Throw

LEMMA RetryKeepsWorkers ==
  ASSUME WorkersOK, NEW m \in Messages, NEW pc \in {"queued", "delayed"}, Retry(m, pc)
  PROVE  WorkersOK'
<1> DEFINE gone == [worker[m] EXCEPT !.pc = "gaveUp"]
           again == [NoWorker EXCEPT !.pc = pc, !.try = worker[m].try + 1]
<1>1. worker[m] \in Worker /\ worker[m].try \in 0 .. MaxRetries
  BY DEF WorkersOK, Worker
<1>2. pc \in WorkerStates \ InTask /\ "gaveUp" \in WorkerStates \ InTask /\ "verifying" \in InTask
  BY DEF WorkerStates, InTask
<1>3. CASE worker[m].try < MaxRetries
  <2>1. worker[m].try + 1 \in 0 .. MaxRetries
    BY <1>1, <1>3, Bounds
  <2>2. GoodWorker(again)
    BY <1>2, <2>1, FreshWorker
  <2> QED
    BY <1>3, <2>2, StepKeepsWorkers DEF Retry
<1>4. CASE ~(worker[m].try < MaxRetries)
  <2>1. gone \in Worker /\ gone.pc = "gaveUp"
    BY <1>1, <1>2 DEF Worker
  <2>2. GoodWorker(gone)
    BY <1>2, <2>1 DEF GoodWorker
  <2> QED
    BY <1>4, <2>2, StepKeepsWorkers DEF Retry
<1> QED
  BY <1>3, <1>4

(* The next task: its predecessor is the claim whose result was taken.      *)
LEMMA AdvanceKeepsWorkers ==
  ASSUME WorkersOK, NEW m \in Messages, worker[m].at <= Len(Tasks),
         NEW claim \in Claims, NEW error \in BOOLEAN, Advance(m, claim, error)
  PROVE  WorkersOK'
<1> DEFINE failed == worker[m].failed \/ (error /\ Tasks[worker[m].at] \notin Optional)
           next == [worker[m] EXCEPT !.pc = "enter", !.at = @ + 1, !.pred = claim, !.seen = {},
                                     !.failed = failed]
<1>1. worker[m] \in Worker
  BY DEF WorkersOK
<1>2. worker[m].at + 1 \in 1 .. Len(Tasks) + 1 /\ claim \in 0 .. MaxClaims /\ {} \in SUBSET Receipt
  BY <1>1, Bounds DEF Worker, Claims
<1>3. failed \in BOOLEAN
  OBVIOUS
<1>4. "enter" \in WorkerStates \ InTask /\ "verifying" \in InTask /\ "acked" \in WorkerStates \ InTask
  BY DEF WorkerStates, InTask
<1>5. GoodWorker(next)
  <2> HIDE DEF failed
  <2>1. next \in Worker /\ next.pc = "enter"
    BY <1>1, <1>2, <1>3, <1>4 DEF Worker
  <2> HIDE DEF next
  <2> QED
    BY <2>1, <1>4 DEF GoodWorker
<1>6. Goto(m, "acked") \/ Throw(m) \/ Step(m, next)
  BY DEF Advance
<1>7. CASE Goto(m, "acked")
  BY <1>4, <1>7, GotoKeepsWorkers
<1>8. CASE Throw(m)
  BY <1>8, ThrowKeepsWorkers
<1>9. CASE Step(m, next)
  BY <1>5, <1>9, StepKeepsWorkers
<1> QED
  BY <1>6, <1>7, <1>8, <1>9
-----------------------------------------------------------------------------
(* What a producer does to its own record.                                  *)
SameStarts ==
  \A c \in Claims : /\ producer'[c].pc = "unused" <=> producer[c].pc = "unused"
                    /\ producer'[c].key = producer[c].key

LEMMA ProduceKeepsProducers ==
  ASSUME ProducersOK, NEW c \in Claims, NEW p, GoodProducer(p), Produce(c, p),
         producer[c].pc # "unused", p.pc # "unused", p.key = producer[c].key
  PROVE  ProducersOK' /\ SameStarts
BY DEF ProducersOK, Produce, GoodProducer, SameStarts

LEMMA EndsIsGood ==
  ASSUME ProducersOK, NEW c \in Claims, producer[c].pc # "unused",
         NEW pc \in ProducerStates, NEW result \in Outcomes \union {None},
         pc = "settling" => result \in Outcomes, pc \notin {"unused", "checked"}
  PROVE  /\ GoodProducer(Ends(c, pc, result))
         /\ Ends(c, pc, result).pc = pc
         /\ Ends(c, pc, result).key = producer[c].key
<1> DEFINE p == Ends(c, pc, result)
<1>1. producer[c] \in Producer /\ producer[c].key \in Keys
  BY DEF ProducersOK, GoodProducer
<1>2. 0 \in 0 .. MaxWrites
  BY Bounds
<1>3. p \in Producer /\ p.pc = pc /\ p.key = producer[c].key /\ p.result = result
  BY <1>1, <1>2 DEF Producer, Ends
<1> QED
  BY <1>1, <1>3 DEF GoodProducer

LEMMA EndsKeepsProducers ==
  ASSUME ProducersOK, NEW c \in Claims, producer[c].pc # "unused",
         NEW pc \in ProducerStates, NEW result \in Outcomes \union {None},
         pc = "settling" => result \in Outcomes, pc \notin {"unused", "checked"},
         Produce(c, Ends(c, pc, result))
  PROVE  ProducersOK' /\ SameStarts
<1> DEFINE p == Ends(c, pc, result)
<1>1. GoodProducer(p) /\ p.pc = pc /\ p.key = producer[c].key
  BY EndsIsGood
<1> QED
  BY <1>1, ProduceKeepsProducers
-----------------------------------------------------------------------------
(* What a statement does to the receipts: no key leaves the record, and a   *)
(* claim whose lease is live is settled by its own producer only.           *)
KeysStay == \A r \in receipts : \E s \in receipts' : s.key = r.key
LeftAlone ==
  \A r \in receipts \ receipts' :
    r.state = "running" /\ HeldBy(stage, Run, r.owner) => producer[r.claim].pc = "settling"
Recorded == ReceiptsOK' /\ KeysStay /\ LeftAlone

LEMMA SameReceiptsRecorded ==
  ASSUME ReceiptsOK, UNCHANGED receipts
  PROVE  Recorded
BY DEF Recorded, ReceiptsOK, OneRowPerKey, OneOpenClaim, OpenRows, KeysStay, LeftAlone

LEMMA PutRecords ==
  ASSUME ReceiptsOK, NEW r \in Receipt, Put(r),
         r.state \in Open => \A s \in OpenRows : s.key = r.key,
         \A s \in receipts : s.key = r.key /\ s.state = "running" => ~HeldBy(stage, Run, s.owner)
  PROVE  Recorded
<1>1. receipts' = {s \in receipts : s.key # r.key} \union {r}
  BY DEF Put
<1>2. receipts' \subseteq Receipt /\ OneRowPerKey' /\ KeysStay
  BY <1>1 DEF ReceiptsOK, OneRowPerKey, KeysStay
<1>3. OneOpenClaim'
  <2>1. \A s \in OpenRows' : s = r \/ (s \in OpenRows /\ s.key # r.key)
    BY <1>1 DEF OpenRows
  <2>2. \A s, t \in OpenRows : s = t
    BY DEF ReceiptsOK, OneOpenClaim
  <2>3. \A s \in OpenRows' : s = r => r.state \in Open
    BY DEF OpenRows
  <2> QED
    BY <2>1, <2>2, <2>3 DEF OneOpenClaim
<1>4. LeftAlone
  BY <1>1 DEF LeftAlone
<1> QED
  BY <1>2, <1>3, <1>4 DEF Recorded, ReceiptsOK

(* Setting aside the row of a receipt that is not running under its lease.  *)
LEMMA CloseRecords ==
  ASSUME ReceiptsOK, NEW r \in receipts, Put([r EXCEPT !.state = "error"]),
         r.state = "running" => ~HeldBy(stage, Run, r.owner)
  PROVE  Recorded
<1> DEFINE closed == [r EXCEPT !.state = "error"]
<1>1. r \in Receipt
  BY DEF ReceiptsOK
<1>2. closed \in Receipt /\ closed.key = r.key /\ closed.state = "error"
  BY <1>1 DEF Receipt
<1>3. "error" \notin Open
  BY DEF Open
<1>4. \A s \in receipts : s.key = r.key => s = r
  BY DEF ReceiptsOK, OneRowPerKey
<1>5. Put(closed)
  OBVIOUS
<1> HIDE DEF closed
<1> QED
  BY <1>2, <1>3, <1>4, <1>5, PutRecords

LEMMA PersistRecords ==
  ASSUME ReceiptsOK, NEW c \in Claims, producer[c].pc = "settling",
         NEW state \in Outcomes, receipts' = Persist(c, state)
  PROVE  Recorded
<1> DEFINE New(r) == IF r \in MyReceipt(c) THEN [r EXCEPT !.state = state] ELSE r
<1>1. receipts' = {New(r) : r \in receipts}
  BY DEF Persist
<1>2. \A r \in receipts :
        /\ New(r) \in Receipt /\ New(r).key = r.key
        /\ New(r).state \in Open => r.state \in Open
        /\ r \notin MyReceipt(c) => New(r) = r
  <2> SUFFICES ASSUME NEW r \in receipts
               PROVE  /\ New(r) \in Receipt /\ New(r).key = r.key
                      /\ New(r).state \in Open => r.state \in Open
                      /\ r \notin MyReceipt(c) => New(r) = r
    OBVIOUS
  <2>1. r \in Receipt
    BY DEF ReceiptsOK
  <2>2. CASE r \in MyReceipt(c)
    <3> DEFINE settled == [r EXCEPT !.state = state]
    <3>1. state \in Open \union {"success", "error"}
      BY DEF Outcomes, Open
    <3>2. settled \in Receipt /\ settled.key = r.key
      BY <2>1, <3>1 DEF Receipt
    <3>3. r.state = "running" /\ "running" \in Open
      BY <2>2 DEF MyReceipt, Open
    <3>4. New(r) = settled
      BY <2>2
    <3> HIDE DEF settled, New
    <3> QED
      BY <2>2, <3>2, <3>3, <3>4
  <2>3. CASE r \notin MyReceipt(c)
    BY <2>1, <2>3
  <2> QED
    BY <2>2, <2>3
<1> HIDE DEF New
<1>3. receipts' \subseteq Receipt /\ KeysStay
  BY <1>1, <1>2 DEF KeysStay
<1>4. OneRowPerKey'
  <2> SUFFICES ASSUME NEW r \in receipts, NEW s \in receipts, New(r).key = New(s).key
               PROVE  New(r) = New(s)
    BY <1>1 DEF OneRowPerKey
  <2>1. r.key = s.key
    BY <1>2
  <2> QED
    BY <2>1 DEF ReceiptsOK, OneRowPerKey
<1>5. OneOpenClaim'
  <2> SUFFICES ASSUME NEW r \in receipts, NEW s \in receipts,
                      New(r).state \in Open, New(s).state \in Open
               PROVE  New(r) = New(s)
    BY <1>1 DEF OneOpenClaim, OpenRows
  <2>1. r \in OpenRows /\ s \in OpenRows
    BY <1>2 DEF OpenRows
  <2> QED
    BY <2>1 DEF ReceiptsOK, OneOpenClaim
<1>6. LeftAlone
  <2> SUFFICES ASSUME NEW r \in receipts, r \notin receipts'
               PROVE  producer[r.claim].pc = "settling"
    BY DEF LeftAlone
  <2>1. r \in MyReceipt(c)
    BY <1>1, <1>2
  <2> QED
    BY <2>1 DEF MyReceipt
<1> QED
  BY <1>3, <1>4, <1>5, <1>6 DEF Recorded, ReceiptsOK

(* Steps that start no producer keep what is said of those that started.    *)
LEMMA SameStartsKeepRecord ==
  ASSUME StartIsRecorded, UnsafeOncePerKey, KeysStay, SameStarts
  PROVE  StartIsRecorded' /\ UnsafeOncePerKey'
<1>1. Started' = Started /\ \A c \in Started : producer'[c].key = producer[c].key
  BY DEF Started, SameStarts
<1>2. StartIsRecorded'
  <2> SUFFICES ASSUME NEW c \in Started
               PROVE  \E s \in receipts' : s.key = producer[c].key
    BY <1>1 DEF StartIsRecorded
  <2>1. PICK r \in receipts : r.key = producer[c].key
    BY DEF StartIsRecorded
  <2>2. PICK s \in receipts' : s.key = r.key
    BY DEF KeysStay
  <2> QED
    BY <2>1, <2>2
<1>3. UnsafeOncePerKey'
  BY <1>1 DEF UnsafeOncePerKey, Task
<1> QED
  BY <1>2, <1>3
-----------------------------------------------------------------------------
(* The stage row.                                                           *)
LEMMA QueuedIsRow == QueuedFor(Run) \in Row
<1>1. Run \in Runs
  BY RunsAssumption
<1> QED
  BY <1>1 DEF QueuedFor, Absent, Row, Statuses

LEMMA ResumedIsRow == ASSUME stage \in Row PROVE ResumeSet(stage) \in Row
BY DEF ResumeSet, Released, Row, Statuses

LEMMA ClaimedIsRow ==
  ASSUME stage \in Row, NEW o \in Owners
  PROVE  ClaimSet(stage, o) \in Row
BY DEF ClaimSet, Row, Statuses, Holders

LEMMA MarkedIsRow ==
  ASSUME stage \in Row, NEW status \in Statuses, NEW o
  PROVE  MarkSet(stage, OwnerMark(Run, status, o, None, None)) \in Row
<1> DEFINE m == OwnerMark(Run, status, o, None, None)
<1>1. m.status = status /\ m.next = None
  BY DEF OwnerMark, Mark
<1>2. Released(stage, status) \in Row
  BY DEF Released, Row
<1>3. stage.cursor \in Cursors \union {None}
  BY DEF Row
<1> HIDE DEF m
<1>4. MarkSet(stage, m) \in Row
  BY <1>1, <1>2, <1>3 DEF MarkSet, Row
<1> QED
  BY <1>4 DEF m

LEMMA RunOutIsRow == ASSUME stage \in Row PROVE [stage EXCEPT !.live = FALSE] \in Row
BY DEF Row
-----------------------------------------------------------------------------
(* A step that starts no producer, and the step that starts one.            *)
Quiet == StagesOK' /\ WorkersOK' /\ ProducersOK' /\ Recorded /\ SameStarts

LEMMA QuietKeeps ==
  ASSUME IInv, Quiet
  PROVE  IInv' /\ LeftAlone
BY SameStartsKeepRecord DEF IInv, Quiet, Recorded

LEMMA FaultsStay == ASSUME StagesOK, Fault \/ NoFault PROVE (faults \in 0 .. MaxFaults)'
BY Bounds DEF StagesOK, Fault, NoFault

LEMMA SameProducers ==
  ASSUME ProducersOK, UNCHANGED producer
  PROVE  ProducersOK' /\ SameStarts
BY DEF ProducersOK, SameStarts

LEMMA SameWorkers == ASSUME WorkersOK, UNCHANGED worker PROVE WorkersOK'
BY DEF WorkersOK

(* The queue consumer.                                                      *)
LEMMA DeliveryKeeps ==
  ASSUME IInv, NEW m \in Messages, Resume(m) \/ Claim(m) \/ Redeliver(m) \/ Create(m)
  PROVE  Quiet
<1>1. /\ UNCHANGED <<ident, receipts, producer>>
      /\ NoFault
  BY DEF Resume, Claim, Redeliver, Create
<1>2. Recorded /\ ProducersOK' /\ SameStarts /\ (faults \in 0 .. MaxFaults)' /\ (ident \in Idents)'
  BY <1>1, SameReceiptsRecorded, SameProducers, FaultsStay DEF IInv, StagesOK
<1>3. WorkersOK /\ stage \in Row /\ ident \in Idents
  BY DEF IInv, StagesOK
<1>4. {"resumed", "claimed", "acked", "queued", "enter"} \subseteq WorkerStates
        /\ {"resumed", "claimed", "acked", "queued", "enter", "verifying"} \intersect InTask = {"verifying"}
  BY DEF WorkerStates, InTask
<1>5. WorkersOK' /\ (stage \in Row)'
  <2>1. CASE Resume(m)
    BY <1>3, <1>4, <2>1, GotoKeepsWorkers, ResumedIsRow DEF Resume
  <2>2. CASE Claim(m)
    <3>1. CASE stage' = ClaimSet(stage, Owner(m)) /\ Goto(m, "claimed")
      BY <1>3, <1>4, <3>1, GotoKeepsWorkers, OwnersAreOwners, ClaimedIsRow
    <3>2. CASE Retry(m, "delayed") /\ UNCHANGED stage
      BY <1>3, <3>2, RetryKeepsWorkers
    <3>3. CASE Goto(m, "acked") /\ UNCHANGED stage
      BY <1>3, <1>4, <3>3, GotoKeepsWorkers
    <3> QED
      BY <2>2, <3>1, <3>2, <3>3 DEF Claim
  <2>3. CASE Redeliver(m)
    BY <1>3, <1>4, <2>3, GotoKeepsWorkers DEF Redeliver
  <2>4. CASE Create(m)
    <3> DEFINE w == [worker[m] EXCEPT !.pc = "enter", !.ident = ident]
    <3>1. worker[m] \in Worker
      BY <1>3, OwnersAreOwners
    <3>2. w \in Worker /\ w.pc = "enter"
      BY <1>3, <1>4, <3>1 DEF Worker
    <3>3. Step(m, w) /\ UNCHANGED stage
      BY <2>4 DEF Create
    <3> HIDE DEF w
    <3>4. GoodWorker(w)
      BY <1>4, <3>2 DEF GoodWorker
    <3> QED
      BY <1>3, <3>3, <3>4, StepKeepsWorkers
  <2> QED
    BY <2>1, <2>2, <2>3, <2>4
<1> QED
  BY <1>2, <1>5 DEF Quiet, StagesOK

(* Entering a task, and the result of one that is taken over or watched.    *)
LEMMA EnterKeeps ==
  ASSUME IInv, NEW m \in Messages, Enter(m)
  PROVE  Quiet
<1>1. UNCHANGED <<stage, ident, receipts, producer>> /\ NoFault
  BY DEF Enter
<1>2. Recorded /\ ProducersOK' /\ SameStarts /\ StagesOK'
  BY <1>1, SameReceiptsRecorded, SameProducers, FaultsStay DEF IInv, StagesOK
<1>3. WorkersOK /\ ReceiptsOK /\ worker[m].at <= Len(Tasks)
  BY DEF IInv, Enter
<1>4. CASE Throw(m)
  BY <1>2, <1>3, <1>4, ThrowKeepsWorkers DEF Quiet
<1>5. CASE /\ \E r \in RowOf(Key(m)) : r.state = "success"
           /\ Step(m, [worker[m] EXCEPT !.pc = "verifying", !.seen = RowOf(Key(m))])
  <2> DEFINE rows == RowOf(Key(m))
             w == [worker[m] EXCEPT !.pc = "verifying", !.seen = rows]
  <2>1. worker[m] \in Worker
    BY <1>3, OwnersAreOwners
  <2>2. rows \in SUBSET Receipt /\ \A r \in rows : r.state = "success"
    BY <1>3, <1>5 DEF ReceiptsOK, OneRowPerKey, RowOf
  <2>3. "verifying" \in WorkerStates
    BY DEF WorkerStates
  <2>4. GoodWorker(w)
    <3> HIDE DEF rows
    <3>1. w \in Worker /\ w.seen = rows /\ w.at = worker[m].at
      BY <2>1, <2>2, <2>3 DEF Worker
    <3> HIDE DEF w
    <3> QED
      BY <1>3, <2>2, <3>1 DEF GoodWorker
  <2> QED
    BY <1>2, <1>3, <1>5, <2>4, StepKeepsWorkers DEF Quiet
<1>6. CASE \E r \in RowOf(Key(m)) : Advance(m, r.claim, TRUE)
  <2>1. PICK r \in RowOf(Key(m)) : Advance(m, r.claim, TRUE)
    BY <1>6
  <2>2. r.claim \in Claims
    BY <1>3 DEF ReceiptsOK, RowOf, Receipt
  <2> QED
    BY <1>2, <1>3, <2>1, <2>2, AdvanceKeepsWorkers DEF Quiet
<1>7. CASE Goto(m, "claim")
  <2>1. "claim" \in WorkerStates /\ "claim" # "verifying"
    BY DEF WorkerStates
  <2> QED
    BY <1>2, <1>3, <1>7, <2>1, GotoKeepsWorkers DEF Quiet
<1> QED
  BY <1>4, <1>5, <1>6, <1>7 DEF Enter

LEMMA VerifyingFacts ==
  ASSUME IInv, NEW m \in Messages, At(m, "verifying")
  PROVE  /\ worker[m].at <= Len(Tasks)
         /\ \A r \in worker[m].seen : r \in Receipt /\ r.claim \in Claims /\ r.state = "success"
<1>1. GoodWorker(worker[m]) /\ worker[m].pc = "verifying" /\ "verifying" \in InTask
  BY DEF IInv, WorkersOK, At, InTask
<1>2. \A r \in Receipt : r.claim \in Claims
  BY DEF Receipt
<1>3. worker[m].seen \subseteq Receipt
  BY <1>1 DEF GoodWorker, Worker
<1> QED
  BY <1>1, <1>2, <1>3 DEF GoodWorker

LEMMA VerifiedKeeps ==
  ASSUME IInv, NEW m \in Messages, Verified(m)
  PROVE  Quiet
<1>1. UNCHANGED <<stage, ident, receipts, producer>> /\ NoFault
  BY DEF Verified
<1>2. Recorded /\ ProducersOK' /\ SameStarts /\ StagesOK'
  BY <1>1, SameReceiptsRecorded, SameProducers, FaultsStay DEF IInv, StagesOK
<1>3. PICK r \in worker[m].seen : Advance(m, r.claim, FALSE)
  BY DEF Verified
<1>4. worker[m].at <= Len(Tasks) /\ r.claim \in Claims
  BY VerifyingFacts DEF Verified
<1>5. WorkersOK
  BY DEF IInv
<1> QED
  BY <1>2, <1>3, <1>4, <1>5, AdvanceKeepsWorkers DEF Quiet

LEMMA OutputChangedKeeps ==
  ASSUME IInv, NEW m \in Messages, OutputChanged(m)
  PROVE  Quiet
<1>1. UNCHANGED <<stage, ident, producer>> /\ Fault
  BY DEF OutputChanged
<1>2. ProducersOK' /\ SameStarts /\ StagesOK'
  BY <1>1, SameProducers, FaultsStay DEF IInv, StagesOK
<1>3. PICK r \in worker[m].seen :
        \/ Invalidate(m, r)
        \/ (Advance(m, r.claim, TRUE) \/ Throw(m)) /\ UNCHANGED receipts
  BY DEF OutputChanged
<1>4. worker[m].at <= Len(Tasks) /\ r \in Receipt /\ r.claim \in Claims /\ r.state = "success"
  BY VerifyingFacts DEF OutputChanged
<1>5. WorkersOK /\ ReceiptsOK
  BY DEF IInv
<1>6. CASE r \in receipts /\ Put([r EXCEPT !.state = "error"]) /\ Goto(m, "claim")
  <2>1. Recorded
    BY <1>4, <1>5, <1>6, CloseRecords
  <2>2. "claim" \in WorkerStates /\ "claim" # "verifying"
    BY DEF WorkerStates
  <2>3. WorkersOK'
    BY <1>4, <1>5, <1>6, <2>2, GotoKeepsWorkers
  <2> QED
    BY <1>2, <2>1, <2>3 DEF Quiet
<1>7. CASE Throw(m) /\ UNCHANGED receipts
  BY <1>2, <1>5, <1>7, SameReceiptsRecorded, ThrowKeepsWorkers DEF Quiet
<1>8. CASE Advance(m, r.claim, TRUE) /\ UNCHANGED receipts
  BY <1>2, <1>4, <1>5, <1>8, SameReceiptsRecorded, AdvanceKeepsWorkers DEF Quiet
<1> QED
  BY <1>3, <1>6, <1>7, <1>8 DEF Invalidate
-----------------------------------------------------------------------------
(* claimOnce.  No receipt is open, and the key of an unsafe task has none.  *)
Claimed(m, c) ==
  /\ c \notin Started /\ Claimable(m)
  /\ Put([key |-> Key(m), claim |-> c, owner |-> Owner(m), state |-> "running"])
  /\ producer' = [producer EXCEPT ![c] = [NoProducer EXCEPT
       !.pc = "idle", !.key = Key(m), !.owner = Owner(m), !.msg = m]]
  /\ Step(m, [worker[m] EXCEPT !.pc = "watching"])

LEMMA ClaimedKeeps ==
  ASSUME IInv, NEW m \in Messages, NEW c \in Claims, Claimed(m, c), worker[m].at <= Len(Tasks),
         StagesOK'
  PROVE  IInv' /\ LeftAlone
<1> DEFINE r == [key |-> Key(m), claim |-> c, owner |-> Owner(m), state |-> "running"]
           p == [NoProducer EXCEPT !.pc = "idle", !.key = Key(m), !.owner = Owner(m), !.msg = m]
<1>1. WorkersOK /\ ProducersOK /\ ReceiptsOK
  BY DEF IInv
<1>2. Owner(m) \in Owners /\ Key(m) \in Keys /\ worker[m] \in Worker
  BY <1>1, OwnersAreOwners
<1>3. Recorded
  <2>1. "running" \in Open
    BY DEF Open
  <2>2. r \in Receipt /\ r.key = Key(m)
    BY <1>2, <2>1 DEF Receipt
  <2>3. \A s \in receipts : s.state # "running"
    BY <2>1 DEF Claimed, Claimable, OpenRows
  <2>4. OpenRows = {} /\ Put(r)
    BY DEF Claimed, Claimable
  <2> HIDE DEF r
  <2> QED
    BY <1>1, <2>2, <2>3, <2>4, PutRecords
<1>4. p \in Producer /\ p.pc = "idle" /\ p.key = Key(m)
  <2>1. {"unused", "idle"} \subseteq ProducerStates /\ 0 \in Messages /\ 0 \in 0 .. MaxWrites
    BY Bounds DEF ProducerStates, Messages
  <2>2. NoProducer \in Producer
    BY <2>1 DEF NoProducer, Producer
  <2>3. Key(m) \in Keys \union {None} /\ Owner(m) \in Owners \union {None}
    BY <1>2
  <2> QED
    BY <2>1, <2>2, <2>3 DEF Producer
<1>5. GoodProducer(p)
  <2> HIDE DEF p
  <2> QED
    BY <1>2, <1>4 DEF GoodProducer
<1>6. producer' = [producer EXCEPT ![c] = p]
  BY DEF Claimed
<1>7. ProducersOK'
  BY <1>1, <1>4, <1>5, <1>6 DEF ProducersOK
<1>8. WorkersOK'
  <2> DEFINE w == [worker[m] EXCEPT !.pc = "watching"]
  <2>1. w \in Worker /\ w.pc = "watching" /\ w.at = worker[m].at
    BY <1>2 DEF Worker, WorkerStates
  <2>2. Step(m, w)
    BY DEF Claimed
  <2> HIDE DEF w
  <2>3. GoodWorker(w)
    BY <2>1 DEF GoodWorker
  <2> QED
    BY <1>1, <2>2, <2>3, StepKeepsWorkers
<1>9. producer \in [Claims -> Producer]
  BY <1>1 DEF ProducersOK
<1>10. /\ Started' = Started \union {c}
       /\ \A d \in Started : producer'[d].key = producer[d].key
       /\ producer'[c].key = Key(m)
  <2> HIDE DEF p
  <2> QED
    BY <1>4, <1>6, <1>9 DEF Started, Claimed
<1>11. r \in receipts' /\ r.key = Key(m)
  BY DEF Claimed, Put
<1>12. StartIsRecorded'
  <2> SUFFICES ASSUME NEW d \in Started'
               PROVE  \E s \in receipts' : s.key = producer'[d].key
    BY DEF StartIsRecorded
  <2>1. CASE d = c
    BY <1>10, <1>11, <2>1
  <2>2. CASE d \in Started
    <3>1. PICK s \in receipts : s.key = producer[d].key
      BY <2>2 DEF IInv, StartIsRecorded
    <3>2. PICK t \in receipts' : t.key = s.key
      BY <1>3 DEF Recorded, KeysStay
    <3> QED
      BY <1>10, <2>2, <3>1, <3>2
  <2> QED
    BY <1>10, <2>1, <2>2
<1>13. \A d \in Started : producer[d].key = Key(m) => Task(Key(m)) \in RetrySafe
  <2> SUFFICES ASSUME NEW d \in Started, producer[d].key = Key(m)
               PROVE  Task(Key(m)) \in RetrySafe
    OBVIOUS
  <2>1. PICK s \in receipts : s.key = Key(m)
    BY DEF IInv, StartIsRecorded
  <2>2. s \in RowOf(Key(m))
    BY <2>1 DEF RowOf
  <2>3. Task(s.key) \in RetrySafe
    BY <2>2 DEF Claimed, Claimable
  <2> QED
    BY <2>1, <2>3
<1>14. UnsafeOncePerKey'
  <2>1. \A k : Task(k)' = Task(k)
    BY DEF Task
  <2>2. UnsafeOncePerKey
    BY DEF IInv
  <2> HIDE DEF r, p
  <2> QED
    BY <1>10, <1>13, <2>2 DEF UnsafeOncePerKey, Task
<1> QED
  BY <1>3, <1>7, <1>8, <1>12, <1>14 DEF IInv, Recorded

LEMMA ClaimTaskKeeps ==
  ASSUME IInv, NEW m \in Messages, ClaimTask(m)
  PROVE  IInv' /\ LeftAlone
<1>1. UNCHANGED <<stage, ident>> /\ NoFault /\ worker[m].pc \in {"claim", "reclaimed"}
  BY DEF ClaimTask
<1>2. StagesOK'
  BY <1>1, FaultsStay DEF IInv, StagesOK
<1>3. WorkersOK /\ ProducersOK /\ ReceiptsOK
  BY DEF IInv
<1>4. worker[m].at <= Len(Tasks)
  BY <1>1, <1>3 DEF WorkersOK, GoodWorker, InTask
<1>5. CASE \E c \in Claims : Claimed(m, c)
  BY <1>2, <1>4, <1>5, ClaimedKeeps
<1>6. CASE Throw(m) /\ UNCHANGED <<receipts, producer>>
  <2>1. Quiet
    BY <1>2, <1>3, <1>6, ThrowKeepsWorkers, SameReceiptsRecorded, SameProducers DEF Quiet
  <2> QED
    BY <2>1, QuietKeeps
<1>7. CASE /\ Step(m, [worker[m] EXCEPT !.pc = "reclaim", !.seen = {r \in receipts : r.state = "running"}])
           /\ UNCHANGED <<receipts, producer>>
  <2> DEFINE rows == {r \in receipts : r.state = "running"}
             w == [worker[m] EXCEPT !.pc = "reclaim", !.seen = rows]
  <2>1. worker[m] \in Worker /\ rows \in SUBSET Receipt /\ "reclaim" \in WorkerStates
    BY <1>3, OwnersAreOwners DEF ReceiptsOK, WorkerStates
  <2>2. GoodWorker(w)
    <3> HIDE DEF rows
    <3>1. w \in Worker /\ w.pc = "reclaim" /\ w.at = worker[m].at
      BY <2>1 DEF Worker
    <3> HIDE DEF w
    <3> QED
      BY <1>4, <3>1 DEF GoodWorker
  <2>3. WorkersOK'
    BY <1>3, <1>7, <2>2, StepKeepsWorkers
  <2>4. Quiet
    BY <1>2, <1>3, <1>7, <2>3, SameReceiptsRecorded, SameProducers DEF Quiet
  <2> QED
    BY <2>4, QuietKeeps
<1> QED
  BY <1>5, <1>6, <1>7 DEF ClaimTask, Claimed

(* reclaimExpiredLeases, and the operator's script.                         *)
LEMMA ReclaimKeeps ==
  ASSUME IInv, NEW m \in Messages, Reclaim(m)
  PROVE  Quiet
<1>1. UNCHANGED <<stage, ident, producer>> /\ NoFault /\ At(m, "reclaim")
  BY DEF Reclaim
<1>2. StagesOK' /\ ProducersOK' /\ SameStarts
  BY <1>1, FaultsStay, SameProducers DEF IInv, StagesOK
<1>3. WorkersOK /\ ReceiptsOK
  BY DEF IInv
<1>4. worker[m].at <= Len(Tasks)
  BY <1>1, <1>3 DEF WorkersOK, GoodWorker, InTask, At
<1>5. CASE \E r \in worker[m].seen :
             Reclaimable(m, r) /\ Put([r EXCEPT !.state = "error"]) /\ Goto(m, "reclaimed")
  <2>1. PICK r \in worker[m].seen :
          Reclaimable(m, r) /\ Put([r EXCEPT !.state = "error"]) /\ Goto(m, "reclaimed")
    BY <1>5
  <2>2. r \in receipts /\ ~HeldBy(stage, Run, r.owner)
    BY <2>1 DEF Reclaimable
  <2>3. Recorded
    BY <1>3, <2>1, <2>2, CloseRecords
  <2>4. "reclaimed" \in WorkerStates /\ "reclaimed" # "verifying"
    BY DEF WorkerStates
  <2>5. WorkersOK'
    BY <1>3, <1>4, <2>1, <2>4, GotoKeepsWorkers
  <2> QED
    BY <1>2, <2>3, <2>5 DEF Quiet
<1>6. CASE Throw(m) /\ UNCHANGED receipts
  BY <1>2, <1>3, <1>6, ThrowKeepsWorkers, SameReceiptsRecorded DEF Quiet
<1> QED
  BY <1>5, <1>6 DEF Reclaim

LEMMA ReconcileKeeps ==
  ASSUME IInv, Reconcile
  PROVE  Quiet
<1>1. UNCHANGED <<stage, ident, worker, producer>> /\ Fault
  BY DEF Reconcile
<1>2. StagesOK' /\ ProducersOK' /\ SameStarts /\ WorkersOK' /\ ReceiptsOK
  BY <1>1, FaultsStay, SameProducers, SameWorkers DEF IInv, StagesOK
<1>3. PICK r \in receipts : OperatorCloses(r)
  BY DEF Reconcile
<1>4. Put([r EXCEPT !.state = "error"]) /\ ~HeldBy(stage, Run, r.owner)
  BY <1>3 DEF OperatorCloses, HeldBy
<1>5. Recorded
  BY <1>2, <1>3, <1>4, CloseRecords
<1> QED
  BY <1>2, <1>5 DEF Quiet
-----------------------------------------------------------------------------
(* A producer's own steps.                                                  *)
LEMMA WorkKeeps ==
  ASSUME IInv, NEW c \in Claims, CheckWrite(c) \/ Write(c) \/ Return(c) \/ Vanish(c)
  PROVE  Quiet
<1>1. UNCHANGED <<stage, ident, receipts, worker>> /\ (Fault \/ NoFault)
  BY DEF CheckWrite, Write, Return, Vanish
<1>2. StagesOK' /\ WorkersOK' /\ Recorded
  BY <1>1, FaultsStay, SameWorkers, SameReceiptsRecorded DEF IInv, StagesOK
<1>3. producer[c] \in Producer /\ GoodProducer(producer[c]) /\ ProducersOK
  BY DEF IInv, ProducersOK
<1>4. producer[c].pc # "unused"
  BY DEF CheckWrite, Write, Return, Vanish
<1>5. {"idle", "checked", "settling", "dead"} \subseteq ProducerStates
        /\ "error" \in Outcomes /\ None \in Outcomes \union {None}
  BY DEF ProducerStates, Outcomes
<1>6. ProducersOK' /\ SameStarts
  <2>1. CASE producer[c].writes < MaxWrites /\ Produce(c, [producer[c] EXCEPT !.pc = "checked"])
    <3> DEFINE p == [producer[c] EXCEPT !.pc = "checked"]
    <3>1. p \in Producer /\ p.pc = "checked" /\ p.key = producer[c].key /\ p.writes = producer[c].writes
      BY <1>3, <1>5 DEF Producer
    <3>2. GoodProducer(p)
      BY <1>3, <1>4, <2>1, <3>1 DEF GoodProducer
    <3> QED
      BY <1>3, <1>4, <2>1, <3>1, <3>2, ProduceKeepsProducers
  <2>2. CASE Produce(c, Ends(c, "settling", "error"))
    BY <1>3, <1>4, <1>5, <2>2, EndsKeepsProducers
  <2>3. CASE Write(c)
    <3> DEFINE p == [producer[c] EXCEPT !.pc = "idle", !.writes = @ + 1]
    <3>1. producer[c].writes + 1 \in 0 .. MaxWrites
      BY <1>3, <2>3, Bounds DEF Producer, GoodProducer, Write
    <3>2. p \in Producer /\ p.pc = "idle" /\ p.key = producer[c].key
      BY <1>3, <1>5, <3>1 DEF Producer
    <3>3. GoodProducer(p)
      BY <1>3, <1>4, <3>2 DEF GoodProducer
    <3>4. Produce(c, p)
      BY <2>3 DEF Write
    <3> QED
      BY <1>3, <1>4, <3>2, <3>3, <3>4, ProduceKeepsProducers
  <2>4. CASE Return(c)
    <3>1. PICK result \in Outcomes : Produce(c, Ends(c, "settling", result))
      BY <2>4 DEF Return
    <3> QED
      BY <1>3, <1>4, <1>5, <3>1, EndsKeepsProducers
  <2>5. CASE Produce(c, Ends(c, "dead", None))
    BY <1>3, <1>4, <1>5, <2>5, EndsKeepsProducers
  <2> QED
    BY <2>1, <2>2, <2>3, <2>4, <2>5 DEF CheckWrite, Vanish
<1> QED
  BY <1>2, <1>6 DEF Quiet

LEMMA SettlingKeeps ==
  ASSUME IInv, NEW c \in Claims, Settle(c) \/ SettleFails(c)
  PROVE  Quiet
<1>1. UNCHANGED <<stage, ident>> /\ (Fault \/ NoFault) /\ producer[c].pc = "settling" /\ Wake(c)
  BY DEF Settle, SettleFails
<1>2. WorkersOK /\ ProducersOK /\ ReceiptsOK /\ StagesOK'
  BY <1>1, FaultsStay DEF IInv, StagesOK
<1>3. producer[c].result \in Outcomes /\ producer[c] \in Producer /\ GoodProducer(producer[c])
  BY <1>1, <1>2 DEF ProducersOK, GoodProducer
<1>4. WorkersOK'
  <2>1. CASE \E m \in Messages : Goto(m, "queued")
    <3>1. "queued" \in WorkerStates /\ "queued" # "verifying" /\ "queued" \notin InTask
      BY DEF WorkerStates, InTask
    <3> QED
      BY <1>2, <2>1, <3>1, GotoKeepsWorkers
  <2>2. CASE UNCHANGED worker
    BY <1>2, <2>2, SameWorkers
  <2> QED
    BY <1>1, <2>1, <2>2 DEF Wake
<1>5. Recorded
  <2>1. PICK state \in Outcomes : receipts' = Persist(c, state)
    BY <1>3 DEF Settle, SettleFails, Outcomes
  <2> QED
    BY <1>1, <1>2, <2>1, PersistRecords
<1>6. ProducersOK' /\ SameStarts
  <2>1. CASE Produce(c, [producer[c] EXCEPT !.pc = "settled"])
    <3> DEFINE p == [producer[c] EXCEPT !.pc = "settled"]
    <3>1. p \in Producer /\ p.pc = "settled" /\ p.key = producer[c].key
      BY <1>3 DEF Producer, ProducerStates
    <3>2. GoodProducer(p)
      BY <1>1, <1>3, <3>1 DEF GoodProducer
    <3> QED
      BY <1>1, <1>2, <2>1, <3>1, <3>2, ProduceKeepsProducers
  <2>2. CASE Produce(c, Ends(c, "conflict", None))
    <3>1. "conflict" \in ProducerStates /\ None \in Outcomes \union {None}
      BY DEF ProducerStates
    <3> QED
      BY <1>1, <1>2, <2>2, <3>1, EndsKeepsProducers
  <2> QED
    BY <2>1, <2>2 DEF Settle, SettleFails
<1> QED
  BY <1>2, <1>4, <1>5, <1>6 DEF Quiet
-----------------------------------------------------------------------------
(* A delivery and its producer: the result, the timeout, the death of both. *)
LEMMA WatchKeeps ==
  ASSUME IInv, NEW m \in Messages, Watch(m)
  PROVE  Quiet
<1>1. UNCHANGED <<stage, ident, receipts, producer>> /\ NoFault /\ At(m, "watching")
  BY DEF Watch
<1>2. Recorded /\ ProducersOK' /\ SameStarts /\ StagesOK'
  BY <1>1, SameReceiptsRecorded, SameProducers, FaultsStay DEF IInv, StagesOK
<1>3. WorkersOK
  BY DEF IInv
<1>4. worker[m].at <= Len(Tasks)
  BY <1>1, <1>3 DEF WorkersOK, GoodWorker, InTask, At
<1>5. PICK c \in Claims : Advance(m, c, producer[c].result # "success") \/ Throw(m)
  BY DEF Watch, Mine
<1>6. CASE Throw(m)
  BY <1>2, <1>3, <1>6, ThrowKeepsWorkers DEF Quiet
<1>7. CASE Advance(m, c, producer[c].result # "success")
  <2> DEFINE error == producer[c].result # "success"
  <2>1. error \in BOOLEAN
    OBVIOUS
  <2> HIDE DEF error
  <2>2. Advance(m, c, error)
    BY <1>7 DEF error
  <2> QED
    BY <1>2, <1>3, <1>4, <2>1, <2>2, AdvanceKeepsWorkers DEF Quiet
<1> QED
  BY <1>5, <1>6, <1>7

LEMMA TimesOutKeeps ==
  ASSUME IInv, NEW m \in Messages, TimesOut(m)
  PROVE  Quiet
<1>1. UNCHANGED <<stage, ident, receipts>> /\ NoFault /\ Throw(m)
  BY DEF TimesOut
<1>2. Recorded /\ WorkersOK' /\ StagesOK' /\ ProducersOK
  BY <1>1, SameReceiptsRecorded, ThrowKeepsWorkers, FaultsStay DEF IInv, StagesOK
<1>3. PICK c \in Claims : /\ producer[c].pc \in {"idle", "checked", "settling"}
                          /\ Produce(c, [producer[c] EXCEPT !.orphan = TRUE])
  BY DEF TimesOut, Mine
<1> DEFINE p == [producer[c] EXCEPT !.orphan = TRUE]
<1>4. producer[c] \in Producer /\ GoodProducer(producer[c])
  BY <1>2 DEF ProducersOK
<1>5. /\ p \in Producer /\ p.pc = producer[c].pc /\ p.key = producer[c].key
      /\ p.result = producer[c].result /\ p.writes = producer[c].writes
  BY <1>4 DEF Producer
<1>6. Produce(c, p)
  BY <1>3
<1> HIDE DEF p
<1>7. GoodProducer(p)
  BY <1>4, <1>5 DEF GoodProducer
<1>8. ProducersOK' /\ SameStarts
  BY <1>2, <1>3, <1>5, <1>6, <1>7, ProduceKeepsProducers
<1> QED
  BY <1>2, <1>8 DEF Quiet

LEMMA DieKeeps ==
  ASSUME IInv, NEW m \in Messages, Die(m)
  PROVE  Quiet
<1>1. UNCHANGED <<stage, ident, receipts>> /\ Fault /\ Retry(m, "queued")
  BY DEF Die
<1>2. Recorded /\ WorkersOK' /\ StagesOK' /\ ProducersOK
  BY <1>1, SameReceiptsRecorded, RetryKeepsWorkers, FaultsStay DEF IInv, StagesOK
<1>3. producer' = [c \in Claims |->
         IF producer[c].owner = Owner(m) /\ producer[c].pc \in {"idle", "checked", "settling"}
         THEN Ends(c, "dead", None) ELSE producer[c]]
  BY DEF Die
<1>4. "dead" \in ProducerStates /\ None \in Outcomes \union {None}
  BY DEF ProducerStates
<1>5. \A c \in Claims : /\ GoodProducer(producer'[c])
                        /\ producer'[c].pc = "unused" <=> producer[c].pc = "unused"
                        /\ producer'[c].key = producer[c].key
  <2> SUFFICES ASSUME NEW c \in Claims
               PROVE  /\ GoodProducer(producer'[c])
                      /\ producer'[c].pc = "unused" <=> producer[c].pc = "unused"
                      /\ producer'[c].key = producer[c].key
    OBVIOUS
  <2>1. CASE producer'[c] = producer[c]
    BY <1>2, <2>1 DEF ProducersOK
  <2>2. CASE /\ producer'[c] = Ends(c, "dead", None)
             /\ producer[c].pc \in {"idle", "checked", "settling"}
    BY <1>2, <1>4, <2>2, EndsIsGood
  <2> QED
    BY <1>3, <2>1, <2>2
<1>6. ProducersOK' /\ SameStarts
  BY <1>3, <1>5 DEF ProducersOK, SameStarts, GoodProducer
<1> QED
  BY <1>2, <1>6 DEF Quiet

(* The end of the chain and the consumer's catch.                           *)
LEMMA EndingKeeps ==
  ASSUME IInv, NEW m \in Messages, Finish(m) \/ Fail(m)
  PROVE  Quiet
<1>1. UNCHANGED <<ident, receipts, producer>> /\ NoFault
  BY DEF Finish, Fail
<1>2. Recorded /\ ProducersOK' /\ SameStarts /\ (faults \in 0 .. MaxFaults)' /\ (ident \in Idents)'
  BY <1>1, SameReceiptsRecorded, SameProducers, FaultsStay DEF IInv, StagesOK
<1>3. WorkersOK /\ stage \in Row
  BY DEF IInv, StagesOK
<1>4. (stage \in Row)'
  <2>1. {"waiting", "success", "error"} \subseteq Statuses
    BY DEF Statuses
  <2> QED
    BY <1>3, <2>1, MarkedIsRow DEF Finish, Fail
<1>5. WorkersOK'
  <2>1. {"done", "acked"} \subseteq WorkerStates
          /\ \A pc \in {"done", "acked"} : pc # "verifying" /\ pc \notin InTask
    BY DEF WorkerStates, InTask
  <2>2. CASE \E pc \in {"done", "acked"} : Goto(m, pc)
    BY <1>3, <2>1, <2>2, GotoKeepsWorkers
  <2>3. CASE Throw(m)
    BY <1>3, <2>3, ThrowKeepsWorkers
  <2>4. CASE Retry(m, "queued")
    BY <1>3, <2>4, RetryKeepsWorkers
  <2> QED
    BY <2>2, <2>3, <2>4 DEF Finish, Fail
<1> QED
  BY <1>2, <1>4, <1>5 DEF Quiet, StagesOK

(* Leases that run out, a new root, a new revision.                         *)
LEMMA SurroundingsKeep ==
  ASSUME IInv, LeaseRunsOut \/ Stall \/ NewRoot \/ NewRevision
  PROVE  Quiet
<1>1. UNCHANGED <<receipts, worker, producer>> /\ (Fault \/ NoFault)
  BY DEF LeaseRunsOut, Stall, NewRoot, NewRevision
<1>2. Recorded /\ ProducersOK' /\ SameStarts /\ WorkersOK' /\ (faults \in 0 .. MaxFaults)'
  BY <1>1, SameReceiptsRecorded, SameProducers, SameWorkers, FaultsStay DEF IInv
<1>3. (stage \in Row)'
  BY RunOutIsRow DEF IInv, StagesOK, LeaseRunsOut, Stall, NewRoot, NewRevision
<1>4. (ident \in Idents)'
  <2>1. ident \in Idents
    BY DEF IInv, StagesOK
  <2>2. CASE UNCHANGED ident
    BY <2>1, <2>2
  <2>3. CASE NewRoot
    BY <2>1, <2>3, Bounds DEF NewRoot, Idents
  <2>4. CASE NewRevision
    BY <2>1, <2>4, Bounds DEF NewRevision, Idents
  <2> QED
    BY <2>2, <2>3, <2>4 DEF LeaseRunsOut, Stall
<1> QED
  BY <1>2, <1>3, <1>4 DEF Quiet, StagesOK
-----------------------------------------------------------------------------
LEMMA InitIInv == Init => IInv
<1> SUFFICES ASSUME Init PROVE IInv
  OBVIOUS
<1>1. StagesOK
  BY QueuedIsRow, FirstIdentity, Bounds DEF Init, StagesOK
<1>2. WorkersOK
  <2> DEFINE first == [NoWorker EXCEPT !.pc = "queued"]
  <2>1. {"unsent", "queued"} \subseteq WorkerStates \ InTask /\ "verifying" \in InTask
    BY DEF WorkerStates, InTask
  <2>2. first \in Worker /\ first.pc = "queued"
    BY <2>1, NoWorkerIsWorker DEF Worker
  <2>3. worker = [m \in Messages |-> IF m = 0 THEN first ELSE NoWorker]
    BY DEF Init
  <2> HIDE DEF first
  <2>4. GoodWorker(first) /\ GoodWorker(NoWorker)
    BY <2>1, <2>2, NoWorkerIsWorker DEF GoodWorker
  <2>5. \A m \in Messages : GoodWorker(worker[m])
    BY <2>3, <2>4
  <2> QED
    BY <2>3, <2>5 DEF WorkersOK, GoodWorker
<1>3. ProducersOK
  <2>1. "unused" \in ProducerStates /\ 0 \in Messages /\ 0 \in 0 .. MaxWrites
    BY Bounds DEF ProducerStates, Messages
  <2>2. NoProducer \in Producer /\ NoProducer.pc = "unused"
    BY <2>1 DEF NoProducer, Producer
  <2> QED
    BY <2>2 DEF Init, ProducersOK, GoodProducer
<1>4. ReceiptsOK
  BY DEF Init, ReceiptsOK, OneRowPerKey, OneOpenClaim, OpenRows
<1>5. Started = {}
  BY DEF Init, Started, NoProducer
<1> QED
  BY <1>1, <1>2, <1>3, <1>4, <1>5 DEF IInv, StartIsRecorded, UnsafeOncePerKey

LEMMA StepKeeps == IInv /\ [Next]_vars => IInv' /\ LeftAlone
<1> SUFFICES ASSUME IInv, [Next]_vars PROVE IInv' /\ LeftAlone
  OBVIOUS
<1>1. ASSUME NEW m \in Messages, Deliver(m) \/ OutputChanged(m) \/ TimesOut(m) \/ Die(m)
      PROVE  IInv' /\ LeftAlone
  <2>1. CASE ClaimTask(m)
    BY <2>1, ClaimTaskKeeps
  <2>2. CASE ~ClaimTask(m)
    <3>1. Quiet
      BY <1>1, <2>2, DeliveryKeeps, EnterKeeps, VerifiedKeeps, ReclaimKeeps, WatchKeeps, EndingKeeps,
         OutputChangedKeeps, TimesOutKeeps, DieKeeps DEF Deliver
    <3> QED
      BY <3>1, QuietKeeps
  <2> QED
    BY <2>1, <2>2
<1>2. ASSUME NEW c \in Claims, Work(c) \/ SettleFails(c) \/ Vanish(c)
      PROVE  IInv' /\ LeftAlone
  <2>1. Quiet
    BY <1>2, WorkKeeps, SettlingKeeps DEF Work
  <2> QED
    BY <2>1, QuietKeeps
<1>3. CASE LeaseRunsOut \/ Stall \/ NewRoot \/ NewRevision \/ Reconcile
  BY <1>3, SurroundingsKeep, ReconcileKeeps, QuietKeeps
<1>4. CASE UNCHANGED vars
  <2>1. Quiet
    BY <1>4, SameReceiptsRecorded, SameProducers, SameWorkers DEF vars, IInv, StagesOK, Quiet
  <2> QED
    BY <2>1, QuietKeeps
<1> QED
  BY <1>1, <1>2, <1>3, <1>4 DEF Next

LEMMA IInvAlways == Spec => []IInv
<1>1. IInv /\ [Next]_vars => IInv'
  BY StepKeeps
<1> QED
  BY <1>1, InitIInv, PTL DEF Spec
-----------------------------------------------------------------------------
(* The record, the deliveries and the producers keep their types; with it,  *)
(* a delivery inside a task has one and a settling producer has a result.   *)
(* (runPostVerifyCallbackChain, createPostVerifyTaskCheckpoints.)           *)
THEOREM TypeCorrect == Spec => []TypeOK
<1>1. IInv => TypeOK
  BY DEF IInv, StagesOK, WorkersOK, ProducersOK, ReceiptsOK, TypeOK
<1> QED
  BY <1>1, IInvAlways, PTL

(* At most one claim of the date is unsettled, however deliveries, time-    *)
(* outs, reclaims and late settlements interleave.  (claimOnce.)            *)
THEOREM OneOpenClaimHolds == Spec => []OneOpenClaim
<1>1. IInv => OneOpenClaim
  BY DEF IInv, ReceiptsOK
<1> QED
  BY <1>1, IInvAlways, PTL

(* An unsafe producer never starts twice under one key, because the receipt *)
(* of a key that was started under stays.  (claimOnce's ON CONFLICT.)       *)
THEOREM UnsafeOnce == Spec => []UnsafeOncePerKey
<1>1. IInv => UnsafeOncePerKey
  BY DEF IInv
<1> QED
  BY <1>1, IInvAlways, PTL

(* A claim whose stage lease is live is closed by its own producer only.    *)
(* (reclaimExpiredLeases, postVerifyReceiptReconcile.ts.)                   *)
THEOREM LiveClaimStays == Spec => LiveClaimIsLeftAlone
<1>1. IInv /\ [Next]_vars =>
        [\A r \in receipts \ receipts' :
           r.state = "running" /\ HeldBy(stage, Run, r.owner) => producer[r.claim].pc = "settling"]_vars
  BY StepKeeps DEF LeftAlone
<1> QED
  BY <1>1, IInvAlways, PTL DEF Spec, LiveClaimIsLeftAlone
=============================================================================
