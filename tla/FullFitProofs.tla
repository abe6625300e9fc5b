--------------------------- MODULE FullFitProofs ---------------------------
(***************************************************************************)
(* The safety of the full-fit training, for any number of callers and      *)
(* instances, trainings, attempts and faults.                              *)
(*                                                                         *)
(* What makes old copies of the receipt harmless is that all they tell of  *)
(* their run stays true: it was started, and once its payload is stored it *)
(* is over.  What makes the lock hold is that a run id is used once: the   *)
(* copies of it are those of one call and of the blob it created.          *)
(***************************************************************************)
EXTENDS FullFit, TLAPS

Whole    == {"good", "invalid"}
Examined == {"examine", "settle", "repair", "conclude"}
Starting == {"acquire", "inspect", "takeover", "spawn", "write"}
Ended    == Outcomes \cup {"ended"}
Over(r)  == job[r] \in Ended \/ r \in misread

(* What a copy of the receipt tells about its run, however old it is.       *)
Truthful(rc) ==
    /\ rc.run # 0 => job[rc.run] # "none"
    /\ rc.terminal => rc.run # 0 /\ job[rc.run] \in {"good", "invalid", "partial"}

(* The registry and the log speak only of runs that are over, or that a     *)
(* poll has called so.                                                      *)
RecordsTruthful ==
    /\ \A r \in registered : job[r] \in Whole
    /\ \A r \in noted : Over(r)

(* From its acquire to its end, or to a poll that called it failed, a run   *)
(* that is not counted as unowned has the blob, within its TTL.             *)
Holds(r) == r \in unowned \cup misread \/ lock = [run |-> r, fresh |-> TRUE]

(* What a call knows at each place: of the run of its copy, of the run it   *)
(* dispatches, and of the blob it wants to take over, which it found stale. *)
KnowsCopy(q) ==
    /\ Truthful(seen[q]) /\ ~Final(seen[q])
    /\ pc[q] \in Examined => seen[q].run # 0
    /\ pc[q] \in {"settle", "repair"} => Over(seen[q].run)
    /\ pc[q] = "conclude" => seen[q].run \in registered
    /\ pc[q] \in Starting /\ seen[q].run # 0 => Over(seen[q].run) /\ seen[q].attempt < MaxAttempts
KnowsOwn(q) ==
    /\ pc[q] \in {"spawn", "write"} => own[q] # 0
    /\ pc[q] = "spawn" => job[own[q]] = "none" /\ Holds(own[q])
    /\ pc[q] = "write" => job[own[q]] # "none"
KnowsBlob(q) ==
    pc[q] = "takeover" => saw[q] # 0 /\ (lock.run = saw[q] => ~lock.fresh)
CallKnows(q) == KnowsCopy(q) /\ KnowsOwn(q) /\ KnowsBlob(q)

RunsApart == \A q, w \in Requests : own[q] = own[w] /\ own[q] # 0 => q = w

Stored ==
    /\ Truthful(receipt) /\ RecordsTruthful /\ VerdictIsEarned
    /\ \A r \in Running : Holds(r)

IInv == TypeOK /\ Stored /\ RunsApart /\ \A q \in Requests : CallKnows(q)

(* A job goes from none to running to its end, which gets its outcome, and  *)
(* what a poll has called failed stays called so until then.                *)
JobsAdvance ==
    \A r \in Runs : /\ \/ job'[r] = job[r]
                       \/ job[r] = "none" /\ job'[r] = "running"
                       \/ job[r] = "running" /\ job'[r] = "ended"
                       \/ job[r] = "ended" /\ job'[r] \in Outcomes
                    /\ r \in misread => r \in misread' \/ job'[r] = "ended"

(* Only the calls of Q move on.                                             *)
OnlyMove(Q) ==
    \A w \in Requests \ Q : /\ pc'[w] = pc[w] /\ seen'[w] = seen[w]
                            /\ own'[w] = own[w] /\ saw'[w] = saw[w]
-----------------------------------------------------------------------------
LEMMA InitIInv == Init => IInv
<1> SUFFICES ASSUME Init PROVE IInv
  OBVIOUS
<1>1. TypeOK
  <2>1. 0 \in 0..MaxRuns /\ 0 \in 0..MaxAttempts /\ 0 \in 0..MaxFaults
    BY FullFitAssumption
  <2>2. NoReceipt \in Receipts
    BY <2>1 DEF NoReceipt, Receipts
  <2> QED
    BY <2>1, <2>2 DEF Init, TypeOK
<1>2. Running = {}
  BY DEF Init, Running
<1> QED
  BY <1>1, <1>2 DEF Init, IInv, Stored, Truthful, RecordsTruthful, VerdictIsEarned, RunsApart,
     CallKnows, KnowsCopy, KnowsOwn, KnowsBlob, Final, NoReceipt, Examined, Starting

(* What a copy tells stays true.                                            *)
LEMMA TruthStays ==
    ASSUME JobsAdvance, NEW rc \in Receipts, Truthful(rc)
    PROVE  Truthful(rc)'
BY DEF JobsAdvance, Truthful, Receipts, Outcomes, Runs

(* The calls of Q move on, the others are not disturbed.                    *)
LEMMA CallsMove ==
    ASSUME IInv, NEW Q \in SUBSET Requests, TypeOK', Stored', OnlyMove(Q), JobsAdvance,
           registered \subseteq registered',
           \A q \in Q : CallKnows(q)' /\ (own'[q] \in {0, own[q]} \/ \A w \in Requests : own[w] # own'[q]),
           \A q, w \in Q : own'[q] = own'[w] /\ own'[q] # 0 => q = w,
           \A w \in Requests \ Q :
              /\ pc[w] = "spawn" => job'[own[w]] = job[own[w]] /\ Holds(own[w])'
              /\ pc[w] = "takeover" /\ lock'.run = saw[w] => ~lock'.fresh
    PROVE  IInv'
<1>1. RunsApart'
  BY DEF IInv, RunsApart, OnlyMove
<1>2. ASSUME NEW w \in Requests \ Q PROVE CallKnows(w)'
  <2>1. /\ pc'[w] = pc[w] /\ seen'[w] = seen[w] /\ own'[w] = own[w] /\ saw'[w] = saw[w]
        /\ seen[w] \in Receipts /\ own[w] \in 0..MaxRuns /\ seen[w].run \in 0..MaxRuns
    BY DEF OnlyMove, IInv, TypeOK, Receipts
  <2>2. KnowsCopy(w)'
    <3>1. Truthful(seen[w])'
      BY <2>1, TruthStays DEF IInv, CallKnows, KnowsCopy, Truthful
    <3> QED
      BY <2>1, <3>1 DEF IInv, CallKnows, KnowsCopy, JobsAdvance, Over, Ended, Outcomes, Examined, Starting, Runs
  <2>3. KnowsOwn(w)'
    BY <2>1 DEF IInv, CallKnows, KnowsOwn, JobsAdvance, Runs, Holds, Outcomes
  <2>4. KnowsBlob(w)'
    BY <2>1 DEF IInv, CallKnows, KnowsBlob
  <2> QED
    BY <2>2, <2>3, <2>4 DEF CallKnows
<1> QED
  BY <1>1, <1>2 DEF IInv

(* One call goes on and leaves the trainings and the blob alone.            *)
LEMMA CallGoesOn ==
    ASSUME IInv, NEW q \in Requests, TypeOK', Stored', OnlyMove({q}), UNCHANGED <<lock, unowned, misread, job>>,
           registered \subseteq registered', own'[q] \in {0, own[q]}, CallKnows(q)'
    PROVE  IInv'
<1>1. JobsAdvance
  BY DEF JobsAdvance
<1>2. \A w \in Requests \ {q} :
        /\ pc[w] = "spawn" => job'[own[w]] = job[own[w]] /\ Holds(own[w])'
        /\ pc[w] = "takeover" /\ lock'.run = saw[w] => ~lock'.fresh
  BY DEF IInv, OnlyMove, CallKnows, KnowsOwn, KnowsBlob, Holds
<1> QED
  BY <1>1, <1>2, CallsMove

(* One call asks for a training, and may be the first to see how it ended.  *)
LEMMA PollGoesOn ==
    ASSUME IInv, NEW q \in Requests, TypeOK', Stored', OnlyMove({q}), UNCHANGED <<lock, unowned, registered>>,
           JobsAdvance, misread \subseteq misread', \A r \in Runs : job[r] = "none" => job'[r] = "none",
           own'[q] \in {0, own[q]}, CallKnows(q)'
    PROVE  IInv'
<1>1. ASSUME NEW w \in Requests \ {q}
      PROVE  /\ pc[w] = "spawn" => job'[own[w]] = job[own[w]] /\ Holds(own[w])'
             /\ pc[w] = "takeover" /\ lock'.run = saw[w] => ~lock'.fresh
  <2>1. own'[w] = own[w] /\ (pc[w] = "spawn" => own[w] \in Runs)
    BY DEF OnlyMove, IInv, TypeOK, CallKnows, KnowsOwn, Runs
  <2> QED
    BY <2>1 DEF IInv, CallKnows, KnowsOwn, KnowsBlob, Holds
<1> QED
  BY <1>1, CallsMove

LEMMA SeesEnd ==
    ASSUME IInv, NEW q \in Requests, Asks(q), NEW o \in Outcomes, Sees(q, o), UNCHANGED misread
    PROVE  /\ JobsAdvance /\ job' \in [Runs -> Outcomes \cup {"none", "running", "ended"}]
           /\ seen[q].run \in Runs /\ job'[seen[q].run] = o /\ Running' = Running
           /\ \A r \in Runs : job[r] = "none" => job'[r] = "none"
           /\ \A r \in Runs : job[r] \in Outcomes => job'[r] = job[r]
<1>1. seen[q].run \in Runs /\ job[seen[q].run] \in {"ended", o} /\ job \in [Runs -> Outcomes \cup {"none", "running", "ended"}]
  BY DEF IInv, TypeOK, Asks, CallKnows, KnowsCopy, Examined, Receipts, Runs, Sees
<1>2. job' = [job EXCEPT ![seen[q].run] = o]
  BY DEF Sees
<1>3. \A r \in Runs : job'[r] = IF r = seen[q].run THEN o ELSE job[r]
  BY <1>1, <1>2
<1> QED
  BY <1>1, <1>2, <1>3 DEF JobsAdvance, Running, Outcomes

(* What is stored stays true while the trainings go on.                     *)
LEMMA StoredAdvances ==
    ASSUME IInv, JobsAdvance, UNCHANGED durable
    PROVE  (Truthful(receipt) /\ RecordsTruthful /\ VerdictIsEarned)'
<1>1. /\ \A r \in Runs : job[r] \in Outcomes => job'[r] = job[r]
      /\ \A r \in Runs : Over(r) => Over(r)'
  BY DEF JobsAdvance, Outcomes, Over, Ended
<1>2. receipt \in Receipts /\ registered \subseteq Runs /\ noted \subseteq Runs
  BY DEF IInv, TypeOK
<1>3. Truthful(receipt)'
  BY <1>2, TruthStays DEF IInv, Stored, Truthful, durable
<1>4. RecordsTruthful' /\ VerdictIsEarned'
  BY <1>1, <1>2 DEF IInv, Stored, RecordsTruthful, VerdictIsEarned, durable, Whole, Outcomes
<1> QED
  BY <1>3, <1>4

(* A call that has returned knows nothing.                                  *)
LEMMA Returned ==
    ASSUME IInv, NEW q \in Requests, Return(q)
    PROVE  /\ OnlyMove({q}) /\ CallKnows(q)' /\ own'[q] = 0
           /\ pc' \in [Requests -> {"idle", "examine", "settle", "repair", "conclude",
                                    "acquire", "inspect", "takeover", "spawn", "write"}]
           /\ seen' \in [Requests -> Receipts]
           /\ own' \in [Requests -> 0..MaxRuns] /\ saw' \in [Requests -> 0..MaxRuns]
<1>1. /\ pc'[q] = "idle" /\ seen'[q] = NoReceipt /\ own'[q] = 0 /\ OnlyMove({q})
  BY DEF IInv, TypeOK, Return, Goto, OnlyMove
<1>2. CallKnows(q)'
  BY <1>1 DEF CallKnows, KnowsCopy, KnowsOwn, KnowsBlob, Truthful, Final, NoReceipt, Examined, Starting
<1>3. NoReceipt \in Receipts /\ 0 \in 0..MaxRuns
  BY FullFitAssumption DEF NoReceipt, Receipts
<1> QED
  BY <1>1, <1>2, <1>3 DEF IInv, TypeOK, Return, Goto
-----------------------------------------------------------------------------
(* The call up to its verdict on the run the receipt names.                 *)
LEMMA ReadIInv == ASSUME IInv, NEW q \in Requests, Read(q) PROVE IInv'
<1>1. TypeOK'
  BY DEF IInv, TypeOK, Read, Goto, lockVars, durable
<1>2. Stored'
  BY DEF IInv, Stored, Truthful, RecordsTruthful, Over, Ended, VerdictIsEarned, Running, Holds, Read, lockVars, durable
<1>3. OnlyMove({q}) /\ seen'[q] = receipt /\ own'[q] = own[q]
      /\ pc'[q] = IF receipt.run = 0 THEN "acquire" ELSE "examine"
  BY DEF IInv, TypeOK, OnlyMove, Read, Goto
<1>4. CallKnows(q)'
  BY <1>3 DEF IInv, Stored, Truthful, CallKnows, KnowsCopy, KnowsOwn, KnowsBlob, Examined, Starting, Read
<1> QED
  BY <1>1, <1>2, <1>3, <1>4, CallGoesOn DEF Read, lockVars, durable

LEMMA RegisteredIInv == ASSUME IInv, NEW q \in Requests, Registered(q) PROVE IInv'
<1>1. TypeOK'
  BY DEF IInv, TypeOK, Registered, Goto, lockVars, durable
<1>2. Stored'
  BY DEF IInv, Stored, Truthful, RecordsTruthful, Over, Ended, VerdictIsEarned, Running, Holds, Registered,
     lockVars, durable
<1>3. OnlyMove({q}) /\ seen'[q] = seen[q] /\ own'[q] = own[q] /\ pc'[q] = "conclude"
  BY DEF IInv, TypeOK, OnlyMove, Registered, Goto
<1>4. CallKnows(q)'
  BY <1>3 DEF IInv, Truthful, CallKnows, KnowsCopy, KnowsOwn, KnowsBlob, Examined, Starting, Registered,
     durable
<1> QED
  BY <1>1, <1>2, <1>3, <1>4, CallGoesOn DEF Registered, lockVars, durable

LEMMA AlreadyTerminalIInv == ASSUME IInv, NEW q \in Requests, AlreadyTerminal(q) PROVE IInv'
<1>1. TypeOK'
  BY DEF IInv, TypeOK, AlreadyTerminal, Goto, lockVars, durable
<1>2. Stored'
  BY DEF IInv, Stored, Truthful, RecordsTruthful, Over, Ended, VerdictIsEarned, Running, Holds, AlreadyTerminal,
     lockVars, durable
<1>3. OnlyMove({q}) /\ seen'[q] = seen[q] /\ own'[q] = own[q] /\ pc'[q] \in {"settle", "repair"}
  BY DEF IInv, TypeOK, OnlyMove, AlreadyTerminal, Goto
<1>4. Over(seen[q].run)
  BY DEF IInv, Stored, RecordsTruthful, CallKnows, KnowsCopy, Truthful, AlreadyTerminal, Over, Ended, Outcomes
<1>5. CallKnows(q)'
  BY <1>3, <1>4 DEF IInv, Truthful, CallKnows, KnowsCopy, KnowsOwn, KnowsBlob, Examined, Starting,
     AlreadyTerminal, Over, Ended
<1> QED
  BY <1>1, <1>2, <1>3, <1>5, CallGoesOn DEF AlreadyTerminal, lockVars, durable

LEMMA PollPendingIInv == ASSUME IInv, NEW q \in Requests, PollPending(q) PROVE IInv'
<1>1. CASE job[seen[q].run] = "running" /\ UNCHANGED job
  <2>1. TypeOK'
    BY <1>1, Returned DEF IInv, TypeOK, PollPending, lockVars, durable
  <2>2. Stored'
    BY <1>1 DEF IInv, Stored, Truthful, RecordsTruthful, Over, Ended, VerdictIsEarned, Running, Holds,
       PollPending, lockVars, durable
  <2> QED
    BY <1>1, <2>1, <2>2, Returned, CallGoesOn DEF PollPending, lockVars, durable
<1>2. CASE Sees(q, "timeout")
  <2>1. "timeout" \in Outcomes /\ UNCHANGED <<misread, lock, unowned, registered>> /\ Asks(q) /\ Return(q)
    BY DEF Outcomes, PollPending, lockVars, durable
  <2>2. /\ JobsAdvance /\ job' \in [Runs -> Outcomes \cup {"none", "running", "ended"}]
        /\ Running' = Running /\ \A r \in Runs : job[r] = "none" => job'[r] = "none"
    BY <1>2, <2>1, SeesEnd
  <2>3. TypeOK'
    BY <2>2, Returned DEF IInv, TypeOK, PollPending, lockVars, durable
  <2>4. Stored'
    BY <2>1, <2>2, StoredAdvances DEF IInv, Stored, Holds, PollPending
  <2> QED
    BY <2>1, <2>2, <2>3, <2>4, Returned, PollGoesOn
<1> QED
  BY <1>1, <1>2 DEF PollPending

LEMMA PollCompletedIInv == ASSUME IInv, NEW q \in Requests, PollCompleted(q) PROVE IInv'
<1>1. /\ OnlyMove({q}) /\ own'[q] = own[q] /\ pc'[q] = "settle"
      /\ seen'[q] = [seen[q] EXCEPT !.terminal = TRUE] /\ receipt' = seen'[q]
      /\ seen[q] \in Receipts /\ seen[q].run # 0 /\ ~Final(seen[q])
      /\ UNCHANGED <<lock, unowned, misread, registered, noted>>
  BY DEF IInv, TypeOK, OnlyMove, PollCompleted, Asks, Goto, CallKnows, KnowsCopy, Examined, lockVars
<1>2. /\ seen'[q] \in Receipts /\ seen'[q].run = seen[q].run /\ seen'[q].status = seen[q].status
      /\ seen'[q].attempt = seen[q].attempt
  BY <1>1 DEF Receipts
<1>3. PICK o \in {"good", "invalid", "partial"} : Sees(q, o)
  BY DEF PollCompleted
<1>4. /\ JobsAdvance /\ job' \in [Runs -> Outcomes \cup {"none", "running", "ended"}]
      /\ seen[q].run \in Runs /\ job'[seen[q].run] = o /\ Running' = Running
      /\ \A r \in Runs : job[r] = "none" => job'[r] = "none"
      /\ \A r \in Runs : job[r] \in Outcomes => job'[r] = job[r]
  <2>1. o \in Outcomes /\ Asks(q) /\ UNCHANGED misread
    BY <1>1 DEF Outcomes, PollCompleted
  <2> QED
    BY <1>3, <2>1, SeesEnd
<1>5. TypeOK'
  BY <1>1, <1>2, <1>4 DEF IInv, TypeOK, PollCompleted, Goto, lockVars
<1>6. Truthful(seen[q])' /\ Over(seen[q].run)' /\ ~Final(seen'[q])
  BY <1>1, <1>2, <1>4 DEF Truthful, Over, Ended, Outcomes, Final
<1>7. Stored'
  <2>1. \A r \in Runs : Over(r) => Over(r)'
    BY <1>4 DEF JobsAdvance, Over, Ended, Outcomes
  <2>2. RecordsTruthful'
    BY <1>1, <1>4, <2>1 DEF IInv, TypeOK, Stored, RecordsTruthful, Whole, Outcomes
  <2>3. \A r \in Running' : Holds(r)'
    BY <1>1, <1>4 DEF IInv, Stored, Holds
  <2> QED
    BY <1>1, <1>6, <2>2, <2>3 DEF Stored, Truthful, VerdictIsEarned, Final
<1>8. CallKnows(q)'
  BY <1>1, <1>6 DEF CallKnows, KnowsCopy, KnowsOwn, KnowsBlob, Examined, Starting
<1> QED
  BY <1>1, <1>4, <1>5, <1>7, <1>8, PollGoesOn

LEMMA PollFailedIInv == ASSUME IInv, NEW q \in Requests, PollFailed(q) PROVE IInv'
<1>1. /\ OnlyMove({q}) /\ seen'[q] = seen[q] /\ own'[q] = own[q] /\ pc'[q] = "settle"
      /\ UNCHANGED <<lockVars, durable, unowned>>
      /\ seen[q].run \in Runs /\ seen[q] \in Receipts /\ Asks(q)
  BY DEF IInv, TypeOK, OnlyMove, PollFailed, Goto, Asks, CallKnows, KnowsCopy, Examined, Receipts, Runs
<1>2. /\ JobsAdvance /\ job' \in [Runs -> Outcomes \cup {"none", "running", "ended"}] /\ Running' = Running
      /\ \A r \in Runs : job[r] = "none" => job'[r] = "none"
      /\ Over(seen[q].run)' /\ misread \subseteq misread' /\ misread' \subseteq Runs /\ faults' \in 0..MaxFaults
  <2>1. CASE Sees(q, "error") /\ UNCHANGED <<misread, faults>>
    <3>1. "error" \in Outcomes
      BY DEF Outcomes
    <3> QED
      BY <1>1, <2>1, <3>1, SeesEnd DEF Over, Ended, IInv, TypeOK
  <2>2. CASE Fault /\ UNCHANGED job /\ misread' = misread \cup ({seen[q].run} \cap Running)
    <3>1. job[seen[q].run] \in Ended \/ seen[q].run \in Running
      BY <1>1 DEF IInv, TypeOK, CallKnows, KnowsCopy, Truthful, Running, Ended, Runs
    <3>2. JobsAdvance /\ Running' = Running /\ faults' \in 0..MaxFaults /\ misread' \subseteq Runs
      BY <2>2, FullFitAssumption DEF JobsAdvance, Running, Fault, IInv, TypeOK
    <3> QED
      BY <1>1, <2>2, <3>1, <3>2 DEF Over, IInv, TypeOK
  <2> QED
    BY <2>1, <2>2 DEF PollFailed
<1>3. TypeOK'
  BY <1>1, <1>2 DEF IInv, TypeOK, PollFailed, Goto, lockVars, durable
<1>4. Stored'
  BY <1>1, <1>2, StoredAdvances DEF IInv, Stored, Holds, lockVars
<1>5. CallKnows(q)'
  <2>1. Truthful(seen[q])'
    BY <1>1, <1>2, TruthStays DEF IInv, CallKnows, KnowsCopy, Truthful
  <2> QED
    BY <1>1, <1>2, <2>1 DEF IInv, CallKnows, KnowsCopy, KnowsOwn, KnowsBlob, Examined, Starting, Asks
<1> QED
  BY <1>1, <1>2, <1>3, <1>4, <1>5, PollGoesOn DEF lockVars, durable

(* A release takes the blob of its own run only.                            *)
LEMMA ReleaseKeeps ==
    ASSUME IInv, NEW i, NEW r \in Runs, Release(i, r) \/ UNCHANGED lockVars
    PROVE  /\ lock' \in [run : 0..MaxRuns, fresh : BOOLEAN] /\ cache' \in [Instances -> 0..MaxRuns]
           /\ lock' = lock \/ (lock.run \in {0, r} /\ lock'.run = 0)
<1>1. 0 \in 0..MaxRuns
  BY FullFitAssumption
<1>2. CASE lock' = [run |-> 0, fresh |-> FALSE] /\ cache' = [cache EXCEPT ![i] = 0] /\ lock.run \in {0, r}
  <2>1. cache' \in [Instances -> 0..MaxRuns]
    BY <1>1, <1>2 DEF IInv, TypeOK
  <2>2. lock' \in [run : 0..MaxRuns, fresh : BOOLEAN] /\ lock'.run = 0
    BY <1>1, <1>2
  <2> QED
    BY <1>2, <2>1, <2>2
<1>3. CASE UNCHANGED lockVars
  BY <1>3 DEF IInv, TypeOK, lockVars
<1> QED
  BY <1>2, <1>3 DEF Release

LEMMA SettleIInv == ASSUME IInv, NEW q \in Requests, Settle(q) PROVE IInv'
<1>1. /\ OnlyMove({q}) /\ own'[q] = own[q] /\ pc'[q] = "repair" /\ seen' = seen
      /\ seen[q].run \in Runs /\ Over(seen[q].run) /\ seen[q] \in Receipts
  BY DEF IInv, TypeOK, OnlyMove, Settle, Goto, CallKnows, KnowsCopy, Examined, Receipts, Runs
<1>2. /\ lock' \in [run : 0..MaxRuns, fresh : BOOLEAN] /\ cache' \in [Instances -> 0..MaxRuns]
      /\ lock' = lock \/ (lock.run \in {0, seen[q].run} /\ lock'.run = 0)
  BY <1>1, ReleaseKeeps DEF Settle
<1>3. TypeOK'
  <2>1. faults' \in 0..MaxFaults
    BY FullFitAssumption DEF IInv, TypeOK, Settle, Fault
  <2> QED
    BY <1>1, <1>2, <2>1 DEF IInv, TypeOK, Settle, Goto
<1>4. Stored'
  <2>1. \A r \in Running : Holds(r)'
    BY <1>1, <1>2 DEF IInv, Stored, Running, Holds, Over, Ended, Outcomes, Settle, Runs
  <2> QED
    BY <1>1, <2>1 DEF IInv, Stored, Truthful, RecordsTruthful, Over, Ended, VerdictIsEarned, Running, Settle
<1>5. CallKnows(q)'
  BY <1>1 DEF IInv, Truthful, CallKnows, KnowsCopy, KnowsOwn, KnowsBlob, Examined, Starting, Settle, Over, Ended
<1>6. \A w \in Requests \ {q} :
        /\ pc[w] = "spawn" => job'[own[w]] = job[own[w]] /\ Holds(own[w])'
        /\ pc[w] = "takeover" /\ lock'.run = saw[w] => ~lock'.fresh
  BY <1>1, <1>2 DEF IInv, CallKnows, KnowsOwn, KnowsBlob, Holds, Over, Ended, Outcomes, Settle, Runs
<1> QED
  BY <1>1, <1>3, <1>4, <1>5, <1>6, CallsMove DEF Settle, JobsAdvance

LEMMA RepairIInv == ASSUME IInv, NEW q \in Requests, Repair(q) PROVE IInv'
<1>0. seen[q] \in Receipts /\ seen[q].run \in Runs /\ Over(seen[q].run) /\ ~Final(seen[q])
      /\ Truthful(seen[q])
  BY DEF IInv, TypeOK, Repair, CallKnows, KnowsCopy, Examined, Receipts, Runs
<1>1. CASE Repaired(q)
  <2>1. TypeOK'
    BY <1>0, <1>1 DEF IInv, TypeOK, Repair, Repaired, Goto, lockVars
  <2>2. Stored'
    BY <1>0, <1>1 DEF IInv, Stored, Truthful, RecordsTruthful, Over, Ended, VerdictIsEarned, Running, Holds,
       Repair, Repaired, lockVars, Whole
  <2>3. OnlyMove({q}) /\ seen'[q] = seen[q] /\ own'[q] = own[q] /\ pc'[q] = "conclude"
    BY <1>1 DEF IInv, TypeOK, OnlyMove, Repaired, Goto
  <2>4. CallKnows(q)'
    BY <1>0, <1>1, <2>3 DEF IInv, Truthful, CallKnows, KnowsCopy, KnowsOwn, KnowsBlob, Examined, Starting,
       Repair, Repaired
  <2> QED
    BY <1>1, <2>1, <2>2, <2>3, <2>4, CallGoesOn DEF Repair, Repaired, lockVars
<1>2. CASE RunFailed(q)
  <2>1. faults' \in 0..MaxFaults /\ UNCHANGED <<lockVars, noted, registered, job, unowned, misread>>
    BY <1>2, FullFitAssumption DEF Repair, RunFailed, Fault, IInv, TypeOK
  <2>2. CASE seen[q].attempt >= MaxAttempts
    <3>1. receipt' = [seen[q] EXCEPT !.status = "limit"] /\ Return(q)
      BY <1>2, <2>2, FullFitAssumption DEF RunFailed, IInv, TypeOK, Receipts
    <3>2. receipt' \in Receipts /\ Truthful(receipt)' /\ ~Final(receipt')
      BY <1>0, <2>1, <3>1 DEF Receipts, Truthful, Final
    <3>3. TypeOK'
      BY <2>1, <3>1, <3>2, Returned DEF IInv, TypeOK, lockVars
    <3>4. Stored'
      BY <2>1, <3>2 DEF IInv, Stored, RecordsTruthful, Over, Ended, VerdictIsEarned, Running, Holds, lockVars, Final
    <3> QED
      BY <2>1, <3>1, <3>3, <3>4, Returned, CallGoesOn DEF lockVars
  <2>3. CASE seen[q].attempt < MaxAttempts /\ q \in PollOnly
    <3>1. UNCHANGED receipt /\ Return(q)
      BY <1>2, <2>3, FullFitAssumption DEF RunFailed, IInv, TypeOK, Receipts
    <3>3. TypeOK'
      BY <2>1, <3>1, Returned DEF IInv, TypeOK, lockVars
    <3>4. Stored'
      BY <2>1, <3>1 DEF IInv, Stored, Truthful, RecordsTruthful, Over, Ended, VerdictIsEarned, Running, Holds, lockVars
    <3> QED
      BY <2>1, <3>1, <3>3, <3>4, Returned, CallGoesOn DEF lockVars
  <2>4. CASE seen[q].attempt < MaxAttempts /\ q \notin PollOnly
    <3>1. UNCHANGED <<receipt, seen, own, saw>> /\ Goto(q, "acquire")
      BY <1>2, <2>4, FullFitAssumption DEF RunFailed, IInv, TypeOK, Receipts
    <3>2. OnlyMove({q}) /\ seen'[q] = seen[q] /\ own'[q] = own[q] /\ pc'[q] = "acquire"
      BY <3>1 DEF IInv, TypeOK, OnlyMove, Goto
    <3>3. TypeOK'
      BY <2>1, <3>1 DEF IInv, TypeOK, lockVars, Goto
    <3>4. Stored'
      BY <2>1, <3>1 DEF IInv, Stored, Truthful, RecordsTruthful, Over, Ended, VerdictIsEarned, Running, Holds, lockVars
    <3>5. CallKnows(q)'
      BY <1>0, <2>1, <2>4, <3>2 DEF CallKnows, KnowsCopy, KnowsOwn, KnowsBlob, Examined, Starting, Truthful, Over, Ended
    <3> QED
      BY <2>1, <3>2, <3>3, <3>4, <3>5, CallGoesOn DEF lockVars
  <2> QED
    BY <1>2, <2>2, <2>3, <2>4 DEF RunFailed
<1> QED
  BY <1>1, <1>2 DEF Repair

LEMMA ConcludeIInv == ASSUME IInv, NEW q \in Requests, Conclude(q) PROVE IInv'
<1>1. /\ seen[q] \in Receipts /\ seen[q].run \in registered /\ Truthful(seen[q])
      /\ job[seen[q].run] \in Whole /\ Return(q) /\ seen[q].run \in Runs
  BY DEF IInv, TypeOK, Stored, RecordsTruthful, Conclude, CallKnows, KnowsCopy
<1>2. /\ receipt' \in Receipts /\ receipt'.run = seen[q].run /\ receipt'.terminal = seen[q].terminal
      /\ receipt'.status = IF job[seen[q].run] = "invalid" THEN "blocked" ELSE "completed"
  BY <1>1 DEF Conclude, Receipts
<1>3. TypeOK'
  BY <1>1, <1>2, Returned DEF IInv, TypeOK, Conclude, lockVars
<1>4. Stored'
  BY <1>1, <1>2 DEF IInv, Stored, Truthful, RecordsTruthful, Over, Ended, VerdictIsEarned, Running, Holds,
     Conclude, lockVars, Whole
<1> QED
  BY <1>1, <1>3, <1>4, Returned, CallGoesOn DEF Conclude, lockVars
-----------------------------------------------------------------------------
(* acquire(): the cache, the create, then the look at what is there.        *)
LEMMA SkipOnCacheIInv == ASSUME IInv, NEW q \in Requests, SkipOnCache(q) PROVE IInv'
<1>1. TypeOK'
  BY Returned DEF IInv, TypeOK, SkipOnCache, lockVars, durable
<1>2. Stored'
  BY DEF IInv, Stored, Truthful, RecordsTruthful, Over, Ended, VerdictIsEarned, Running, Holds, SkipOnCache,
     lockVars, durable
<1> QED
  BY <1>1, <1>2, Returned, CallGoesOn DEF SkipOnCache, lockVars, durable

(* An admission takes a run nobody knows, and a blob that is gone or late.  *)
LEMMA AdmitIInv ==
    ASSUME IInv, NEW q \in Requests, NEW owned \in BOOLEAN, Admit(q, owned),
           pc[q] \in {"acquire", "inspect", "takeover"},
           owned => lock.run = 0 \/ ~lock.fresh,
           UNCHANGED <<durable, job, seen, saw, misread>>, faults' \in 0..MaxFaults
    PROVE  IInv'
<1>1. PICK r \in Unused :
        /\ own' = [own EXCEPT ![q] = r]
        /\ cache' = [cache EXCEPT ![On[q]] = r]
        /\ lock' = IF owned THEN [run |-> r, fresh |-> TRUE] ELSE lock
        /\ unowned' = IF owned THEN unowned \ {r} ELSE unowned \cup {r}
        /\ Goto(q, "spawn")
  BY DEF Admit
<1>2. r \in Runs /\ job[r] = "none" /\ lock.run # r /\ r # 0 /\ r \in 0..MaxRuns
      /\ \A w \in Requests : own[w] # r /\ saw[w] # r
  BY <1>1, FullFitAssumption DEF Unused, Runs
<1>3. TypeOK'
  BY <1>1, <1>2 DEF IInv, TypeOK, Goto, durable
<1>4. \A t \in Runs : t # r /\ Holds(t) => t \in unowned' \cup misread' \/ lock' = [run |-> t, fresh |-> TRUE]
  <2> SUFFICES ASSUME NEW t \in Runs, t # r, Holds(t)
               PROVE  t \in unowned' \cup misread' \/ lock' = [run |-> t, fresh |-> TRUE]
    OBVIOUS
  <2>1. CASE t \in unowned \cup misread
    BY <1>1, <2>1
  <2>2. CASE lock = [run |-> t, fresh |-> TRUE]
    <3>1. lock.run # 0 /\ lock.fresh
      BY <2>2, FullFitAssumption DEF Runs
    <3> QED
      BY <1>1, <2>2, <3>1
  <2> QED
    BY <2>1, <2>2 DEF Holds
<1>5. Stored'
  <2>1. \A t \in Running' : Holds(t)'
    BY <1>2, <1>4 DEF IInv, Stored, Running, Holds, durable
  <2> QED
    BY <2>1 DEF IInv, Stored, Truthful, RecordsTruthful, Over, Ended, VerdictIsEarned, durable
<1>6. /\ OnlyMove({q}) /\ seen'[q] = seen[q] /\ own'[q] = r /\ saw'[q] = saw[q] /\ pc'[q] = "spawn"
      /\ r \in unowned' \cup misread' \/ lock' = [run |-> r, fresh |-> TRUE]
  BY <1>1 DEF IInv, TypeOK, OnlyMove, Goto
<1>7. CallKnows(q)'
  BY <1>2, <1>6 DEF IInv, Truthful, CallKnows, KnowsCopy, KnowsOwn, KnowsBlob, Examined, Starting, Over, Ended,
     durable, Holds
<1>8. ASSUME NEW w \in Requests \ {q}
      PROVE  /\ pc[w] = "spawn" => job'[own[w]] = job[own[w]] /\ Holds(own[w])'
             /\ pc[w] = "takeover" /\ lock'.run = saw[w] => ~lock'.fresh
  <2>1. own'[w] = own[w] /\ own[w] # r /\ saw[w] # r /\ own[w] \in 0..MaxRuns
    BY <1>2, <1>6 DEF OnlyMove, IInv, TypeOK
  <2>2. pc[w] = "spawn" => Holds(own[w])'
    BY <1>4, <2>1 DEF IInv, CallKnows, KnowsOwn, Holds, Runs
  <2>3. pc[w] = "takeover" /\ lock'.run = saw[w] => ~lock'.fresh
    BY <1>1, <2>1 DEF IInv, CallKnows, KnowsBlob
  <2> QED
    BY <2>2, <2>3
<1> QED
  BY <1>2, <1>3, <1>5, <1>6, <1>7, <1>8, CallsMove DEF JobsAdvance, durable

LEMMA CreateIInv == ASSUME IInv, NEW q \in Requests, Create(q) PROVE IInv'
<1>1. CASE lock.run = 0
  BY <1>1, AdmitIInv DEF Create, IInv, TypeOK
<1>2. CASE lock.run # 0
  <2>1. TypeOK'
    BY <1>2 DEF IInv, TypeOK, Create, Goto, lockVars, durable
  <2>2. Stored'
    BY <1>2 DEF IInv, Stored, Truthful, RecordsTruthful, Over, Ended, VerdictIsEarned, Running, Holds, Create,
       lockVars, durable
  <2>3. OnlyMove({q}) /\ seen'[q] = seen[q] /\ own'[q] = own[q] /\ pc'[q] = "inspect"
    BY <1>2 DEF IInv, TypeOK, OnlyMove, Create, Goto
  <2>4. CallKnows(q)'
    BY <2>3 DEF IInv, Truthful, CallKnows, KnowsCopy, KnowsOwn, KnowsBlob, Examined, Starting, Create, Over, Ended
  <2> QED
    BY <1>2, <2>1, <2>2, <2>3, <2>4, CallGoesOn DEF Create, lockVars, durable
<1> QED
  BY <1>1, <1>2

LEMMA CreateFailsIInv == ASSUME IInv, NEW q \in Requests, CreateFails(q) PROVE IInv'
<1>1. faults' \in 0..MaxFaults
  BY FullFitAssumption DEF CreateFails, Fault, IInv, TypeOK
<1> QED
  BY <1>1, AdmitIInv DEF CreateFails

LEMMA InspectIInv == ASSUME IInv, NEW q \in Requests, Inspect(q) PROVE IInv'
<1>1. CASE lock.run = 0
  BY <1>1, AdmitIInv DEF Inspect, IInv, TypeOK
<1>2. CASE lock.run # 0 /\ lock.fresh
  <2>1. TypeOK'
    BY <1>2, Returned DEF IInv, TypeOK, Inspect, lockVars, durable
  <2>2. Stored'
    BY <1>2 DEF IInv, Stored, Truthful, RecordsTruthful, Over, Ended, VerdictIsEarned, Running, Holds, Inspect,
       lockVars, durable
  <2> QED
    BY <1>2, <2>1, <2>2, Returned, CallGoesOn DEF Inspect, lockVars, durable
<1>3. CASE lock.run # 0 /\ ~lock.fresh
  <2>1. TypeOK'
    BY <1>3 DEF IInv, TypeOK, Inspect, Goto, lockVars, durable
  <2>2. Stored'
    BY <1>3 DEF IInv, Stored, Truthful, RecordsTruthful, Over, Ended, VerdictIsEarned, Running, Holds, Inspect,
       lockVars, durable
  <2>3. OnlyMove({q}) /\ seen'[q] = seen[q] /\ own'[q] = own[q] /\ pc'[q] = "takeover" /\ saw'[q] = lock.run
    BY <1>3 DEF IInv, TypeOK, OnlyMove, Inspect, Goto
  <2>4. CallKnows(q)'
    BY <1>3, <2>3 DEF IInv, Truthful, CallKnows, KnowsCopy, KnowsOwn, KnowsBlob, Examined, Starting, Inspect,
       Over, Ended, lockVars, durable
  <2> QED
    BY <1>3, <2>1, <2>2, <2>3, <2>4, CallGoesOn DEF Inspect, lockVars, durable
<1> QED
  BY <1>1, <1>2, <1>3 DEF Inspect

LEMMA TakeOverIInv == ASSUME IInv, NEW q \in Requests, TakeOver(q) PROVE IInv'
<1>1. lock.run = saw[q] => ~lock.fresh
  BY DEF TakeOver, IInv, CallKnows, KnowsBlob
<1> QED
  BY <1>1, AdmitIInv DEF TakeOver, IInv, TypeOK
-----------------------------------------------------------------------------
(* The dispatch of the training, and the receipt that records it.           *)

(* A run that starts was nobody's but the call's.                           *)
LEMMA JobStarts ==
    ASSUME IInv, NEW q \in Requests, pc[q] = "spawn", job' = [job EXCEPT ![own[q]] = "running"],
           UNCHANGED misread
    PROVE  /\ JobsAdvance /\ job' \in [Runs -> Outcomes \cup {"none", "running", "ended"}]
           /\ own[q] \in Runs /\ job[own[q]] = "none" /\ job'[own[q]] = "running"
           /\ \A r \in Runs \ {own[q]} : job'[r] = job[r]
<1>1. own[q] \in Runs /\ job[own[q]] = "none"
  BY DEF IInv, TypeOK, CallKnows, KnowsOwn, Runs
<1> QED
  BY <1>1 DEF IInv, TypeOK, JobsAdvance

LEMMA SpawnIInv == ASSUME IInv, NEW q \in Requests, Spawn(q) PROVE IInv'
<1>1. /\ OnlyMove({q}) /\ seen'[q] = seen[q] /\ own'[q] = own[q] /\ pc'[q] = "write"
      /\ UNCHANGED <<lockVars, durable, seen, own, saw, unowned, misread, faults>>
  BY DEF IInv, TypeOK, OnlyMove, Spawn, Goto
<1>2. /\ JobsAdvance /\ job' \in [Runs -> Outcomes \cup {"none", "running", "ended"}]
      /\ own[q] \in Runs /\ job[own[q]] = "none" /\ job'[own[q]] = "running"
      /\ \A r \in Runs \ {own[q]} : job'[r] = job[r]
  BY JobStarts DEF Spawn
<1>3. TypeOK'
  BY <1>1, <1>2 DEF IInv, TypeOK, Spawn, Goto, lockVars, durable
<1>4. Stored'
  <2>1. \A r \in Running' : Holds(r)'
    BY <1>1, <1>2 DEF IInv, Stored, CallKnows, KnowsOwn, Running, Holds, Spawn, lockVars
  <2> QED
    BY <1>1, <1>2, <2>1, StoredAdvances DEF Stored
<1>5. CallKnows(q)'
  <2>1. seen[q] \in Receipts /\ seen[q].run \in 0..MaxRuns
    BY DEF IInv, TypeOK, Receipts
  <2>2. Truthful(seen[q])'
    BY <1>1, <1>2, <2>1, TruthStays DEF IInv, CallKnows, KnowsCopy, Truthful
  <2>3. seen[q].run # 0 => Over(seen[q].run)'
    BY <1>1, <1>2, <2>1 DEF IInv, CallKnows, KnowsCopy, Starting, Over, Ended, Outcomes, JobsAdvance, Spawn, Runs
  <2> QED
    BY <1>1, <1>2, <2>2, <2>3 DEF IInv, CallKnows, KnowsCopy, KnowsOwn, KnowsBlob, Examined, Starting, Spawn
<1>6. ASSUME NEW w \in Requests \ {q}
      PROVE  /\ pc[w] = "spawn" => job'[own[w]] = job[own[w]] /\ Holds(own[w])'
             /\ pc[w] = "takeover" /\ lock'.run = saw[w] => ~lock'.fresh
  <2>1. own[w] # own[q] /\ own'[w] = own[w] /\ own[w] \in 0..MaxRuns
    BY <1>1, <1>2, FullFitAssumption DEF IInv, TypeOK, RunsApart, OnlyMove, Runs
  <2> QED
    BY <1>1, <1>2, <2>1 DEF IInv, CallKnows, KnowsOwn, KnowsBlob, Holds, lockVars, Runs
<1> QED
  BY <1>1, <1>2, <1>3, <1>4, <1>5, <1>6, CallsMove DEF durable

LEMMA SpawnFailsIInv == ASSUME IInv, NEW q \in Requests, SpawnFails(q) PROVE IInv'
<1>1. own[q] \in Runs /\ job[own[q]] = "none" /\ own[q] # 0
  BY DEF SpawnFails, IInv, TypeOK, CallKnows, KnowsOwn, Runs
<1>2. /\ lock' \in [run : 0..MaxRuns, fresh : BOOLEAN] /\ cache' \in [Instances -> 0..MaxRuns]
      /\ lock' = lock \/ (lock.run \in {0, own[q]} /\ lock'.run = 0)
  BY <1>1, ReleaseKeeps DEF SpawnFails
<1>3. /\ JobsAdvance /\ job' \in [Runs -> Outcomes \cup {"none", "running", "ended"}]
      /\ \A r \in Runs \ {own[q]} : job'[r] = job[r]
      /\ unowned \subseteq unowned' /\ unowned' \subseteq Runs
      /\ job'[own[q]] = "running" => own[q] \in unowned'
  <2>1. CASE UNCHANGED <<job, unowned>>
    BY <1>1, <2>1 DEF JobsAdvance, IInv, TypeOK, SpawnFails
  <2>2. CASE job' = [job EXCEPT ![own[q]] = "running"] /\ unowned' = unowned \cup {own[q]}
    BY <1>1, <2>2, JobStarts DEF SpawnFails, IInv, TypeOK
  <2> QED
    BY <2>1, <2>2 DEF SpawnFails
<1>4. TypeOK'
  <2>1. faults' \in 0..MaxFaults
    BY FullFitAssumption DEF SpawnFails, Fault, IInv, TypeOK
  <2> QED
    BY <1>2, <1>3, <2>1, Returned DEF IInv, TypeOK, SpawnFails, durable
<1>5. \A r \in Runs : r # own[q] /\ Holds(r) => r \in unowned' \cup misread' \/ lock' = [run |-> r, fresh |-> TRUE]
  <2> SUFFICES ASSUME NEW r \in Runs, r # own[q], lock = [run |-> r, fresh |-> TRUE]
               PROVE  lock' = lock
    BY <1>3 DEF Holds, SpawnFails
  <2>1. lock.run = r /\ r # 0
    BY FullFitAssumption DEF Runs
  <2> QED
    BY <1>2, <2>1
<1>6. Stored'
  <2>1. \A r \in Running' : Holds(r)'
    BY <1>1, <1>3, <1>5 DEF IInv, Stored, Running, Holds
  <2> QED
    BY <1>3, <2>1, StoredAdvances DEF Stored, SpawnFails
<1>7. OnlyMove({q}) /\ CallKnows(q)' /\ own'[q] = 0
  BY Returned DEF SpawnFails
<1>8. ASSUME NEW w \in Requests \ {q}
      PROVE  /\ pc[w] = "spawn" => job'[own[w]] = job[own[w]] /\ Holds(own[w])'
             /\ pc[w] = "takeover" /\ lock'.run = saw[w] => ~lock'.fresh
  <2>1. own[w] # own[q] /\ own'[w] = own[w] /\ own[w] \in 0..MaxRuns
    BY <1>1, <1>7 DEF IInv, TypeOK, RunsApart, OnlyMove
  <2>2. pc[w] = "spawn" => job'[own[w]] = job[own[w]] /\ Holds(own[w])'
    BY <1>3, <1>5, <2>1 DEF IInv, CallKnows, KnowsOwn, Holds, Runs
  <2>3. pc[w] = "takeover" /\ lock'.run = saw[w] => ~lock'.fresh
    BY <1>2 DEF IInv, CallKnows, KnowsBlob
  <2> QED
    BY <2>2, <2>3
<1> QED
  BY <1>3, <1>4, <1>6, <1>7, <1>8, CallsMove DEF SpawnFails, durable

LEMMA WriteReceiptIInv == ASSUME IInv, NEW q \in Requests, WriteReceipt(q) PROVE IInv'
<1>1. /\ own[q] \in Runs /\ job[own[q]] # "none" /\ seen[q] \in Receipts /\ own[q] # 0 /\ own[q] \in 0..MaxRuns
      /\ seen[q].run # 0 => seen[q].attempt < MaxAttempts
  BY DEF WriteReceipt, IInv, TypeOK, CallKnows, KnowsCopy, KnowsOwn, Starting, Runs
<1>2. seen[q].attempt + 1 \in 0..MaxAttempts /\ seen[q].attempt + 1 # 0
  BY <1>1, FullFitAssumption DEF Receipts
<1>3. receipt' \in Receipts /\ Truthful(receipt)' /\ ~Final(receipt')
  BY <1>1, <1>2 DEF WriteReceipt, Receipts, Truthful, Final
<1>4. TypeOK'
  BY <1>3, Returned DEF IInv, TypeOK, WriteReceipt, lockVars
<1>5. Stored'
  BY <1>3 DEF IInv, Stored, RecordsTruthful, Over, Ended, VerdictIsEarned, Running, Holds, WriteReceipt, lockVars, Final
<1> QED
  BY <1>4, <1>5, Returned, CallGoesOn DEF WriteReceipt, lockVars
-----------------------------------------------------------------------------
(* The job, time and deaths.                                                *)
LEMMA FinishIInv == ASSUME IInv, NEW r \in Runs, Finish(r) PROVE IInv'
<1>1. job' = [job EXCEPT ![r] = "ended"] /\ misread' = misread \ {r}
  BY DEF Finish
<1>2. JobsAdvance /\ job'[r] = "ended"
  BY <1>1 DEF JobsAdvance, Finish, IInv, TypeOK
<1>3. TypeOK'
  BY <1>1 DEF IInv, TypeOK, Finish, lockVars, durable, callVars
<1>4. Stored'
  <2>1. \A t \in Running' : Holds(t)'
    BY <1>1, <1>2 DEF IInv, TypeOK, Stored, Running, Holds, Finish, lockVars
  <2> QED
    BY <1>2, <2>1, StoredAdvances DEF Stored, Finish
<1>5. ASSUME NEW w \in Requests, pc[w] = "spawn" PROVE job'[own[w]] = job[own[w]] /\ Holds(own[w])'
  <2>1. own[w] # r /\ own'[w] = own[w]
    BY <1>5 DEF IInv, CallKnows, KnowsOwn, Finish, callVars
  <2> QED
    BY <1>1, <1>5, <2>1 DEF IInv, TypeOK, CallKnows, KnowsOwn, Holds, Finish, lockVars
<1>6. ASSUME NEW w \in Requests, pc[w] = "takeover", lock'.run = saw[w] PROVE ~lock'.fresh
  BY <1>6 DEF IInv, CallKnows, KnowsBlob, Finish, lockVars
<1> QED
  <2>1. {} \in SUBSET Requests /\ OnlyMove({})
    BY DEF OnlyMove, Finish, callVars
  <2> QED
    BY <1>2, <1>3, <1>4, <1>5, <1>6, <2>1, CallsMove DEF Finish, durable

LEMMA LapseIInv == ASSUME IInv, NEW r \in Runs, Lapse(r) PROVE IInv'
<1>1. \A t \in Runs : t # r /\ Holds(t) => t \in unowned' \cup misread' \/ lock' = [run |-> t, fresh |-> TRUE]
  <2> SUFFICES ASSUME NEW t \in Runs, t # r, lock = [run |-> t, fresh |-> TRUE] PROVE lock' = lock
    BY DEF Holds, Lapse
  <2>1. lock.run = t
    OBVIOUS
  <2> QED
    BY <2>1 DEF Lapse
<1>2. TypeOK'
  <2>1. lock' \in [run : 0..MaxRuns, fresh : BOOLEAN]
    <3>1. lock \in [run : 0..MaxRuns, fresh : BOOLEAN]
      BY DEF IInv, TypeOK
    <3>2. [lock EXCEPT !.fresh = FALSE] \in [run : 0..MaxRuns, fresh : BOOLEAN]
      BY <3>1
    <3> QED
      BY <3>1, <3>2 DEF Lapse
  <2>2. cache' \in [Instances -> 0..MaxRuns]
    BY FullFitAssumption DEF IInv, TypeOK, Lapse
  <2> QED
    BY <2>1, <2>2 DEF IInv, TypeOK, Lapse, durable, callVars
<1>3. JobsAdvance
  BY DEF JobsAdvance, Lapse
<1>4. Stored'
  <2>1. \A t \in Running' : Holds(t)'
    BY <1>1 DEF IInv, Stored, Running, Holds, Lapse
  <2> QED
    BY <1>3, <2>1, StoredAdvances DEF Stored, Lapse
<1>5. ASSUME NEW w \in Requests, pc[w] = "spawn" PROVE job'[own[w]] = job[own[w]] /\ Holds(own[w])'
  <2>1. own[w] # r /\ own'[w] = own[w] /\ own[w] \in Runs
    BY <1>5 DEF IInv, TypeOK, CallKnows, KnowsOwn, Lapse, callVars, Runs
  <2> QED
    BY <1>1, <1>5, <2>1 DEF IInv, CallKnows, KnowsOwn, Holds, Lapse
<1>6. ASSUME NEW w \in Requests, pc[w] = "takeover", lock'.run = saw[w] PROVE ~lock'.fresh
  BY <1>6 DEF IInv, TypeOK, CallKnows, KnowsBlob, Lapse
<1> QED
  <2>1. {} \in SUBSET Requests /\ OnlyMove({})
    BY DEF OnlyMove, Lapse, callVars
  <2> QED
    BY <1>2, <1>3, <1>4, <1>5, <1>6, <2>1, CallsMove DEF Lapse, durable

LEMMA DiesIInv ==
    ASSUME IInv, NEW Q \in SUBSET Requests, Dies(Q), cache' \in [Instances -> 0..MaxRuns]
    PROVE  IInv'
<1>1. TypeOK'
  <2>1. NoReceipt \in Receipts /\ 0 \in 0..MaxRuns /\ faults' \in 0..MaxFaults
    BY FullFitAssumption DEF NoReceipt, Receipts, Dies, Fault, IInv, TypeOK
  <2> QED
    BY <2>1 DEF IInv, TypeOK, Dies, durable
<1>2. JobsAdvance
  BY DEF JobsAdvance, Dies
<1>3. Stored'
  <2>1. \A t \in Running' : Holds(t)'
    BY DEF IInv, Stored, Running, Holds, Dies
  <2> QED
    BY <1>2, <2>1, StoredAdvances DEF Stored, Dies
<1>4. OnlyMove(Q)
  BY DEF OnlyMove, Dies
<1>5. \A q \in Q : CallKnows(q)' /\ own'[q] = 0
  BY DEF Dies, CallKnows, KnowsCopy, KnowsOwn, KnowsBlob, Truthful, Final, NoReceipt, Examined, Starting
<1>6. \A w \in Requests \ Q :
        /\ pc[w] = "spawn" => job'[own[w]] = job[own[w]] /\ Holds(own[w])'
        /\ pc[w] = "takeover" /\ lock'.run = saw[w] => ~lock'.fresh
  BY <1>4 DEF Dies, OnlyMove, IInv, CallKnows, KnowsOwn, KnowsBlob, Holds
<1> QED
  BY <1>1, <1>2, <1>3, <1>4, <1>5, <1>6, CallsMove DEF Dies, durable

LEMMA AbortIInv == ASSUME IInv, NEW q \in Requests, Abort(q) PROVE IInv'
BY DiesIInv DEF Abort, IInv, TypeOK

LEMMA RestartIInv == ASSUME IInv, NEW i \in Instances, Restart(i) PROVE IInv'
<1>1. cache' \in [Instances -> 0..MaxRuns]
  BY FullFitAssumption DEF Restart, IInv, TypeOK
<1> QED
  BY <1>1, DiesIInv DEF Restart
-----------------------------------------------------------------------------
LEMMA StepIInv == IInv /\ [Next]_vars => IInv'
<1> SUFFICES ASSUME IInv, [Next]_vars PROVE IInv'
  OBVIOUS
<1>1. ASSUME NEW q \in Requests, Call(q) PROVE IInv'
  BY <1>1, ReadIInv, RegisteredIInv, AlreadyTerminalIInv, PollPendingIInv, PollCompletedIInv, PollFailedIInv,
     SettleIInv, RepairIInv, ConcludeIInv, SkipOnCacheIInv, CreateIInv, CreateFailsIInv, InspectIInv,
     TakeOverIInv, SpawnIInv, SpawnFailsIInv, WriteReceiptIInv DEF Call
<1>2. CASE UNCHANGED vars
  <2>1. TypeOK' /\ Stored' /\ RunsApart'
    BY <1>2 DEF vars, lockVars, durable, callVars, IInv, TypeOK, Stored, Truthful, RecordsTruthful, Over, Ended,
       VerdictIsEarned, Running, Holds, RunsApart
  <2>2. \A q \in Requests : CallKnows(q)'
    BY <1>2 DEF vars, lockVars, durable, callVars, IInv, CallKnows, KnowsCopy, KnowsOwn, KnowsBlob, Truthful,
       Over, Ended, Holds
  <2> QED
    BY <2>1, <2>2 DEF IInv
<1> QED
  BY <1>1, <1>2, FinishIInv, LapseIInv, AbortIInv, RestartIInv DEF Next

LEMMA IInvariance == Spec => []IInv
<1> QED
  BY InitIInv, StepIInv, PTL DEF Spec

(* The variables stay in their ranges: no receipt counts more attempts than *)
(* MaxAttempts, and one that names a run counts its attempt.                *)
THEOREM TypeCorrect == Spec => []TypeOK
<1>1. IInv => TypeOK
  BY DEF IInv
<1> QED
  BY <1>1, IInvariance, PTL

(* A training admitted with the lock keeps its blob until it ends or a poll *)
(* of it throws.                                                            *)
THEOREM TrainingKeepsItsLockHolds == Spec => []TrainingKeepsItsLock
<1>1. IInv => TrainingKeepsItsLock
  BY DEF IInv, Stored, Holds, TrainingKeepsItsLock
<1> QED
  BY <1>1, IInvariance, PTL

(* Only a run that delivered every model is called completed or blocked.    *)
THEOREM VerdictEarned == Spec => []VerdictIsEarned
<1>1. IInv => VerdictIsEarned
  BY DEF IInv, Stored
<1> QED
  BY <1>1, IInvariance, PTL

(* A call replaces only a training that is over, or whose poll threw, and   *)
(* that leaves an attempt.                                                  *)
THEOREM ReplacementDue == Spec => []ReplacementIsDue
<1>1. IInv => ReplacementIsDue
  BY DEF IInv, CallKnows, KnowsCopy, Starting, Over, Ended, Outcomes, Running, ReplacementIsDue
<1> QED
  BY <1>1, IInvariance, PTL
=============================================================================
