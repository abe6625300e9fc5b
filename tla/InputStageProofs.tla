-------------------------- MODULE InputStageProofs --------------------------
(***************************************************************************)
(* A deferred stage is sealed before it is dispatched, consumed by one job *)
(* and, while claims grow old only when they are abandoned, dispatched     *)
(* once, for any numbers of handlers, batches, jobs and faults.            *)
(***************************************************************************)
EXTENDS InputStage, FiniteSetTheorems, TLAPS

Started(j) == jobs[j] # "none"

(* The jobs that were started are 1 to Newest.                              *)
InOrder(n)  == \A j \in Jobs : Started(j) <=> j <= n
JobsInOrder == Newest \in 0..MaxJobs /\ InOrder(Newest)

(* A job that works on the stage has claimed its consumption.               *)
WorkerConsumes == \A j \in Jobs : jobs[j] \in {"working", "consumed"} => consuming = j

(* How far the inputs are sealed where a handler is.                        *)
HasReceipt == receipt # "none"
Returned   == locked => kept
SealedNow == Complete /\ (kind = "prep" => HasReceipt /\ Returned /\ seal.status # "none")
SealIsReady == seal.status = "ready" => HasReceipt /\ Returned
HandlerHasSealed ==
    \A h \in Handlers :
        /\ pc[h] \in {"seal", "receipt", "release", "sealed"} => Complete /\ kind = "prep"
        /\ pc[h] \in {"receipt", "release", "sealed"} => seal.status # "none"
        /\ pc[h] \in {"release", "sealed"} => HasReceipt
        /\ pc[h] = "sealed" => Returned
        /\ pc[h] \in {"claim", "find", "take", "run", "save"} => SealedNow
JobIsSealed == Newest # 0 => SealedNow

(* A job that a handler or the continuation names has been started.         *)
NamedIsStarted ==
    /\ \A h \in Handlers : pc[h] \in {"observe", "save"} => exec[h] \in 1..Newest
    /\ cont.status = "dispatched" => cont.exec \in 1..Newest

(* While only abandoned claims have grown old: a handler that is about to   *)
(* start a job is alone in this and there is no job yet; one that is about  *)
(* to take a claim over finds it as old as it read it, or taken.            *)
ReadIsNoNewer == \A h \in Handlers : gen[h] <= cont.gen
StarterIsAlone ==
    \A h \in Handlers : pc[h] = "run" =>
        /\ cont.status = "dispatching" /\ ~cont.old /\ Newest = 0
        /\ \A k \in Handlers : pc[k] = "run" => k = h
TakerKnows ==
    \A h \in Handlers : pc[h] \in {"find", "take"} /\ gen[h] = cont.gen =>
        /\ cont.status = "dispatching" /\ cont.old
        /\ pc[h] = "take" => Newest = 0
JobIsClaimed == Newest # 0 => cont.status # "none"
OnlyOneJob   == Newest <= 1
Careful == StarterIsAlone /\ TakerKnows /\ JobIsClaimed /\ OnlyOneJob

(* And a sealer is alone, before the seal is ready and anybody dispatches.  *)
SealerIsAlone ==
    \A h \in Handlers : pc[h] \in {"receipt", "release", "sealed"} =>
        /\ seal.status = "sealing" /\ ~seal.old
        /\ \A k \in Handlers : pc[k] \in {"receipt", "release", "sealed"} => k = h
ReadyToDispatch ==
    kind = "prep" =>
        /\ cont.status # "none" => seal.status = "ready"
        /\ \A h \in Handlers : pc[h] \in {"claim", "find", "take", "run", "save"} => seal.status = "ready"
CarefulSeal == SealerIsAlone /\ ReadyToDispatch

IInv == /\ TypeOK /\ JobsInOrder /\ WorkerConsumes
        /\ SealIsReady /\ HandlerHasSealed /\ JobIsSealed /\ NamedIsStarted
        /\ ReadIsNoNewer /\ (~hasty => Careful) /\ (~hasty => CarefulSeal)
-----------------------------------------------------------------------------
(* The greatest of the numbers 1 to n.                                      *)
LEMMA LastOf ==
    ASSUME NEW n \in Nat
    PROVE  (IF 1..n = {} THEN 0 ELSE CHOOSE j \in 1..n : \A k \in 1..n : k <= j) = n
<1>1. CASE n = 0
  BY <1>1
<1>2. CASE n # 0
  <2>1. n \in 1..n /\ \A k \in 1..n : k <= n
    BY <1>2
  <2>2. \A j \in 1..n : (\A k \in 1..n : k <= j) => j = n
    BY <2>1
  <2> QED
    BY <2>1, <2>2
<1> QED
  BY <1>1, <1>2

LEMMA NewestIsLast ==
    ASSUME NEW n \in 0..MaxJobs, InOrder(n)
    PROVE  Newest = n
<1>1. {j \in Jobs : jobs[j] # "none"} = 1..n /\ n \in Nat
  BY InputStageAssumption DEF InOrder, Started, Jobs
<1> QED
  BY <1>1, LastOf DEF Newest

(* After a step of which the started jobs are 1 to n.                       *)
LEMMA OrderAfter ==
    ASSUME NEW n \in 0..MaxJobs, \A j \in Jobs : Started(j)' <=> j <= n
    PROVE  JobsInOrder' /\ Newest' = n
<1>1. {j \in Jobs : jobs'[j] # "none"} = 1..n /\ n \in Nat
  BY InputStageAssumption DEF Started, Jobs
<1>2. Newest' = n
  BY <1>1, LastOf DEF Newest
<1> QED
  BY <1>2 DEF JobsInOrder, InOrder

LEMMA OrderStays ==
    ASSUME JobsInOrder, \A j \in Jobs : Started(j)' <=> Started(j)
    PROVE  JobsInOrder' /\ Newest' = Newest
<1>1. Newest \in 0..MaxJobs /\ \A j \in Jobs : Started(j)' <=> j <= Newest
  BY DEF JobsInOrder, InOrder
<1> DEFINE n == Newest
<1> HIDE DEF n
<1> QED
  BY <1>1, OrderAfter
-----------------------------------------------------------------------------
LEMMA InitIInv == Init => IInv
<1> SUFFICES ASSUME Init PROVE IInv
  OBVIOUS
<1> USE InputStageAssumption
<1>1. 0 \in 0..MaxJobs /\ 0 \in 0..MaxFaults /\ (kind = "prep") \in BOOLEAN
  OBVIOUS
<1>2. TypeOK
  BY <1>1 DEF Init, TypeOK
<1>3. Newest = 0 /\ JobsInOrder
  <2>1. InOrder(0)
    BY DEF Init, InOrder, Started, Jobs
  <2> QED
    BY <1>1, <2>1, NewestIsLast DEF JobsInOrder
<1> QED
  BY <1>2, <1>3 DEF Init, IInv, WorkerConsumes, SealIsReady, HandlerHasSealed, JobIsSealed,
     NamedIsStarted, ReadIsNoNewer, Careful, StarterIsAlone, TakerKnows, JobIsClaimed, OnlyOneJob,
     CarefulSeal, SealerIsAlone, ReadyToDispatch, Returned, HasReceipt

(* The awaited batches are batches, and a complete stage stays complete.    *)
LEMMA AwaitedAreBatches == TypeOK => Awaited \subseteq Batches
BY InputStageAssumption DEF TypeOK, Awaited

(* A handler goes on, by reading only.                                      *)
LEMMA HandlerMoves ==
    ASSUME IInv, NEW h \in Handlers, UNCHANGED <<storage, cloud, past>>,
           NEW l \in {"idle", "stage", "observe", "ready", "seal", "claim", "find", "take", "save"},
           NEW g \in Nat, NEW e \in 0..MaxJobs,
           pc' = [pc EXCEPT ![h] = l], gen' = [gen EXCEPT ![h] = g], exec' = [exec EXCEPT ![h] = e],
           reported' \in BOOLEAN, faults' \in 0..MaxFaults,
           g <= cont.gen,
           l = "seal" => Complete /\ kind = "prep",
           l \in {"claim", "find", "take", "save"} => SealedNow,
           ~hasty /\ kind = "prep" /\ l \in {"claim", "find", "take", "save"} => seal.status = "ready",
           l \in {"observe", "save"} => e \in 1..Newest,
           ~hasty /\ l \in {"find", "take"} /\ g = cont.gen =>
               cont.status = "dispatching" /\ cont.old /\ (l = "take" => Newest = 0)
    PROVE  IInv'
<1> USE InputStageAssumption
<1>a. /\ pc'[h] = l /\ gen'[h] = g /\ exec'[h] = e
      /\ \A k \in Handlers \ {h} : pc'[k] = pc[k] /\ gen'[k] = gen[k] /\ exec'[k] = exec[k]
  BY DEF IInv, TypeOK
<1>b. /\ Newest' = Newest /\ (Complete' <=> Complete) /\ (SealedNow' <=> SealedNow)
      /\ kind' = kind /\ seal' = seal /\ (HasReceipt' <=> HasReceipt) /\ (Returned' <=> Returned)
      /\ cont' = cont /\ hasty' = hasty
  BY DEF storage, cloud, past, Newest, Complete, SealedNow, Awaited, HasReceipt, Returned
<1>1. TypeOK'
  BY DEF IInv, TypeOK, storage, cloud, past
<1>2. JobsInOrder' /\ WorkerConsumes'
  BY <1>b DEF IInv, JobsInOrder, InOrder, Started, WorkerConsumes, cloud
<1>3. SealIsReady' /\ JobIsSealed'
  BY <1>b DEF IInv, SealIsReady, JobIsSealed
<1>4. HandlerHasSealed'
  BY <1>a, <1>b DEF IInv, HandlerHasSealed
<1>5. NamedIsStarted'
  BY <1>a, <1>b DEF IInv, NamedIsStarted
<1>6. ReadIsNoNewer'
  BY <1>a, <1>b DEF IInv, ReadIsNoNewer
<1>7. ~hasty' => Careful'
  <2> SUFFICES ASSUME ~hasty PROVE Careful'
    BY <1>b
  <2>1. Careful
    BY DEF IInv
  <2>2. StarterIsAlone'
    BY <1>a, <1>b, <2>1 DEF Careful, StarterIsAlone
  <2>3. TakerKnows'
    <3> SUFFICES ASSUME NEW k \in Handlers, pc'[k] \in {"find", "take"}, gen'[k] = cont.gen
                 PROVE  /\ cont.status = "dispatching" /\ cont.old
                        /\ pc'[k] = "take" => Newest = 0
      BY <1>b DEF TakerKnows
    <3>1. CASE k = h
      BY <3>1, <1>a
    <3>2. CASE k # h
      BY <3>2, <1>a, <2>1 DEF Careful, TakerKnows
    <3> QED
      BY <3>1, <3>2
  <2>4. JobIsClaimed' /\ OnlyOneJob'
    BY <1>b, <2>1 DEF Careful, JobIsClaimed, OnlyOneJob
  <2> QED
    BY <2>2, <2>3, <2>4 DEF Careful
<1>8. ~hasty' => CarefulSeal'
  BY <1>a, <1>b DEF IInv, CarefulSeal, SealerIsAlone, ReadyToDispatch
<1> QED
  BY <1>1, <1>2, <1>3, <1>4, <1>5, <1>6, <1>7, <1>8 DEF IInv

LEMMA ReturnIInv ==
    ASSUME IInv, NEW h \in Handlers, Return(h), UNCHANGED <<storage, cloud, past>>,
           reported' \in BOOLEAN, faults' \in 0..MaxFaults
    PROVE  IInv'
<1>1. 0 \in Nat /\ 0 \in 0..MaxJobs /\ 0 <= cont.gen
  BY InputStageAssumption DEF IInv, TypeOK
<1> QED
  BY <1>1, HandlerMoves DEF Return, Goto

LEMMA RaiseIInv ==
    ASSUME IInv, NEW h \in Handlers, Raise(h), UNCHANGED <<storage, cloud, past, faults>>
    PROVE  IInv'
<1>1. reported' \in BOOLEAN /\ faults' \in 0..MaxFaults
  BY DEF Raise, IInv, TypeOK
<1> QED
  BY <1>1, ReturnIInv DEF Raise

(* A handler goes on with what it has read before.                          *)
LEMMA GotoIInv ==
    ASSUME IInv, NEW h \in Handlers, UNCHANGED <<storage, cloud, past, gen, exec, reported, faults>>,
           NEW l \in {"idle", "stage", "ready", "seal", "claim"}, Goto(h, l),
           l = "seal" => Complete /\ kind = "prep",
           l = "claim" => SealedNow /\ (kind = "prep" => seal.status = "ready")
    PROVE  IInv'
<1>1. /\ gen[h] \in Nat /\ exec[h] \in 0..MaxJobs /\ gen[h] <= cont.gen
      /\ gen' = [gen EXCEPT ![h] = gen[h]] /\ exec' = [exec EXCEPT ![h] = exec[h]]
      /\ reported' \in BOOLEAN /\ faults' \in 0..MaxFaults
  BY DEF IInv, TypeOK, ReadIsNoNewer
<1> QED
  BY <1>1, HandlerMoves DEF Goto

LEMMA LookIInv == ASSUME IInv, NEW h \in Handlers, Look(h) PROVE IInv'
<1>1. CASE Goto(h, "stage") /\ UNCHANGED reported
  BY <1>1, GotoIInv DEF Look
<1>2. CASE reported' = TRUE /\ UNCHANGED pc
  <2>1. /\ gen[h] \in Nat /\ exec[h] \in 0..MaxJobs /\ gen[h] <= cont.gen
        /\ gen' = [gen EXCEPT ![h] = gen[h]] /\ exec' = [exec EXCEPT ![h] = exec[h]]
        /\ pc' = [pc EXCEPT ![h] = "idle"]
        /\ reported' \in BOOLEAN /\ faults' \in 0..MaxFaults
    BY <1>2 DEF Look, At, IInv, TypeOK, ReadIsNoNewer
  <2> QED
    BY <2>1, HandlerMoves DEF Look
<1> QED
  BY <1>1, <1>2 DEF Look

LEMMA StageIInv == ASSUME IInv, NEW h \in Handlers, Stage(h) PROVE IInv'
<1>1. reported' \in BOOLEAN /\ faults' \in 0..MaxFaults
  BY DEF Stage, IInv, TypeOK
<1>2. CASE Goto(h, "ready") /\ UNCHANGED <<gen, exec>>
  BY <1>2, GotoIInv DEF Stage
<1>3. CASE Return(h)
  BY <1>1, <1>3, ReturnIInv DEF Stage
<1>4. CASE /\ cont.status = "dispatched"
           /\ exec' = [exec EXCEPT ![h] = cont.exec]
           /\ Goto(h, "observe") /\ UNCHANGED gen
  <2>1. /\ gen[h] \in Nat /\ cont.exec \in 0..MaxJobs /\ gen[h] <= cont.gen
        /\ gen' = [gen EXCEPT ![h] = gen[h]] /\ cont.exec \in 1..Newest
    BY <1>4 DEF IInv, TypeOK, ReadIsNoNewer, NamedIsStarted
  <2> QED
    BY <1>1, <1>4, <2>1, HandlerMoves DEF Stage, Goto
<1> QED
  BY <1>2, <1>3, <1>4 DEF Stage

LEMMA ObserveIInv == ASSUME IInv, NEW h \in Handlers, Observe(h) PROVE IInv'
<1>1. CASE Raise(h)
  BY <1>1, RaiseIInv DEF Observe
<1>2. CASE Return(h) /\ UNCHANGED reported
  BY <1>2, ReturnIInv DEF Observe, IInv, TypeOK
<1> QED
  BY <1>1, <1>2 DEF Observe

LEMMA CalledIInv == ASSUME IInv, NEW h \in Handlers, Called(h) PROVE IInv'
BY GotoIInv DEF Called

LEMMA ReadyIInv == ASSUME IInv, NEW h \in Handlers, Ready(h) PROVE IInv'
<1>1. CASE Raise(h)
  BY <1>1, RaiseIInv DEF Ready
<1>2. CASE Return(h) /\ UNCHANGED reported
  BY <1>2, ReturnIInv DEF Ready, IInv, TypeOK
<1>3. CASE /\ Complete /\ Goto(h, IF kind = "prep" THEN "seal" ELSE "claim")
           /\ UNCHANGED <<gen, exec, reported>>
  <2>1. kind # "prep" => SealedNow
    BY <1>3 DEF SealedNow
  <2>2. CASE kind = "prep"
    BY <1>3, <2>2, GotoIInv DEF Ready
  <2>3. CASE kind # "prep"
    BY <1>3, <2>1, <2>3, GotoIInv DEF Ready
  <2> QED
    BY <2>2, <2>3
<1> QED
  BY <1>1, <1>2, <1>3 DEF Ready

LEMMA FindIInv == ASSUME IInv, NEW h \in Handlers, Find(h) PROVE IInv'
<1>1. /\ Newest \in 0..MaxJobs /\ gen[h] \in Nat /\ gen[h] <= cont.gen /\ SealedNow
      /\ gen' = [gen EXCEPT ![h] = gen[h]] /\ reported' \in BOOLEAN /\ faults' \in 0..MaxFaults
      /\ Newest # 0 => Newest \in 1..Newest
  BY InputStageAssumption DEF Find, At, IInv, TypeOK, JobsInOrder, ReadIsNoNewer, HandlerHasSealed
<1>2. ~hasty /\ gen[h] = cont.gen => cont.status = "dispatching" /\ cont.old
  BY DEF Find, At, IInv, Careful, TakerKnows
<1>3. UNCHANGED <<storage, cloud, past>> /\ exec' = [exec EXCEPT ![h] = Newest]
      /\ pc' = [pc EXCEPT ![h] = IF Newest = 0 THEN "take" ELSE "save"]
  BY DEF Find, Goto
<1>4. ~hasty /\ kind = "prep" => seal.status = "ready"
  BY DEF Find, At, IInv, CarefulSeal, ReadyToDispatch
<1>5. CASE Newest = 0
  BY <1>1, <1>2, <1>3, <1>4, <1>5, HandlerMoves
<1>6. CASE Newest # 0
  BY <1>1, <1>2, <1>3, <1>4, <1>6, HandlerMoves
<1> QED
  BY <1>5, <1>6

LEMMA DieIInv == ASSUME IInv, NEW h \in Handlers, Die(h) PROVE IInv'
<1>1. reported' \in BOOLEAN /\ faults' \in 0..MaxFaults
  BY InputStageAssumption DEF Die, Fault, IInv, TypeOK
<1> QED
  BY <1>1, ReturnIInv DEF Die
-----------------------------------------------------------------------------
(* What was sealed stays sealed.                                            *)
SealGrows ==
    /\ HasReceipt => HasReceipt'
    /\ Returned => Returned'
    /\ seal.status # "none" => seal'.status # "none"

(* A handler goes on with the sealing, or gives it up.                      *)
LEMMA SealerMoves ==
    ASSUME IInv, NEW h \in Handlers, UNCHANGED <<result, cont, cloud, kind, hasty>>,
           NEW l \in {"idle", "receipt", "release", "sealed", "claim"}, Goto(h, l),
           \A k \in Handlers \ {h} : gen'[k] = gen[k] /\ exec'[k] = exec[k],
           gen'[h] \in {0, gen[h]}, TypeOK', SealGrows, SealIsReady',
           Complete, kind = "prep", seal'.status # "none",
           l \in {"release", "sealed", "claim"} => HasReceipt', l \in {"sealed", "claim"} => Returned',
           ~hasty => CarefulSeal'
    PROVE  IInv'
<1>a. pc'[h] = l /\ \A k \in Handlers \ {h} : pc'[k] = pc[k]
  BY DEF IInv, TypeOK, Goto
<1>b. /\ Newest' = Newest /\ (Complete' <=> Complete) /\ (SealedNow => SealedNow')
      /\ kind' = kind /\ cont' = cont /\ hasty' = hasty
  BY DEF cloud, Newest, Complete, SealedNow, Awaited, SealGrows
<1>1. JobsInOrder' /\ WorkerConsumes'
  BY <1>b DEF IInv, JobsInOrder, InOrder, Started, WorkerConsumes, cloud
<1>2. JobIsSealed' /\ NamedIsStarted'
  BY <1>a, <1>b DEF IInv, JobIsSealed, NamedIsStarted
<1>3. ReadIsNoNewer'
  <2> SUFFICES ASSUME NEW k \in Handlers PROVE gen'[k] <= cont.gen
    BY <1>b DEF ReadIsNoNewer
  <2>1. gen'[k] \in {0, gen[k]} /\ gen[k] \in Nat /\ cont.gen \in Nat /\ gen[k] <= cont.gen
    BY DEF IInv, TypeOK, ReadIsNoNewer
  <2> QED
    BY <2>1
<1>4. HandlerHasSealed'
  <2> SUFFICES ASSUME NEW k \in Handlers
               PROVE  /\ pc'[k] \in {"seal", "receipt", "release", "sealed"} => Complete /\ kind = "prep"
                      /\ pc'[k] \in {"receipt", "release", "sealed"} => seal'.status # "none"
                      /\ pc'[k] \in {"release", "sealed"} => HasReceipt'
                      /\ pc'[k] = "sealed" => Returned'
                      /\ pc'[k] \in {"claim", "find", "take", "run", "save"} => SealedNow'
    BY <1>b DEF HandlerHasSealed
  <2>1. CASE k = h
    BY <2>1, <1>a, <1>b DEF SealedNow
  <2>2. CASE k # h
    BY <2>2, <1>a, <1>b DEF IInv, HandlerHasSealed, SealGrows
  <2> QED
    BY <2>1, <2>2
<1>5. ~hasty' => Careful' /\ CarefulSeal'
  <2>1. StarterIsAlone /\ ~hasty => StarterIsAlone'
    BY <1>a, <1>b DEF StarterIsAlone
  <2>2. TakerKnows /\ ~hasty => TakerKnows'
    BY <1>a, <1>b DEF TakerKnows
  <2> QED
    BY <1>b, <2>1, <2>2 DEF IInv, Careful, JobIsClaimed, OnlyOneJob
<1> QED
  BY <1>1, <1>2, <1>3, <1>4, <1>5 DEF IInv

(* A sealer that was alone and moves on without a new seal is still alone.  *)
LEMMA SealerStaysAlone ==
    ASSUME IInv, ~hasty, NEW h \in Handlers, pc[h] \in {"receipt", "release", "sealed"},
           NEW l \in {"idle", "release", "sealed"}, Goto(h, l), UNCHANGED <<seal, cont, kind>>
    PROVE  CarefulSeal'
<1>1. pc'[h] = l /\ \A k \in Handlers \ {h} : pc'[k] = pc[k]
  BY DEF IInv, TypeOK, Goto
<1> QED
  BY <1>1 DEF IInv, CarefulSeal, SealerIsAlone, ReadyToDispatch

LEMMA SealIInv == ASSUME IInv, NEW h \in Handlers, Seal(h) PROVE IInv'
<1>0. Complete /\ kind = "prep"
  BY DEF Seal, At, IInv, HandlerHasSealed
<1>1. CASE /\ seal.status = "none" \/ (seal.status = "sealing" /\ seal.old)
           /\ Sealer(h) /\ UNCHANGED <<gen, exec>>
  <2>1. /\ TypeOK' /\ SealGrows /\ SealIsReady' /\ seal'.status # "none"
    BY <1>1 DEF Seal, Sealer, Goto, IInv, TypeOK, SealGrows, SealIsReady, HasReceipt, Returned, cloud, past
  <2>2. pc'[h] = "receipt" /\ \A k \in Handlers \ {h} : pc'[k] = pc[k]
    BY <1>1 DEF Sealer, Goto, IInv, TypeOK
  <2>3. ~hasty => CarefulSeal'
    <3> SUFFICES ASSUME ~hasty PROVE CarefulSeal'
      OBVIOUS
    <3>1. /\ \A k \in Handlers : pc[k] \notin {"receipt", "release", "sealed"}
          /\ \A k \in Handlers : pc[k] \notin {"claim", "find", "take", "run", "save"}
          /\ cont.status = "none"
      BY <1>0, <1>1 DEF IInv, CarefulSeal, SealerIsAlone, ReadyToDispatch
    <3>2. cont' = cont /\ seal'.status = "sealing" /\ ~seal'.old
      BY <1>1 DEF Seal, Sealer
    <3>3. SealerIsAlone'
      BY <2>2, <3>1, <3>2 DEF SealerIsAlone
    <3>4. ReadyToDispatch'
      BY <2>2, <3>1, <3>2 DEF ReadyToDispatch
    <3> QED
      BY <3>3, <3>4 DEF CarefulSeal
  <2> QED
    BY <1>0, <1>1, <2>1, <2>3, SealerMoves DEF Seal, Sealer, past
<1>2. CASE seal.status = "ready" /\ Goto(h, "claim") /\ UNCHANGED <<seal, gen, exec>>
  <2>1. SealedNow
    BY <1>0, <1>2 DEF IInv, SealIsReady, SealedNow
  <2> QED
    BY <1>2, <2>1, GotoIInv DEF Seal, storage
<1>3. CASE Return(h) /\ UNCHANGED seal
  BY <1>3, ReturnIInv DEF Seal, storage, IInv, TypeOK
<1> QED
  BY <1>1, <1>2, <1>3 DEF Seal

LEMMA WriteReceiptIInv == ASSUME IInv, NEW h \in Handlers, WriteReceipt(h) PROVE IInv'
<1>0. /\ Complete /\ kind = "prep" /\ seal.status # "none" /\ pc[h] = "receipt"
      /\ UNCHANGED <<result, seal, locked, cont, cloud, kind, closed, kept, hasty>>
  BY DEF WriteReceipt, At, IInv, HandlerHasSealed, past
<1>1. faults' \in 0..MaxFaults /\ reported' \in BOOLEAN /\ receipt' \in {"none", "good", "stale"}
  <2>1. faults' \in {faults, faults + 1} /\ (faults' # faults => faults < MaxFaults)
    BY DEF WriteReceipt, Fault
  <2>2. faults' \in 0..MaxFaults
    BY <2>1, InputStageAssumption DEF IInv, TypeOK
  <2>3. reported' \in BOOLEAN /\ receipt' \in {"none", "good", "stale"}
    BY DEF WriteReceipt, Raise, IInv, TypeOK
  <2> QED
    BY <2>2, <2>3
<1>2. SealGrows /\ SealIsReady'
  BY <1>0 DEF WriteReceipt, IInv, TypeOK, SealGrows, SealIsReady, HasReceipt, Returned
<1>3. CASE receipt' = "good" /\ Goto(h, "release") /\ UNCHANGED <<gen, exec>>
  <2>1. TypeOK'
    BY <1>0, <1>1, <1>3 DEF Goto, IInv, TypeOK, cloud
  <2>2. ~hasty => CarefulSeal'
    BY <1>0, <1>3, SealerStaysAlone
  <2>3. HasReceipt'
    BY <1>3 DEF HasReceipt
  <2> QED
    BY <1>0, <1>2, <1>3, <2>1, <2>2, <2>3, SealerMoves
<1>4. CASE Return(h)
  <2>1. TypeOK'
    BY <1>0, <1>1, <1>4, InputStageAssumption DEF Return, Goto, IInv, TypeOK, cloud
  <2>2. ~hasty => CarefulSeal'
    BY <1>0, <1>4, SealerStaysAlone DEF Return
  <2>3. /\ Goto(h, "idle") /\ gen'[h] = 0
        /\ \A k \in Handlers \ {h} : gen'[k] = gen[k] /\ exec'[k] = exec[k]
    BY <1>4 DEF Return, IInv, TypeOK
  <2> QED
    BY <1>0, <1>2, <2>1, <2>2, <2>3, SealerMoves
<1> QED
  BY <1>3, <1>4 DEF WriteReceipt, Raise

LEMMA ReleaseIInv == ASSUME IInv, NEW h \in Handlers, Release(h) PROVE IInv'
<1>0. /\ Complete /\ kind = "prep" /\ seal.status # "none" /\ pc[h] = "release" /\ HasReceipt
      /\ UNCHANGED <<result, seal, receipt, cont, cloud, gen, exec, reported, kind, closed, hasty>>
      /\ Goto(h, "sealed")
  BY DEF Release, At, IInv, HandlerHasSealed
<1>1. /\ faults' \in 0..MaxFaults /\ locked' \in BOOLEAN /\ kept' \in BOOLEAN
      /\ Returned' /\ (HasReceipt' <=> HasReceipt)
  <2>1. faults' \in {faults, faults + 1} /\ (faults' # faults => faults < MaxFaults)
    BY DEF Release, Fault
  <2>2. faults' \in 0..MaxFaults
    BY <2>1, InputStageAssumption DEF IInv, TypeOK
  <2>3. locked' \in BOOLEAN /\ kept' \in BOOLEAN /\ Returned'
    BY DEF Release, IInv, TypeOK, Returned
  <2> QED
    BY <1>0, <2>2, <2>3 DEF HasReceipt
<1>2. SealGrows /\ SealIsReady'
  BY <1>0, <1>1 DEF SealGrows, SealIsReady
<1>3. TypeOK'
  BY <1>0, <1>1 DEF Goto, IInv, TypeOK, cloud
<1>4. ~hasty => CarefulSeal'
  BY <1>0, SealerStaysAlone
<1> QED
  BY <1>0, <1>1, <1>2, <1>3, <1>4, SealerMoves

LEMMA SealedIInv == ASSUME IInv, NEW h \in Handlers, Sealed(h) PROVE IInv'
<1>0. /\ Complete /\ kind = "prep" /\ pc[h] = "sealed" /\ HasReceipt /\ Returned
      /\ UNCHANGED <<result, receipt, locked, cont, cloud, gen, exec, reported, past, faults>>
      /\ Goto(h, "claim") /\ seal' = [status |-> "ready", old |-> FALSE]
  BY DEF Sealed, At, IInv, HandlerHasSealed
<1>1. /\ HasReceipt' /\ Returned' /\ seal'.status = "ready" /\ kind' = kind
  BY <1>0 DEF HasReceipt, Returned, past
<1>2. SealGrows /\ SealIsReady'
  BY <1>1 DEF SealGrows, SealIsReady
<1>3. TypeOK'
  BY <1>0 DEF Goto, IInv, TypeOK, cloud, past
<1>4. ~hasty => CarefulSeal'
  <2>1. pc'[h] = "claim" /\ \A k \in Handlers \ {h} : pc'[k] = pc[k]
    BY <1>0 DEF Goto, IInv, TypeOK
  <2>2. ~hasty => \A k \in Handlers \ {h} : pc[k] \notin {"receipt", "release", "sealed"}
    BY <1>0 DEF IInv, CarefulSeal, SealerIsAlone
  <2> QED
    BY <1>1, <2>1, <2>2 DEF CarefulSeal, SealerIsAlone, ReadyToDispatch
<1> QED
  BY <1>0, <1>1, <1>2, <1>3, <1>4, SealerMoves DEF past
-----------------------------------------------------------------------------
(* A handler writes the continuation: its claim, or the job.                *)
LEMMA ContinuationStays ==
    ASSUME IInv, NEW h \in Handlers, TypeOK', SealedNow, cont'.gen = cont.gen + 1,
           UNCHANGED <<result, seal, receipt, locked, cloud, reported, past, faults>>,
           pc[h] \in {"claim", "take", "save"},
           NEW l \in {"idle", "run"}, pc' = [pc EXCEPT ![h] = l],
           \A k \in Handlers \ {h} : gen'[k] = gen[k] /\ exec'[k] = exec[k],
           gen'[h] \in {0, gen[h]},
           cont'.status = "dispatched" => cont'.exec \in 1..Newest,
           ~hasty' => Careful'
    PROVE  IInv'
<1>a. pc'[h] = l /\ \A k \in Handlers \ {h} : pc'[k] = pc[k]
  BY DEF IInv, TypeOK
<1>b. /\ Newest' = Newest /\ (Complete' <=> Complete) /\ (SealedNow' <=> SealedNow)
      /\ kind' = kind /\ seal' = seal /\ (HasReceipt' <=> HasReceipt) /\ (Returned' <=> Returned)
      /\ hasty' = hasty
  BY DEF cloud, past, Newest, Complete, SealedNow, Awaited, HasReceipt, Returned
<1>1. JobsInOrder' /\ WorkerConsumes' /\ SealIsReady' /\ JobIsSealed'
  BY <1>b DEF IInv, JobsInOrder, InOrder, Started, WorkerConsumes, SealIsReady, JobIsSealed, cloud
<1>2. HandlerHasSealed'
  BY <1>a, <1>b DEF IInv, HandlerHasSealed
<1>3. NamedIsStarted'
  BY <1>a, <1>b DEF IInv, NamedIsStarted
<1>4. ReadIsNoNewer'
  <2> SUFFICES ASSUME NEW k \in Handlers PROVE gen'[k] <= cont.gen + 1
    BY DEF ReadIsNoNewer
  <2>1. gen'[k] \in {0, gen[k]} /\ gen[k] \in Nat /\ cont.gen \in Nat /\ gen[k] <= cont.gen
    BY DEF IInv, TypeOK, ReadIsNoNewer
  <2> QED
    BY <2>1
<1>5. ~hasty' => CarefulSeal'
  BY <1>a, <1>b DEF IInv, CarefulSeal, SealerIsAlone, ReadyToDispatch
<1> QED
  BY <1>1, <1>2, <1>3, <1>4, <1>5 DEF IInv

(* Where the generation moves on, nobody is left that could take over.      *)
LEMMA NobodyTakes ==
    ASSUME IInv, NEW h \in Handlers, cont'.gen = cont.gen + 1, NEW l \in {"idle", "run"},
           pc' = [pc EXCEPT ![h] = l], \A k \in Handlers \ {h} : gen'[k] = gen[k]
    PROVE  TakerKnows'
<1> SUFFICES ASSUME NEW k \in Handlers, pc'[k] \in {"find", "take"}, gen'[k] = cont.gen + 1 PROVE FALSE
  BY DEF TakerKnows
<1>1. k # h
  BY DEF IInv, TypeOK
<1> QED
  BY <1>1 DEF IInv, TypeOK, ReadIsNoNewer

LEMMA ClaimedIInv ==
    ASSUME IInv, NEW h \in Handlers, pc[h] \in {"claim", "take"}, Claimed(h), SealedNow,
           UNCHANGED <<result, seal, receipt, locked, cloud, reported, past, faults>>,
           ~hasty => Newest = 0 /\ ~(cont.status = "dispatching" /\ ~cont.old)
    PROVE  IInv'
<1>1. TypeOK'
  BY InputStageAssumption DEF Claimed, Goto, IInv, TypeOK, cloud, past
<1>2. ~hasty' => Careful'
  <2> SUFFICES ASSUME ~hasty PROVE Careful'
    BY DEF past
  <2>0. Newest' = Newest /\ Newest = 0 /\ cont'.status = "dispatching" /\ ~cont'.old
    BY DEF cloud, Newest, Claimed
  <2>1. StarterIsAlone'
    <3>1. \A k \in Handlers : pc[k] # "run"
      BY DEF IInv, Careful, StarterIsAlone
    <3>2. \A k \in Handlers : pc'[k] = "run" => k = h
      BY <3>1 DEF Claimed, Goto, IInv, TypeOK
    <3> QED
      BY <2>0, <3>2 DEF StarterIsAlone
  <2>2. TakerKnows'
    BY NobodyTakes DEF Claimed, Goto
  <2> QED
    BY <2>0, <2>1, <2>2 DEF Careful, JobIsClaimed, OnlyOneJob
<1> QED
  BY <1>1, <1>2, ContinuationStays DEF Claimed, Goto

LEMMA ClaimIInv == ASSUME IInv, NEW h \in Handlers, Claim(h) PROVE IInv'
<1>0. SealedNow
  BY DEF Claim, At, IInv, HandlerHasSealed
<1>1. CASE cont.status = "none" /\ Claimed(h)
  <2>1. ~hasty => Newest = 0
    BY <1>1 DEF IInv, Careful, JobIsClaimed
  <2> QED
    BY <1>0, <1>1, <2>1, ClaimedIInv DEF Claim, At
<1>2. CASE /\ cont.status = "dispatching" /\ cont.old
           /\ gen' = [gen EXCEPT ![h] = cont.gen]
           /\ Goto(h, "find") /\ UNCHANGED <<cont, exec>>
  <2>1. /\ cont.gen \in Nat /\ cont.gen <= cont.gen /\ exec[h] \in 0..MaxJobs
        /\ exec' = [exec EXCEPT ![h] = exec[h]]
        /\ reported' \in BOOLEAN /\ faults' \in 0..MaxFaults
        /\ UNCHANGED <<storage, cloud, past>>
        /\ (~hasty /\ kind = "prep" => seal.status = "ready")
    BY <1>2 DEF Claim, At, IInv, TypeOK, storage, CarefulSeal, ReadyToDispatch
  <2> QED
    BY <1>0, <1>2, <2>1, HandlerMoves DEF Goto
<1>3. CASE Return(h) /\ UNCHANGED cont
  BY <1>3, ReturnIInv DEF Claim, storage, IInv, TypeOK
<1> QED
  BY <1>1, <1>2, <1>3 DEF Claim

LEMMA TakeIInv == ASSUME IInv, NEW h \in Handlers, Take(h) PROVE IInv'
<1>0. SealedNow
  BY DEF Take, At, IInv, HandlerHasSealed
<1>1. CASE cont.gen = gen[h] /\ Claimed(h)
  <2>1. ~hasty => Newest = 0 /\ cont.old
    BY <1>1 DEF Take, At, IInv, Careful, TakerKnows
  <2> QED
    BY <1>0, <1>1, <2>1, ClaimedIInv DEF Take, At
<1>2. CASE Return(h) /\ UNCHANGED cont
  BY <1>2, ReturnIInv DEF Take, storage, IInv, TypeOK
<1> QED
  BY <1>1, <1>2 DEF Take

LEMMA SaveIInv == ASSUME IInv, NEW h \in Handlers, Save(h) PROVE IInv'
<1>0. SealedNow /\ exec[h] \in 1..Newest /\ Newest # 0
  BY InputStageAssumption DEF Save, At, IInv, HandlerHasSealed, NamedIsStarted, JobsInOrder
<1>1. TypeOK'
  BY InputStageAssumption DEF Save, Return, Goto, IInv, TypeOK, cloud, past
<1>2. /\ gen'[h] = 0 /\ \A k \in Handlers \ {h} : gen'[k] = gen[k] /\ exec'[k] = exec[k]
      /\ cont'.gen = cont.gen + 1 /\ cont'.exec = exec[h] /\ pc' = [pc EXCEPT ![h] = "idle"]
  BY DEF Save, Return, Goto, IInv, TypeOK
<1>3. ~hasty' => Careful'
  <2> SUFFICES ASSUME ~hasty PROVE Careful'
    BY DEF Save, past
  <2>0. Newest' = Newest /\ cont'.status = "dispatched"
    BY DEF Save, cloud, Newest
  <2>1. StarterIsAlone'
    <3>1. \A k \in Handlers : pc[k] # "run"
      BY <1>0 DEF IInv, Careful, StarterIsAlone
    <3>2. \A k \in Handlers : pc'[k] # "run"
      BY <3>1 DEF Save, Return, Goto, IInv, TypeOK
    <3> QED
      BY <3>2 DEF StarterIsAlone
  <2>2. TakerKnows'
    BY <1>2, NobodyTakes
  <2> QED
    BY <2>0, <2>1, <2>2 DEF IInv, Careful, JobIsClaimed, OnlyOneJob
<1> QED
  BY <1>0, <1>1, <1>2, <1>3, ContinuationStays DEF Save, At
-----------------------------------------------------------------------------
LEMMA RunIInv == ASSUME IInv, NEW h \in Handlers, Run(h) PROVE IInv'
<1> USE InputStageAssumption
<1>0. SealedNow
  BY DEF Run, At, IInv, HandlerHasSealed
<1>1. PICK j \in Jobs : /\ j = Newest + 1
                        /\ jobs' = [jobs EXCEPT ![j] = "queued"]
                        /\ exec' = [exec EXCEPT ![h] = j]
  BY DEF Run
<1>2. /\ Newest \in 0..MaxJobs /\ j \in 1..MaxJobs /\ j \in 0..MaxJobs
      /\ \A k \in Jobs : Started(k) <=> k <= Newest
  BY <1>1 DEF IInv, JobsInOrder, InOrder, Jobs
<1>3. TypeOK'
  BY <1>1, <1>2 DEF Run, Goto, IInv, TypeOK, storage, past
<1>4. \A k \in Jobs : Started(k)' <=> k <= j
  <2> SUFFICES ASSUME NEW k \in Jobs PROVE jobs'[k] # "none" <=> k <= j
    BY DEF Started
  <2>1. jobs'[k] = IF k = j THEN "queued" ELSE jobs[k]
    BY <1>1 DEF IInv, TypeOK
  <2>2. k \in Nat
    BY DEF Jobs
  <2> QED
    BY <1>1, <1>2, <2>1, <2>2 DEF Started
<1>5. JobsInOrder' /\ Newest' = j
  BY <1>2, <1>4, OrderAfter
<1>6. WorkerConsumes'
  <2> SUFFICES ASSUME NEW k \in Jobs, jobs'[k] \in {"working", "consumed"} PROVE consuming = k
    BY DEF Run, WorkerConsumes
  <2>1. jobs[k] = jobs'[k]
    BY <1>1 DEF IInv, TypeOK
  <2> QED
    BY <2>1 DEF IInv, WorkerConsumes
<1>a. pc'[h] = "save" /\ exec'[h] = j /\ \A k \in Handlers \ {h} : pc'[k] = pc[k] /\ exec'[k] = exec[k]
  BY <1>1 DEF Run, Goto, IInv, TypeOK
<1>b. /\ (Complete' <=> Complete) /\ (SealedNow' <=> SealedNow) /\ SealedNow'
      /\ kind' = kind /\ seal' = seal /\ (HasReceipt' <=> HasReceipt) /\ (Returned' <=> Returned)
      /\ cont' = cont /\ gen' = gen /\ hasty' = hasty
  BY <1>0 DEF Run, storage, past, Complete, SealedNow, Awaited, HasReceipt, Returned
<1>7. SealIsReady' /\ JobIsSealed' /\ ReadIsNoNewer'
  BY <1>b DEF IInv, SealIsReady, JobIsSealed, ReadIsNoNewer
<1>8. HandlerHasSealed'
  BY <1>a, <1>b DEF IInv, HandlerHasSealed
<1>9. NamedIsStarted'
  <2>1. \A e \in 1..Newest : e \in 1..j
    BY <1>1, <1>2
  <2> QED
    BY <1>1, <1>2, <1>5, <1>a, <1>b, <2>1 DEF IInv, NamedIsStarted
<1>10. ~hasty' => Careful'
  <2> SUFFICES ASSUME ~hasty PROVE Careful'
    BY <1>b
  <2>0. /\ cont.status = "dispatching" /\ ~cont.old /\ Newest = 0
        /\ \A k \in Handlers : pc[k] = "run" => k = h
    BY DEF Run, At, IInv, Careful, StarterIsAlone
  <2>1. StarterIsAlone'
    BY <2>0, <1>a DEF StarterIsAlone
  <2>2. TakerKnows'
    <3>1. \A k \in Handlers : pc[k] \in {"find", "take"} => gen[k] # cont.gen
      BY <2>0 DEF IInv, Careful, TakerKnows
    <3> QED
      BY <3>1, <1>a, <1>b DEF TakerKnows
  <2>3. JobIsClaimed' /\ OnlyOneJob'
    BY <2>0, <1>1, <1>5, <1>b DEF JobIsClaimed, OnlyOneJob
  <2> QED
    BY <2>1, <2>2, <2>3 DEF Careful
<1>11. ~hasty' => CarefulSeal'
  BY <1>a, <1>b DEF Run, At, IInv, CarefulSeal, SealerIsAlone, ReadyToDispatch
<1> QED
  BY <1>3, <1>5, <1>6, <1>7, <1>8, <1>9, <1>10, <1>11 DEF IInv

(* A result cannot arrive after the stage was complete, and before that     *)
(* nobody seals, claims or starts.                                          *)
LEMMA ArriveIInv == ASSUME IInv, NEW b \in Batches, Arrive(b) PROVE IInv'
<1>1. ~Complete
  BY DEF Arrive, Complete
<1>2. /\ Newest = 0 /\ seal' = seal /\ cont' = cont
      /\ \A h \in Handlers : pc[h] \in {"idle", "stage", "observe", "ready"}
  BY <1>1 DEF Arrive, IInv, TypeOK, JobIsSealed, HandlerHasSealed, SealedNow
<1>3. Newest' = Newest /\ pc' = pc /\ gen' = gen /\ exec' = exec /\ jobs' = jobs
  BY DEF Arrive, cloud, handlers, Newest
<1>4. TypeOK'
  BY DEF Arrive, IInv, TypeOK, cloud, handlers, past
<1>5. JobsInOrder' /\ WorkerConsumes' /\ NamedIsStarted' /\ ReadIsNoNewer'
  BY <1>2, <1>3 DEF Arrive, cloud, IInv, JobsInOrder, InOrder, Started, WorkerConsumes,
     NamedIsStarted, ReadIsNoNewer
<1>6. SealIsReady' /\ HandlerHasSealed' /\ JobIsSealed'
  BY <1>2, <1>3 DEF Arrive, past, IInv, SealIsReady, HandlerHasSealed, JobIsSealed, HasReceipt, Returned
<1>7. ~hasty' => Careful' /\ CarefulSeal'
  BY <1>2, <1>3 DEF Arrive, past, IInv, Careful, StarterIsAlone, TakerKnows, JobIsClaimed, OnlyOneJob,
     CarefulSeal, SealerIsAlone, ReadyToDispatch
<1> QED
  BY <1>4, <1>5, <1>6, <1>7 DEF IInv

LEMMA AgeIInv == ASSUME IInv, Age PROVE IInv'
<1>1. /\ TypeOK' /\ seal'.status = seal.status
      /\ cont'.status = cont.status /\ cont'.gen = cont.gen /\ cont'.exec = cont.exec
      /\ (cont.old => cont'.old)
  BY DEF Age, IInv, TypeOK, cloud, handlers
<1>2. /\ Newest' = Newest /\ (Complete' <=> Complete) /\ (SealedNow' <=> SealedNow)
      /\ pc' = pc /\ gen' = gen /\ exec' = exec /\ jobs' = jobs /\ consuming' = consuming
      /\ kind' = kind /\ (HasReceipt' <=> HasReceipt) /\ (Returned' <=> Returned)
  BY <1>1 DEF Age, cloud, handlers, Newest, Complete, SealedNow, Awaited, HasReceipt, Returned
<1>3. JobsInOrder' /\ WorkerConsumes' /\ NamedIsStarted' /\ ReadIsNoNewer'
  BY <1>1, <1>2 DEF IInv, JobsInOrder, InOrder, Started, WorkerConsumes, NamedIsStarted, ReadIsNoNewer
<1>4. SealIsReady' /\ HandlerHasSealed' /\ JobIsSealed'
  BY <1>1, <1>2 DEF IInv, SealIsReady, HandlerHasSealed, JobIsSealed
<1>5. ~hasty' => Careful'
  <2> SUFFICES ASSUME ~hasty' PROVE Careful'
    OBVIOUS
  <2>1. Careful
    BY DEF Age, IInv
  <2>2. cont'.old = cont.old \/ \A h \in Handlers : pc[h] # "run"
    BY DEF Age, Dispatching
  <2>3. StarterIsAlone'
    BY <1>1, <1>2, <2>1, <2>2 DEF Careful, StarterIsAlone
  <2>4. TakerKnows' /\ JobIsClaimed' /\ OnlyOneJob'
    BY <1>1, <1>2, <2>1 DEF Careful, TakerKnows, JobIsClaimed, OnlyOneJob
  <2> QED
    BY <2>3, <2>4 DEF Careful
<1>6. ~hasty' => CarefulSeal'
  <2> SUFFICES ASSUME ~hasty' PROVE CarefulSeal'
    OBVIOUS
  <2>1. CarefulSeal
    BY DEF Age, IInv
  <2>2. seal'.old = seal.old \/ \A h \in Handlers : pc[h] \notin {"receipt", "release", "sealed"}
    BY DEF Age, Sealing
  <2>3. SealerIsAlone'
    BY <1>1, <1>2, <2>1, <2>2 DEF CarefulSeal, SealerIsAlone
  <2>4. ReadyToDispatch'
    BY <1>1, <1>2, <2>1 DEF CarefulSeal, ReadyToDispatch
  <2> QED
    BY <2>3, <2>4 DEF CarefulSeal
<1> QED
  BY <1>1, <1>3, <1>4, <1>5, <1>6 DEF IInv
-----------------------------------------------------------------------------
(* A job goes on; only one that has claimed its consumption works.          *)
LEMMA JobMoves ==
    ASSUME IInv, NEW j \in Jobs, jobs[j] # "none",
           NEW s \in {"working", "consumed", "succeeded", "failed"},
           jobs' = [jobs EXCEPT ![j] = s],
           s \in {"working", "consumed"} => consuming' = j,
           consuming' \in {consuming, j}, consuming' # consuming => consuming = 0,
           consumed' \in BOOLEAN, faults' \in 0..MaxFaults,
           UNCHANGED <<storage, handlers, reported, past>>
    PROVE  IInv'
<1> USE InputStageAssumption
<1>1. /\ (Complete' <=> Complete) /\ (SealedNow' <=> SealedNow)
      /\ seal' = seal /\ (HasReceipt' <=> HasReceipt) /\ (Returned' <=> Returned)
      /\ cont' = cont /\ kind' = kind
      /\ pc' = pc /\ gen' = gen /\ exec' = exec /\ hasty' = hasty
  BY DEF storage, handlers, past, Complete, SealedNow, Awaited, HasReceipt, Returned
<1>2. j \in 0..MaxJobs
  BY DEF Jobs
<1>3. TypeOK'
  BY <1>2 DEF IInv, TypeOK, storage, handlers, past
<1>4. \A k \in Jobs : Started(k)' <=> Started(k)
  BY DEF IInv, TypeOK, Started
<1>5. JobsInOrder' /\ Newest' = Newest
  BY <1>4, OrderStays DEF IInv
<1>6. WorkerConsumes'
  <2> SUFFICES ASSUME NEW k \in Jobs, jobs'[k] \in {"working", "consumed"} PROVE consuming' = k
    BY DEF WorkerConsumes
  <2>1. CASE k = j
    BY <2>1 DEF IInv, TypeOK
  <2>2. CASE k # j
    <3>1. jobs'[k] = jobs[k] /\ consuming = k
      BY <2>2 DEF IInv, TypeOK, WorkerConsumes
    <3>2. k # 0
      BY DEF Jobs
    <3> QED
      BY <3>1, <3>2
  <2> QED
    BY <2>1, <2>2
<1>7. SealIsReady' /\ HandlerHasSealed' /\ JobIsSealed' /\ NamedIsStarted' /\ ReadIsNoNewer'
  BY <1>1, <1>5 DEF IInv, SealIsReady, HandlerHasSealed, JobIsSealed, NamedIsStarted, ReadIsNoNewer
<1>8. ~hasty' => Careful' /\ CarefulSeal'
  BY <1>1, <1>5 DEF IInv, Careful, StarterIsAlone, TakerKnows, JobIsClaimed, OnlyOneJob,
     CarefulSeal, SealerIsAlone, ReadyToDispatch
<1> QED
  BY <1>3, <1>5, <1>6, <1>7, <1>8 DEF IInv

LEMMA BeginIInv == ASSUME IInv, NEW j \in Jobs, Begin(j) PROVE IInv'
<1>1. jobs[j] # "none" /\ consumed' \in BOOLEAN /\ faults' \in 0..MaxFaults
  BY DEF Begin, IInv, TypeOK
<1> QED
  BY <1>1, JobMoves DEF Begin

LEMMA ConsumeIInv == ASSUME IInv, NEW j \in Jobs, Consume(j) PROVE IInv'
<1>1. /\ jobs[j] # "none" /\ consumed' \in BOOLEAN /\ faults' \in 0..MaxFaults
      /\ consuming = j
  BY DEF Consume, IInv, TypeOK, WorkerConsumes
<1> QED
  BY <1>1, JobMoves DEF Consume

LEMMA ExitIInv == ASSUME IInv, NEW j \in Jobs, Exit(j) PROVE IInv'
<1>1. jobs[j] # "none" /\ consumed' \in BOOLEAN /\ faults' \in 0..MaxFaults
  BY DEF Exit, IInv, TypeOK
<1> QED
  BY <1>1, JobMoves DEF Exit

LEMMA CrashIInv == ASSUME IInv, NEW j \in Jobs, Crash(j) PROVE IInv'
<1>1. jobs[j] # "none" /\ consumed' \in BOOLEAN /\ faults' \in 0..MaxFaults
  BY InputStageAssumption DEF Crash, Fault, IInv, TypeOK
<1> QED
  BY <1>1, JobMoves DEF Crash

LEMMA RefuseIInv == ASSUME IInv, NEW j \in Jobs, Refuse(j) PROVE IInv'
<1>1. jobs[j] # "none" /\ consumed' \in BOOLEAN /\ faults' \in 0..MaxFaults
  BY DEF Refuse, IInv, TypeOK
<1> QED
  BY <1>1, JobMoves DEF Refuse

(* Only the window closes.                                                  *)
LEMMA IdleIInv ==
    ASSUME IInv, UNCHANGED <<storage, cloud, handlers, reported, kind, kept, hasty, faults>>,
           closed' \in BOOLEAN
    PROVE  IInv'
<1> USE DEF storage, cloud, handlers
<1>1. /\ Newest' = Newest /\ (Complete' <=> Complete) /\ (SealedNow' <=> SealedNow)
      /\ (HasReceipt' <=> HasReceipt) /\ (Returned' <=> Returned)
  BY DEF Newest, Complete, SealedNow, Awaited, HasReceipt, Returned
<1>2. TypeOK'
  BY DEF IInv, TypeOK
<1>3. JobsInOrder' /\ WorkerConsumes' /\ NamedIsStarted' /\ ReadIsNoNewer'
  BY <1>1 DEF IInv, JobsInOrder, InOrder, Started, WorkerConsumes, NamedIsStarted, ReadIsNoNewer
<1>4. SealIsReady' /\ HandlerHasSealed' /\ JobIsSealed'
  BY <1>1 DEF IInv, SealIsReady, HandlerHasSealed, JobIsSealed
<1>5. ~hasty' => Careful' /\ CarefulSeal'
  BY <1>1 DEF IInv, Careful, StarterIsAlone, TakerKnows, JobIsClaimed, OnlyOneJob,
     CarefulSeal, SealerIsAlone, ReadyToDispatch
<1> QED
  BY <1>2, <1>3, <1>4, <1>5 DEF IInv

LEMMA CloseIInv == ASSUME IInv, Close PROVE IInv'
BY IdleIInv DEF Close

LEMMA DispatchIInv == ASSUME IInv, NEW h \in Handlers, Dispatch(h) PROVE IInv'
BY ReadyIInv, SealIInv, WriteReceiptIInv, ReleaseIInv, SealedIInv, ClaimIInv, FindIInv,
   TakeIInv, RunIInv, SaveIInv DEF Dispatch

LEMMA StepIInv == IInv /\ [Next]_vars => IInv'
<1> SUFFICES ASSUME IInv, [Next]_vars PROVE IInv'
  OBVIOUS
<1>1. CASE \E b \in Batches : Arrive(b)
  BY <1>1, ArriveIInv
<1>2. CASE Age \/ Close
  BY <1>2, AgeIInv, CloseIInv
<1>3. CASE \E h \in Callbacks : Called(h) \/ Dispatch(h)
  BY <1>3, CalledIInv, DispatchIInv DEF Handlers
<1>4. CASE \E h \in Reconcilers : Reconcile(h)
  BY <1>4, LookIInv, StageIInv, ObserveIInv, DispatchIInv DEF Handlers, Reconcile
<1>5. CASE \E h \in Handlers : Die(h)
  BY <1>5, DieIInv
<1>6. CASE \E j \in Jobs : Work(j) \/ Refuse(j) \/ Crash(j)
  BY <1>6, BeginIInv, ConsumeIInv, ExitIInv, RefuseIInv, CrashIInv DEF Work
<1>7. CASE UNCHANGED vars
  BY <1>7, IdleIInv DEF vars, past, IInv, TypeOK
<1> QED
  BY <1>1, <1>2, <1>3, <1>4, <1>5, <1>6, <1>7 DEF Next

THEOREM Invariance == Spec => []IInv
BY InitIInv, StepIInv, PTL DEF Spec
-----------------------------------------------------------------------------
(* Type correctness of the objects, the jobs and the handlers.              *)
THEOREM TypeCorrect == Spec => []TypeOK
<1>1. IInv => TypeOK
  BY DEF IInv
<1> QED
  BY <1>1, Invariance, PTL

(* Only one job ever works on the stage.                                    *)
THEOREM OneConsumerHolds == Spec => []OneConsumer
<1>1. IInv => OneConsumer
  BY DEF IInv, WorkerConsumes, OneConsumer
<1> QED
  BY <1>1, Invariance, PTL

(* No job is started before the inputs are there and sealed, and the lock   *)
(* was given back unless its release failed.                                *)
THEOREM SealedBeforeDispatchHolds == Spec => []SealedBeforeDispatch
<1>1. IInv => SealedBeforeDispatch
  BY DEF IInv, JobIsSealed, SealedNow, HasReceipt, Returned, SealedBeforeDispatch
<1> QED
  BY <1>1, Invariance, PTL

(* While only abandoned claims have grown old, at most one job is started.  *)
THEOREM DispatchedOnceHolds == Spec => []DispatchedOnce
<1>1. IInv => DispatchedOnce
  <2> SUFFICES ASSUME IInv, ~hasty PROVE Cardinality({j \in Jobs : jobs[j] # "none"}) <= 1
    BY DEF DispatchedOnce
  <2> DEFINE S == {j \in Jobs : jobs[j] # "none"}
  <2>1. S \subseteq {1}
    BY InputStageAssumption
       DEF IInv, Careful, OnlyOneJob, JobsInOrder, InOrder, Started, Jobs
  <2>2. IsFiniteSet({1}) /\ Cardinality({1}) = 1
    BY FS_Singleton
  <2>3. IsFiniteSet(S) /\ Cardinality(S) <= 1
    BY <2>1, <2>2, FS_Subset
  <2> QED
    BY <2>3
<1> QED
  BY <1>1, Invariance, PTL

(* While only abandoned claims have grown old, the worker is told of an     *)
(* error only if an input failed or no job waits or works.                  *)
THEOREM WorkIsNotCalledOffHolds == Spec => WorkIsNotCalledOff
<1>1. IInv /\ [Next]_vars =>
        [reported' # reported =>
          hasty \/ Failed \/ \A j \in Jobs : jobs[j] \notin {"queued", "working"}]_vars
  <2> SUFFICES ASSUME IInv, [Next]_vars, reported' # reported, ~hasty
               PROVE  Failed \/ \A j \in Jobs : jobs[j] \notin {"queued", "working"}
    OBVIOUS
  <2>0. /\ Newest \in {0, 1} /\ \A j \in Jobs : jobs[j] # "none" => j = 1 /\ Newest = 1
    BY InputStageAssumption DEF IInv, Careful, OnlyOneJob, JobsInOrder, InOrder, Started, Jobs
  <2>1. ASSUME NEW h \in Handlers, Look(h)
        PROVE  \A j \in Jobs : jobs[j] \notin {"queued", "working"}
    <3>1. Newest # 0 /\ jobs[Newest] = "failed"
      BY <2>1 DEF Look
    <3> QED
      BY <3>1, <2>0
  <2>2. ASSUME NEW h \in Handlers, Observe(h)
        PROVE  \A j \in Jobs : jobs[j] \notin {"queued", "working"}
    <3>1. Over(exec[h]) /\ exec[h] \in 1..Newest
      BY <2>2 DEF Observe, At, IInv, NamedIsStarted
    <3>2. exec[h] = 1
      BY <3>1, <2>0
    <3> QED
      BY <3>1, <3>2, <2>0 DEF Over
  <2>3. ASSUME NEW h \in Handlers, Ready(h) PROVE Failed
    BY <2>3 DEF Ready
  <2>4. ASSUME NEW h \in Handlers, WriteReceipt(h)
        PROVE  \A j \in Jobs : jobs[j] \notin {"queued", "working"}
    <3>1. kind = "prep" /\ seal.status = "sealing"
      BY <2>4 DEF WriteReceipt, At, IInv, HandlerHasSealed, CarefulSeal, SealerIsAlone
    <3>2. cont.status = "none"
      BY <3>1 DEF IInv, CarefulSeal, ReadyToDispatch
    <3>3. Newest = 0
      BY <3>2 DEF IInv, Careful, JobIsClaimed
    <3> QED
      BY <3>3, <2>0
  <2> QED
    BY <2>1, <2>2, <2>3, <2>4 DEF Next, Dispatch, Reconcile, Work, Handlers, Arrive, Age, Stage, Called,
       Seal, Release, Sealed, Claim, Find, Take, Run, Save, Die, Begin, Consume, Exit,
       Crash, Refuse, Close, vars
<1> QED
  BY <1>1, Invariance, PTL DEF Spec, WorkIsNotCalledOff
=============================================================================
