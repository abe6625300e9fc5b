--------------------------- MODULE PrepBatchProofs ---------------------------
(***************************************************************************)
(* The claim of a feature batch fences its preparations, for any number of *)
(* dispatchers, calls, restarts and faults.  The generation of the claim   *)
(* counts the computations, and a start that read the claim at the present *)
(* generation read its present owner; so a take-over by compare-and-swap   *)
(* on the generation replaces an owner that is known to have ended.        *)
(***************************************************************************)
EXTENDS PrepBatch, FiniteSetTheorems, TLAPS

(* Each generation is one computation.                                      *)
GenerationsAreComputations == computed = claim.gen

(* What a start has read of the claim is no newer than the claim, and of    *)
(* one generation there is one claim.                                       *)
ReadIsNoNewer ==
    \A s \in Starts : /\ saw[s].gen <= claim.gen
                      /\ saw[s].gen = claim.gen => saw[s] = claim
                      /\ saw[s].gen # 0 => saw[s].owner \in Calls

(* A start that may take over has found the claim its own, or its owner     *)
(* ended, and an attempt left.                                              *)
TakerMayTake ==
    \A s \in Starts : pc[s] = "take" =>
        /\ saw[s].owner = s[1] \/ Finished(saw[s].owner)
        /\ saw[s].gen # 0 /\ saw[s].gen < MaxAttempts
ReaderHasRead == \A s \in Starts : pc[s] \in {"reread", "owner"} => saw[s].gen # 0
ClaimIsNumbered == IF claim.gen = 0 THEN claim = NoClaim ELSE claim.owner \in Calls

(* A call that computes, in its latest start, owns the claim.               *)
ComputerOwns == \A c \in Computing : claim.owner = c

(* A dispatcher at work has an attempt left.                                *)
DispatcherMaySpawn == \A d \in Dispatchers : dpc[d] # "idle" => dsaw[d].attempt < MaxAttempts

IInv ==
    /\ TypeOK /\ GenerationsAreComputations /\ ReadIsNoNewer /\ TakerMayTake /\ ReaderHasRead
    /\ ClaimIsNumbered /\ ComputerOwns /\ DispatcherMaySpawn
-----------------------------------------------------------------------------
LEMMA InitIInv == Init => IInv
<1> SUFFICES ASSUME Init PROVE IInv
  OBVIOUS
<1>1. TypeOK
  <2>1. NoClaim \in Claims /\ NoReceipt \in Receipts /\ 0 \in 0..MaxCalls /\ 0 \in 0..MaxStarts
        /\ 0 \in 0..MaxFaults
    BY PrepBatchAssumption DEF NoClaim, NoReceipt, Claims, Receipts
  <2> QED
    BY <2>1 DEF Init, TypeOK
<1>2. Computing = {}
  BY DEF Init, Computing
<1> QED
  BY <1>1, <1>2 DEF Init, IInv, GenerationsAreComputations, ReadIsNoNewer, TakerMayTake, ReaderHasRead,
     ClaimIsNumbered, ComputerOwns, DispatcherMaySpawn, NoClaim

(* Where the claim, the calls' starts and what they do stay as they are,    *)
(* only a dispatcher's part can break.                                      *)
LEMMA DispatcherStep ==
    ASSUME IInv, UNCHANGED <<claim, modal>>, TypeOK', DispatcherMaySpawn'
    PROVE  IInv'
BY DEF IInv, modal, GenerationsAreComputations, ReadIsNoNewer, TakerMayTake, ReaderHasRead,
       ClaimIsNumbered, ComputerOwns, Computing, Finished, Latest, Starts, Calls

LEMMA LookIInv == ASSUME IInv, NEW d \in Dispatchers, Look(d) PROVE IInv'
<1>1. TypeOK'
  BY DEF IInv, TypeOK, Look, store, modal
<1>2. DispatcherMaySpawn'
  BY PrepBatchAssumption DEF IInv, TypeOK, DispatcherMaySpawn, Look, store, modal, Receipts
<1> QED
  BY <1>1, <1>2, DispatcherStep DEF Look, store

LEMMA ReturnIInv ==
    ASSUME IInv, NEW d \in Dispatchers, DispatcherReturns(d), UNCHANGED <<claim, result, modal>>,
           receipt' \in Receipts, faults' \in 0..MaxFaults
    PROVE  IInv'
<1>1. TypeOK'
  BY PrepBatchAssumption DEF IInv, TypeOK, DispatcherReturns, modal, NoReceipt, Receipts
<1>2. DispatcherMaySpawn'
  BY DEF IInv, TypeOK, DispatcherMaySpawn, DispatcherReturns
<1> QED
  BY <1>1, <1>2, DispatcherStep

LEMMA SaveIInv == ASSUME IInv, NEW d \in Dispatchers, Save(d) PROVE IInv'
<1>1. dsaw[d].attempt + 1 \in 0..MaxAttempts /\ dcall[d] \in 0..MaxCalls
  BY PrepBatchAssumption DEF IInv, TypeOK, DispatcherMaySpawn, Save, Receipts
<1>2. receipt' \in Receipts
  BY <1>1 DEF IInv, TypeOK, Save, Receipts
<1> QED
  BY <1>2, ReturnIInv DEF Save, IInv, TypeOK

LEMMA DispatcherDiesIInv == ASSUME IInv, NEW d \in Dispatchers, DispatcherDies(d) PROVE IInv'
<1>1. faults' \in 0..MaxFaults
  BY PrepBatchAssumption DEF IInv, TypeOK, DispatcherDies, Fault
<1> QED
  BY <1>1, ReturnIInv DEF DispatcherDies, IInv, TypeOK, store
-----------------------------------------------------------------------------
(* The latest start of a call.                                              *)
LEMMA LatestIsStart ==
    ASSUME TypeOK, NEW c \in Calls, starts[c] > 0
    PROVE  Latest(c) \in Starts /\ Latest(c)[1] = c
BY PrepBatchAssumption DEF TypeOK, Latest, Starts

(* A start goes on without taking the claim.                                *)
LEMMA StartGoesOn ==
    ASSUME IInv, TypeOK', DispatcherMaySpawn', UNCHANGED <<claim, computed, starts>>,
           NEW s \in Starts, pc[s] # "over", NEW l, NEW v \in {NoClaim, claim, saw[s]},
           pc' = [pc EXCEPT ![s] = l], saw' = [saw EXCEPT ![s] = v],
           l \in {"reread", "owner"} => v.gen # 0,
           l = "take" => /\ v.owner = s[1] \/ Finished(v.owner)
                         /\ v.gen # 0 /\ v.gen < MaxAttempts,
           l \in {"compute", "publish"} => pc[s] \in {"compute", "publish"}
    PROVE  IInv'
<1> USE PrepBatchAssumption
<1>a. /\ pc'[s] = l /\ saw'[s] = v
      /\ \A t \in Starts \ {s} : pc'[t] = pc[t] /\ saw'[t] = saw[t]
  BY DEF IInv, TypeOK
<1>b. \A c \in Calls : Latest(c)' = Latest(c) /\ starts'[c] = starts[c]
  BY DEF Latest
<1>c. \A c \in Calls : starts[c] > 0 => Latest(c) \in Starts /\ Latest(c)[1] = c
  BY LatestIsStart DEF IInv
<1>d. ASSUME NEW c \in Calls, Finished(c)
      PROVE  starts'[c] > 0 /\ pc'[<<c, starts'[c]>>] = "over"
  <2>1. Latest(c) \in Starts /\ pc[Latest(c)] = "over" /\ starts[c] > 0
    BY <1>c, <1>d DEF Finished
  <2> QED
    BY <2>1, <1>a DEF Latest
<1>1. GenerationsAreComputations' /\ ClaimIsNumbered'
  BY DEF IInv, GenerationsAreComputations, ClaimIsNumbered
<1>2. ReadIsNoNewer'
  <2>1. /\ v.gen <= claim.gen
        /\ v.gen = claim.gen => v = claim
        /\ v.gen # 0 => v.owner \in Calls
    BY DEF IInv, TypeOK, Claims, ReadIsNoNewer, ClaimIsNumbered, NoClaim
  <2> QED
    BY <1>a, <2>1 DEF IInv, ReadIsNoNewer
<1>3. TakerMayTake'
  <2> SUFFICES ASSUME NEW t \in Starts, pc'[t] = "take"
               PROVE  /\ \/ saw'[t].owner = t[1]
                         \/ /\ starts'[saw'[t].owner] > 0
                            /\ pc'[<<saw'[t].owner, starts'[saw'[t].owner]>>] = "over"
                      /\ saw'[t].gen # 0 /\ saw'[t].gen < MaxAttempts
    BY DEF TakerMayTake, Finished, Latest
  <2>1. /\ saw'[t].owner = t[1] \/ Finished(saw'[t].owner)
        /\ saw'[t].gen # 0 /\ saw'[t].gen < MaxAttempts
    <3>1. CASE t = s
      BY <1>a, <3>1
    <3>2. CASE t # s
      <4>1. pc[t] = "take" /\ saw'[t] = saw[t]
        BY <1>a, <3>2
      <4> QED
        BY <4>1 DEF IInv, TakerMayTake
    <3> QED
      BY <3>1, <3>2
  <2>2. saw'[t].owner \in Calls
    BY <1>2, <2>1 DEF ReadIsNoNewer
  <2> QED
    BY <1>d, <2>1, <2>2
<1>4. ReaderHasRead'
  BY <1>a DEF IInv, ReaderHasRead
<1>5. ComputerOwns'
  <2> SUFFICES ASSUME NEW c \in Computing' PROVE claim'.owner = c
    BY DEF ComputerOwns
  <2>1. c \in Calls /\ starts[c] > 0 /\ pc'[Latest(c)] \in {"compute", "publish"}
    BY <1>b DEF Computing
  <2>2. pc[Latest(c)] \in {"compute", "publish"}
    BY <1>a, <1>c, <2>1
  <2> QED
    BY <2>1, <2>2 DEF IInv, ComputerOwns, Computing
<1> QED
  BY <1>1, <1>2, <1>3, <1>4, <1>5 DEF IInv

(* A start takes the claim: nobody's, its call's, or that of a call that    *)
(* has ended, and by its next generation.                                   *)
LEMMA OwnsKeeps ==
    ASSUME IInv, NEW s \in Starts, pc[s] \in {"start", "take"}, Owns(s, claim.gen + 1),
           claim.gen < MaxAttempts, UNCHANGED <<receipt, result, starts, dispatch, faults>>,
           claim = NoClaim \/ claim.owner = s[1] \/ (claim.owner \in Calls /\ Finished(claim.owner))
    PROVE  IInv'
<1> USE PrepBatchAssumption
<1>0. s[1] \in Calls /\ claim.gen \in Nat /\ claim \in Claims
  BY DEF IInv, TypeOK, Claims, Starts
<1>a. /\ claim' = [owner |-> s[1], gen |-> claim.gen + 1]
      /\ pc'[s] = "compute" /\ saw'[s] = claim'
      /\ \A t \in Starts \ {s} : pc'[t] = pc[t] /\ saw'[t] = saw[t]
  BY DEF IInv, TypeOK, Owns, Goto
<1>b. claim' \in Claims
  BY <1>0, <1>a DEF Claims, Calls
<1>c. \A c \in Calls : starts[c] > 0 => Latest(c) \in Starts /\ Latest(c)[1] = c
  BY LatestIsStart DEF IInv
<1>d. ASSUME NEW c \in Calls, Finished(c)
      PROVE  starts'[c] > 0 /\ pc'[<<c, starts'[c]>>] = "over"
  <2>1. Latest(c) \in Starts /\ pc[Latest(c)] = "over" /\ starts[c] > 0
    BY <1>c, <1>d DEF Finished
  <2> QED
    BY <2>1, <1>a DEF Latest
<1>1. TypeOK'
  <2>1. computed' \in Nat /\ pc' \in [Starts -> {"off", "start", "reread", "owner", "take", "compute",
                        "publish", "over"}]
    BY DEF IInv, TypeOK, Owns, Goto
  <2>2. saw' \in [Starts -> Claims]
    BY <1>b DEF IInv, TypeOK, Owns
  <2> QED
    BY <1>b, <2>1, <2>2 DEF IInv, TypeOK, dispatch
<1>2. GenerationsAreComputations' /\ ClaimIsNumbered' /\ DispatcherMaySpawn'
  BY <1>0, <1>a DEF IInv, GenerationsAreComputations, ClaimIsNumbered, DispatcherMaySpawn, Owns, dispatch
<1>3. ReadIsNoNewer'
  <2> SUFFICES ASSUME NEW t \in Starts
               PROVE  /\ saw'[t].gen <= claim'.gen
                      /\ saw'[t].gen = claim'.gen => saw'[t] = claim'
                      /\ saw'[t].gen # 0 => saw'[t].owner \in Calls
    BY DEF ReadIsNoNewer
  <2>1. CASE t = s
    BY <2>1, <1>0, <1>a
  <2>2. CASE t # s
    <3>1. saw'[t] = saw[t] /\ saw[t].gen \in Nat
      BY <2>2, <1>a DEF IInv, TypeOK, Claims
    <3> QED
      BY <3>1, <1>0, <1>a DEF IInv, ReadIsNoNewer
  <2> QED
    BY <2>1, <2>2
<1>4. TakerMayTake'
  <2> SUFFICES ASSUME NEW t \in Starts, pc'[t] = "take"
               PROVE  /\ \/ saw'[t].owner = t[1]
                         \/ /\ starts'[saw'[t].owner] > 0
                            /\ pc'[<<saw'[t].owner, starts'[saw'[t].owner]>>] = "over"
                      /\ saw'[t].gen # 0 /\ saw'[t].gen < MaxAttempts
    BY DEF TakerMayTake, Finished, Latest
  <2>1. pc[t] = "take" /\ saw'[t] = saw[t]
    BY <1>a
  <2>2. /\ saw'[t].owner = t[1] \/ Finished(saw'[t].owner)
        /\ saw'[t].gen # 0 /\ saw'[t].gen < MaxAttempts /\ saw'[t].owner \in Calls
    BY <2>1 DEF IInv, TakerMayTake, ReadIsNoNewer
  <2> QED
    BY <1>d, <2>2
<1>5. ReaderHasRead'
  BY <1>a DEF IInv, ReaderHasRead
<1>6. ComputerOwns'
  <2> SUFFICES ASSUME NEW c \in Computing' PROVE c = s[1]
    BY <1>a DEF ComputerOwns
  <2>1. c \in Calls /\ starts[c] > 0 /\ pc'[Latest(c)] \in {"compute", "publish"}
    BY DEF Computing, Latest
  <2>2. CASE Latest(c) = s
    BY <2>1, <2>2, <1>c
  <2>3. CASE Latest(c) # s
    <3>1. pc[Latest(c)] \in {"compute", "publish"}
      BY <2>1, <2>3, <1>a, <1>c
    <3>2. claim.owner = c
      BY <3>1, <2>1 DEF IInv, ComputerOwns, Computing
    <3>3. ~Finished(c) /\ c # 0
      BY <3>1, <2>1 DEF Finished, Calls
    <3> QED
      BY <3>2, <3>3 DEF NoClaim
  <2> QED
    BY <2>2, <2>3
<1> QED
  BY <1>1, <1>2, <1>3, <1>4, <1>5, <1>6 DEF IInv
-----------------------------------------------------------------------------
LEMMA StartIInv == ASSUME IInv, NEW s \in Starts, Start(s) PROVE IInv'
<1> USE PrepBatchAssumption
<1>0. claim \in Claims /\ NoClaim \in Claims /\ saw[s] \in Claims
  BY DEF IInv, TypeOK, Claims, NoClaim
<1>1. CASE result = 0 /\ claim = NoClaim /\ Owns(s, 1)
  <2>1. claim.gen = 0 /\ claim.gen + 1 = 1
    BY <1>1 DEF NoClaim
  <2> QED
    BY <1>1, <2>1, OwnsKeeps DEF Start
<1>2. CASE result # 0 /\ End(s) /\ UNCHANGED <<claim, computed>>
  <2>1. TypeOK' /\ DispatcherMaySpawn'
    BY <1>0, <1>2 DEF Start, End, Goto, IInv, TypeOK, DispatcherMaySpawn, dispatch
  <2> QED
    BY <1>2, <2>1, StartGoesOn DEF Start, End, Goto
<1>3. CASE /\ result = 0 /\ claim # NoClaim /\ saw' = [saw EXCEPT ![s] = claim]
           /\ Goto(s, "reread") /\ UNCHANGED <<claim, computed>>
  <2>1. TypeOK' /\ DispatcherMaySpawn'
    BY <1>0, <1>3 DEF Start, Goto, IInv, TypeOK, DispatcherMaySpawn, dispatch
  <2>2. claim.gen # 0
    BY <1>3 DEF IInv, ClaimIsNumbered
  <2> QED
    BY <1>3, <2>1, <2>2, StartGoesOn DEF Start, Goto
<1> QED
  BY <1>1, <1>2, <1>3 DEF Start

(* An end is a going on.                                                    *)
LEMMA EndIInv ==
    ASSUME IInv, NEW s \in Starts, pc[s] # "over", End(s),
           UNCHANGED <<claim, receipt, starts, computed, dispatch>>,
           result' \in 0..MaxCalls, faults' \in 0..MaxFaults
    PROVE  IInv'
<1>1. NoClaim \in Claims
  BY PrepBatchAssumption DEF Claims, NoClaim
<1>2. TypeOK' /\ DispatcherMaySpawn'
  BY <1>1 DEF End, Goto, IInv, TypeOK, DispatcherMaySpawn, dispatch
<1> QED
  BY <1>2, StartGoesOn DEF End, Goto

LEMMA RereadIInv == ASSUME IInv, NEW s \in Starts, Reread(s) PROVE IInv'
<1>1. CASE End(s)
  BY <1>1, EndIInv DEF Reread, store, IInv, TypeOK
<1>2. CASE Goto(s, "owner") /\ UNCHANGED saw
  <2>1. TypeOK' /\ DispatcherMaySpawn'
    BY <1>2 DEF Reread, Goto, store, IInv, TypeOK, DispatcherMaySpawn, dispatch
  <2>2. saw[s].gen # 0 /\ saw' = [saw EXCEPT ![s] = saw[s]]
    BY <1>2 DEF Reread, IInv, TypeOK, ReaderHasRead
  <2> QED
    BY <1>2, <2>1, <2>2, StartGoesOn DEF Reread, Goto, store
<1> QED
  BY <1>1, <1>2 DEF Reread

LEMMA OwnerIInv == ASSUME IInv, NEW s \in Starts, Owner(s) PROVE IInv'
<1>1. CASE End(s)
  BY <1>1, EndIInv DEF Owner, store, IInv, TypeOK
<1>2. CASE MayTakeOver(s) /\ Goto(s, "take") /\ UNCHANGED saw
  <2>1. TypeOK' /\ DispatcherMaySpawn'
    BY <1>2 DEF Owner, Goto, store, IInv, TypeOK, DispatcherMaySpawn, dispatch
  <2>2. saw[s].gen # 0 /\ saw' = [saw EXCEPT ![s] = saw[s]]
    BY <1>2 DEF Owner, IInv, TypeOK, ReaderHasRead
  <2> QED
    BY <1>2, <2>1, <2>2, StartGoesOn DEF Owner, MayTakeOver, Goto, store
<1> QED
  BY <1>1, <1>2 DEF Owner

LEMMA TakeIInv == ASSUME IInv, NEW s \in Starts, Take(s) PROVE IInv'
<1>1. CASE End(s) /\ UNCHANGED <<claim, computed>>
  BY <1>1, EndIInv DEF Take, IInv, TypeOK
<1>2. CASE claim.gen = saw[s].gen /\ Owns(s, saw[s].gen + 1)
  <2>1. saw[s] = claim
    BY <1>2 DEF IInv, ReadIsNoNewer
  <2>2. /\ claim.owner = s[1] \/ Finished(claim.owner)
        /\ claim.gen < MaxAttempts /\ claim.owner \in Calls
    BY <2>1 DEF Take, IInv, TakerMayTake, ReadIsNoNewer
  <2> QED
    BY <1>2, <2>1, <2>2, OwnsKeeps DEF Take
<1> QED
  BY <1>1, <1>2 DEF Take

LEMMA ComputeIInv == ASSUME IInv, NEW s \in Starts, Compute(s) PROVE IInv'
<1>1. CASE End(s)
  BY <1>1, EndIInv DEF Compute, store, IInv, TypeOK
<1>2. CASE Goto(s, "publish") /\ UNCHANGED saw
  <2>1. TypeOK' /\ DispatcherMaySpawn'
    BY <1>2 DEF Compute, Goto, store, IInv, TypeOK, DispatcherMaySpawn, dispatch
  <2>2. saw' = [saw EXCEPT ![s] = saw[s]]
    BY <1>2 DEF IInv, TypeOK
  <2> QED
    BY <1>2, <2>1, <2>2, StartGoesOn DEF Compute, Goto, store
<1> QED
  BY <1>1, <1>2 DEF Compute

LEMMA PublishIInv == ASSUME IInv, NEW s \in Starts, Publish(s) PROVE IInv'
<1>1. result' \in 0..MaxCalls
  BY PrepBatchAssumption DEF Publish, IInv, TypeOK, Starts, Calls
<1> QED
  BY <1>1, EndIInv DEF Publish, IInv, TypeOK

LEMMA KillIInv == ASSUME IInv, NEW c \in Calls, Kill(c) PROVE IInv'
<1>1. Latest(c) \in Starts /\ pc[Latest(c)] # "over"
  BY LatestIsStart DEF IInv, Kill, Finished
<1>2. result' \in 0..MaxCalls /\ faults' \in 0..MaxFaults
  BY PrepBatchAssumption DEF Kill, Fault, store, IInv, TypeOK
<1> QED
  BY <1>1, <1>2, EndIInv DEF Kill, store
-----------------------------------------------------------------------------
(* A call starts, for the first time or again: nothing that has ended, and  *)
(* no other call, is disturbed.                                             *)
LEMMA CallStarts ==
    ASSUME IInv, TypeOK', DispatcherMaySpawn', UNCHANGED <<claim, computed>>,
           NEW c \in Calls, ~Finished(c), starts[c] + 1 \in 1..MaxStarts,
           starts' = [starts EXCEPT ![c] = @ + 1],
           pc'[<<c, starts[c] + 1>>] = "start",
           saw'[<<c, starts[c] + 1>>] = saw[<<c, starts[c] + 1>>],
           \A t \in Starts \ {<<c, starts[c] + 1>>} :
               \/ pc'[t] = pc[t] /\ saw'[t] = saw[t]
               \/ t[1] = c /\ pc'[t] = "over" /\ saw'[t] = NoClaim
    PROVE  IInv'
<1> USE PrepBatchAssumption
<1> DEFINE n == <<c, starts[c] + 1>>
<1>a. n \in Starts /\ starts'[c] = starts[c] + 1 /\ starts[c] \in Nat
  BY DEF IInv, TypeOK, Starts
<1>b. \A b \in Calls \ {c} : starts'[b] = starts[b]
  BY DEF IInv, TypeOK
<1>c. \A b \in Calls : starts[b] > 0 => Latest(b) \in Starts /\ Latest(b)[1] = b
  BY LatestIsStart DEF IInv
<1>d. ASSUME NEW b \in Calls, Finished(b)
      PROVE  starts'[b] > 0 /\ pc'[<<b, starts'[b]>>] = "over"
  <2>1. b # c /\ starts[b] > 0 /\ pc[Latest(b)] = "over"
    BY <1>d DEF Finished
  <2>2. Latest(b) \in Starts \ {n} /\ Latest(b)[1] = b
    BY <2>1, <1>c
  <2>3. pc'[Latest(b)] = pc[Latest(b)]
    BY <2>1, <2>2
  <2> QED
    BY <2>1, <2>3, <1>b DEF Latest
<1>1. GenerationsAreComputations' /\ ClaimIsNumbered'
  BY DEF IInv, GenerationsAreComputations, ClaimIsNumbered
<1>2. ReadIsNoNewer'
  <2> SUFFICES ASSUME NEW t \in Starts
               PROVE  /\ saw'[t].gen <= claim.gen
                      /\ saw'[t].gen = claim.gen => saw'[t] = claim
                      /\ saw'[t].gen # 0 => saw'[t].owner \in Calls
    BY DEF ReadIsNoNewer
  <2>1. CASE saw'[t] = saw[t]
    BY <2>1 DEF IInv, ReadIsNoNewer
  <2>2. CASE saw'[t] = NoClaim
    BY <2>2 DEF IInv, TypeOK, Claims, ClaimIsNumbered, NoClaim
  <2> QED
    BY <2>1, <2>2
<1>3. TakerMayTake'
  <2> SUFFICES ASSUME NEW t \in Starts, pc'[t] = "take"
               PROVE  /\ \/ saw'[t].owner = t[1]
                         \/ /\ starts'[saw'[t].owner] > 0
                            /\ pc'[<<saw'[t].owner, starts'[saw'[t].owner]>>] = "over"
                      /\ saw'[t].gen # 0 /\ saw'[t].gen < MaxAttempts
    BY DEF TakerMayTake, Finished, Latest
  <2>1. pc[t] = "take" /\ saw'[t] = saw[t]
    OBVIOUS
  <2>2. /\ saw'[t].owner = t[1] \/ Finished(saw'[t].owner)
        /\ saw'[t].gen # 0 /\ saw'[t].gen < MaxAttempts /\ saw'[t].owner \in Calls
    BY <2>1 DEF IInv, TakerMayTake, ReadIsNoNewer
  <2> QED
    BY <1>d, <2>2
<1>4. ReaderHasRead'
  <2> SUFFICES ASSUME NEW t \in Starts, pc'[t] \in {"reread", "owner"} PROVE saw'[t].gen # 0
    BY DEF ReaderHasRead
  <2>1. pc[t] \in {"reread", "owner"} /\ saw'[t] = saw[t]
    OBVIOUS
  <2> QED
    BY <2>1 DEF IInv, ReaderHasRead
<1>5. ComputerOwns'
  <2> SUFFICES ASSUME NEW b \in Computing' PROVE claim.owner = b
    BY DEF ComputerOwns
  <2>1. b \in Calls /\ starts'[b] > 0 /\ pc'[<<b, starts'[b]>>] \in {"compute", "publish"}
    BY DEF Computing, Latest
  <2>2. b # c
    BY <2>1, <1>a
  <2>3. Latest(b) \in Starts \ {n} /\ Latest(b)[1] = b /\ <<b, starts'[b]>> = Latest(b) /\ starts[b] > 0
    BY <2>1, <2>2, <1>b, <1>c DEF Latest
  <2>4. pc[Latest(b)] \in {"compute", "publish"}
    BY <2>1, <2>2, <2>3
  <2> QED
    BY <2>1, <2>3, <2>4 DEF IInv, ComputerOwns, Computing
<1> QED
  BY <1>1, <1>2, <1>3, <1>4, <1>5 DEF IInv

LEMMA SpawnIInv == ASSUME IInv, NEW d \in Dispatchers, Spawn(d) PROVE IInv'
<1> USE PrepBatchAssumption
<1>1. PICK c \in Calls :
          /\ starts[c] = 0 /\ starts' = [starts EXCEPT ![c] = 1]
          /\ pc' = [pc EXCEPT ![<<c, 1>>] = "start"]
          /\ dcall' = [dcall EXCEPT ![d] = c]
  BY DEF Spawn
<1>2. 1 \in 1..MaxStarts /\ <<c, 1>> \in Starts /\ c \in 0..MaxCalls
  BY DEF Starts, Calls
<1>3. TypeOK'
  <2>1. starts' \in [Calls -> 0..MaxStarts] /\ dcall' \in [Dispatchers -> 0..MaxCalls]
    BY <1>1, <1>2 DEF IInv, TypeOK
  <2> QED
    BY <1>1, <1>2, <2>1 DEF IInv, TypeOK, Spawn, store
<1>4. DispatcherMaySpawn'
  BY DEF IInv, TypeOK, DispatcherMaySpawn, Spawn
<1>5. starts' = [starts EXCEPT ![c] = @ + 1] /\ starts[c] + 1 = 1 /\ ~Finished(c)
  BY <1>1 DEF Finished
<1>6. /\ pc'[<<c, starts[c] + 1>>] = "start"
      /\ \A t \in Starts \ {<<c, starts[c] + 1>>} : pc'[t] = pc[t]
      /\ UNCHANGED <<claim, computed, saw>>
  BY <1>1, <1>2, <1>5 DEF IInv, TypeOK, Spawn, store
<1> QED
  BY <1>2, <1>3, <1>4, <1>5, <1>6, CallStarts

LEMMA PreemptIInv == ASSUME IInv, NEW c \in Calls, Preempt(c) PROVE IInv'
<1> USE PrepBatchAssumption
<1> DEFINE n == <<c, starts[c] + 1>>
<1>1. /\ starts[c] \in 1..(MaxStarts - 1) /\ starts[c] + 1 \in 1..MaxStarts
      /\ starts'[c] = starts[c] + 1 /\ n \in Starts /\ NoClaim \in Claims
  BY DEF Preempt, IInv, TypeOK, Starts, Claims, NoClaim
<1>2. Latest(c) \in Starts /\ Latest(c)[1] = c /\ Latest(c) # n
  BY <1>1, LatestIsStart DEF IInv, Latest
<1>3. TypeOK'
  <2>1. starts' \in [Calls -> 0..MaxStarts] /\ faults' \in 0..MaxFaults
    BY <1>1 DEF IInv, TypeOK, Preempt, Fault
  <2>2. /\ pc' \in [Starts -> {"off", "start", "reread", "owner", "take", "compute", "publish", "over"}]
        /\ saw' \in [Starts -> Claims]
    BY <1>1, <1>2 DEF IInv, TypeOK, Preempt
  <2> QED
    BY <2>1, <2>2 DEF IInv, TypeOK, Preempt, store, dispatch
<1>4. DispatcherMaySpawn' /\ UNCHANGED <<claim, computed>> /\ ~Finished(c)
      /\ starts' = [starts EXCEPT ![c] = @ + 1]
  BY DEF IInv, TypeOK, DispatcherMaySpawn, Preempt, dispatch, store
<1>5. pc'[n] = "start" /\ saw'[n] = saw[n]
  BY <1>1, <1>2 DEF IInv, TypeOK, Preempt
<1>6. \A t \in Starts \ {n} :
          \/ pc'[t] = pc[t] /\ saw'[t] = saw[t]
          \/ t[1] = c /\ pc'[t] = "over" /\ saw'[t] = NoClaim
  BY <1>1, <1>2 DEF IInv, TypeOK, Preempt
<1> QED
  BY <1>1, <1>3, <1>4, <1>5, <1>6, CallStarts
-----------------------------------------------------------------------------
LEMMA StepIInv == IInv /\ [Next]_vars => IInv'
<1> SUFFICES ASSUME IInv, [Next]_vars PROVE IInv'
  OBVIOUS
<1>1. ASSUME NEW s \in Starts, Step(s) PROVE IInv'
  BY <1>1, StartIInv, RereadIInv, OwnerIInv, TakeIInv, ComputeIInv, PublishIInv DEF Step
<1>2. ASSUME NEW c \in Calls, Preempt(c) \/ Kill(c) PROVE IInv'
  BY <1>2, PreemptIInv, KillIInv
<1>3. ASSUME NEW d \in Dispatchers, Act(d) \/ DispatcherDies(d) PROVE IInv'
  BY <1>3, LookIInv, SpawnIInv, SaveIInv, DispatcherDiesIInv DEF Act
<1>4. CASE UNCHANGED vars
  <2>1. TypeOK' /\ DispatcherMaySpawn'
    BY <1>4 DEF vars, store, modal, dispatch, IInv, TypeOK, DispatcherMaySpawn
  <2> QED
    BY <1>4, <2>1, DispatcherStep DEF vars, store
<1> QED
  BY <1>1, <1>2, <1>3, <1>4 DEF Next

LEMMA IInvariance == Spec => []IInv
<1> QED
  BY InitIInv, StepIInv, PTL DEF Spec

(* The variables stay in their ranges; in particular nobody makes more      *)
(* attempts than the claim and the receipt can count.                       *)
THEOREM TypeCorrect == Spec => []TypeOK
<1>1. IInv => TypeOK
  BY DEF IInv
<1> QED
  BY <1>1, IInvariance, PTL

(* One call at a time prepares the batch.                                   *)
THEOREM OneComputationHolds == Spec => []OneComputation
<1>1. IInv => OneComputation
  <2> SUFFICES ASSUME IInv PROVE Cardinality(Computing) <= 1
    BY DEF OneComputation
  <2>1. Computing \subseteq {claim.owner}
    BY DEF IInv, ComputerOwns
  <2>2. IsFiniteSet({claim.owner}) /\ Cardinality({claim.owner}) = 1
    BY FS_Singleton
  <2> QED
    BY <2>1, <2>2, FS_Subset
<1> QED
  BY <1>1, IInvariance, PTL

(* A batch is prepared at most MaxAttempts times.                           *)
THEOREM ComputationsBounded == Spec => []ComputationsAreBounded
<1>1. IInv => ComputationsAreBounded
  BY PrepBatchAssumption DEF IInv, TypeOK, Claims, GenerationsAreComputations, ComputationsAreBounded
<1> QED
  BY <1>1, IInvariance, PTL

(* Only the owner of the claim publishes, or a container that lingers after *)
(* its preemption.                                                          *)
THEOREM ResultIsOwnersHolds == Spec => ResultIsOwners
<1>1. IInv /\ [Next]_vars =>
        [result' # result =>
          claim.owner = result' \/ pc'[Latest(result')] = pc[Latest(result')]]_vars
  <2> SUFFICES ASSUME IInv, [Next]_vars, result' # result
               PROVE  claim.owner = result' \/ pc'[Latest(result')] = pc[Latest(result')]
    OBVIOUS
  <2>1. PICK s \in Starts : Publish(s)
    BY DEF Next, Step, Start, Reread, Owner, Take, Compute, Act, Look, Spawn, Save, DispatcherDies,
           Preempt, Kill, vars, store
  <2>2. result' = s[1] /\ s[1] \in Calls /\ UNCHANGED starts
    BY <2>1 DEF Publish, Starts
  <2>3. CASE Latest(s[1]) = s
    <3>1. pc[Latest(s[1])] = "publish" /\ starts[s[1]] > 0
      BY <2>1, <2>3 DEF Publish, Latest, Starts
    <3>2. s[1] \in Computing
      BY <2>2, <3>1 DEF Computing
    <3> QED
      BY <2>2, <3>2 DEF IInv, ComputerOwns
  <2>4. CASE Latest(s[1]) # s
    BY <2>1, <2>2, <2>4 DEF Publish, End, Goto, IInv, TypeOK
  <2> QED
    BY <2>3, <2>4
<1> QED
  BY <1>1, IInvariance, PTL DEF Spec, ResultIsOwners
=============================================================================
