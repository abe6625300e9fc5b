----------------------------- MODULE PrepBatch -----------------------------
(***************************************************************************)
(* One batch of the pipeline's feature preparation: the controllers that   *)
(* dispatch it (_launch_missing_prep, pipeline_input_events.py) and the    *)
(* Modal calls that prepare it (execute_event, pipeline_input_prep.py),    *)
(* which meet in three storage objects: the dispatch receipt, the claim    *)
(* and the result.                                                         *)
(*                                                                         *)
(* Modal starts a preempted call again under the same id: a call has       *)
(* several starts, and <<c, n>> is the n-th start of call c.               *)
(***************************************************************************)
EXTENDS Naturals, FiniteSets

CONSTANTS Dispatchers,   \* the deferring job and the reconcilers
          MaxCalls,      \* bound: calls that can be spawned
          MaxStarts,     \* bound: starts of one call
          MaxAttempts,   \* MAX_PREP_ATTEMPTS, 3 in the code
          MaxFaults      \* bound: preemptions, time-outs and deaths

ASSUME PrepBatchAssumption ==
    /\ MaxCalls \in Nat /\ MaxStarts \in Nat \ {0}
    /\ MaxAttempts \in Nat \ {0} /\ MaxFaults \in Nat

VARIABLES
    claim,       \* the claim object: its owner and its generation, 0 for none
    receipt,     \* the dispatch receipt: its call, attempt and generation
    result,      \* the call whose result is published, 0 for none
    starts,      \* per call: how often Modal has started it
    pc, saw,     \* per start: where it is, and the claim it has read or written
    dpc, dsaw,   \* per dispatcher: where it is, and the receipt it has read
    dcall,       \* per dispatcher: the call it has spawned and not recorded
    exhausted,   \* has a dispatcher given the batch up?
    computed,    \* history: computations begun
    faults

store    == <<claim, receipt, result>>
modal    == <<starts, pc, saw, computed>>
dispatch == <<dpc, dsaw, dcall, exhausted>>
vars     == <<store, modal, dispatch, faults>>

Calls  == 1..MaxCalls
Starts == Calls \X (1..MaxStarts)

\* claim["attempt_count"] and the generation of the claim move together.
Claims   == [owner : 0..MaxCalls, gen : 0..MaxAttempts]
Receipts == [call : 0..MaxCalls, attempt : 0..MaxAttempts]

TypeOK ==
    /\ claim \in Claims /\ receipt \in Receipts /\ result \in 0..MaxCalls
    /\ starts \in [Calls -> 0..MaxStarts]
    /\ pc \in [Starts -> {"off", "start", "reread", "owner", "take", "compute",
                        "publish", "over"}]
    /\ saw \in [Starts -> Claims]
    /\ dpc \in [Dispatchers -> {"idle", "spawn", "save"}]
    /\ dsaw \in [Dispatchers -> Receipts] /\ dcall \in [Dispatchers -> 0..MaxCalls]
    /\ exhausted \in BOOLEAN /\ computed \in Nat
    /\ faults \in 0..MaxFaults

NoClaim   == [owner |-> 0, gen |-> 0]
NoReceipt == [call |-> 0, attempt |-> 0]

Init ==
    /\ claim = NoClaim /\ receipt = NoReceipt /\ result = 0
    /\ starts = [c \in Calls |-> 0]
    /\ pc = [s \in Starts |-> "off"] /\ saw = [s \in Starts |-> NoClaim]
    /\ dpc = [d \in Dispatchers |-> "idle"]
    /\ dsaw = [d \in Dispatchers |-> NoReceipt]
    /\ dcall = [d \in Dispatchers |-> 0]
    /\ exhausted = FALSE /\ computed = 0 /\ faults = 0

Fault == faults < MaxFaults /\ faults' = faults + 1

Latest(c) == <<c, starts[c]>>

\* modal_prep_call_finished(): the last start of the call has come to an end.
Finished(c) == starts[c] > 0 /\ pc[Latest(c)] = "over"

----------------------------------------------------------------------------
(* _launch_missing_prep, for this batch.                                   *)

Blocked_ByClaim == claim.owner # 0 \/ (receipt.call # 0 /\ ~Finished(receipt.call))

Blocked == \/ receipt.call # 0 /\ ~Finished(receipt.call)
           \/ claim.owner # 0 /\ ~Finished(claim.owner)

Look(d) ==
    /\ dpc[d] = "idle" /\ result = 0 /\ ~Blocked
    /\ \/ /\ claim.gen >= MaxAttempts \/ receipt.attempt >= MaxAttempts
          /\ exhausted' = TRUE
          /\ UNCHANGED <<dpc, dsaw>>
       \/ /\ claim.gen < MaxAttempts /\ receipt.attempt < MaxAttempts
          /\ dsaw' = [dsaw EXCEPT ![d] = receipt]
          /\ dpc' = [dpc EXCEPT ![d] = "spawn"]
          /\ UNCHANGED exhausted
    /\ UNCHANGED <<store, modal, dcall, faults>>

Spawn(d) ==
    /\ dpc[d] = "spawn"
    /\ \E c \in Calls :
          /\ starts[c] = 0 /\ \A b \in 1..(c - 1) : starts[b] # 0
          /\ starts' = [starts EXCEPT ![c] = 1]
          /\ pc' = [pc EXCEPT ![<<c, 1>>] = "start"]
          /\ dcall' = [dcall EXCEPT ![d] = c]
    /\ dpc' = [dpc EXCEPT ![d] = "save"]
    /\ UNCHANGED <<store, saw, computed, dsaw, exhausted, faults>>

DispatcherReturns(d) ==
    /\ dpc' = [dpc EXCEPT ![d] = "idle"]
    /\ dsaw' = [dsaw EXCEPT ![d] = NoReceipt]
    /\ dcall' = [dcall EXCEPT ![d] = 0]
    /\ UNCHANGED exhausted

\* The generation of the receipt is that of the receipt's own writes: another
\* dispatcher's receipt stays, and this call is in none.
Save(d) ==
    /\ dpc[d] = "save"
    /\ receipt' = IF receipt = dsaw[d]
                  THEN [call |-> dcall[d], attempt |-> dsaw[d].attempt + 1] ELSE receipt
    /\ DispatcherReturns(d)
    /\ UNCHANGED <<claim, result, modal, faults>>

DispatcherDies(d) ==
    /\ dpc[d] # "idle" /\ Fault
    /\ DispatcherReturns(d)
    /\ UNCHANGED <<store, modal>>

----------------------------------------------------------------------------
(* execute_event, as start s of call s[1].                                 *)

Goto(s, l) == pc' = [pc EXCEPT ![s] = l]

\* The call returns, or what it was doing is over.
End(s) == Goto(s, "over") /\ saw' = [saw EXCEPT ![s] = NoClaim]

Owns_KeepsOwner(s, g) ==
    /\ claim' = [owner |-> IF claim.owner = 0 THEN s[1] ELSE claim.owner, gen |-> g]
    /\ saw' = [saw EXCEPT ![s] = claim']
    /\ computed' = computed + 1
    /\ Goto(s, "compute")

Owns(s, g) ==
    /\ claim' = [owner |-> s[1], gen |-> g]
    /\ saw' = [saw EXCEPT ![s] = claim']
    /\ computed' = computed + 1
    /\ Goto(s, "compute")

\* A published result is only called back; no claim is created; any other
\* claim is read, with its generation.
Start(s) ==
    /\ pc[s] = "start"
    /\ \/ result # 0 /\ End(s) /\ UNCHANGED <<claim, computed>>
       \/ result = 0 /\ claim = NoClaim /\ Owns(s, 1)
       \/ /\ result = 0 /\ claim # NoClaim
          /\ saw' = [saw EXCEPT ![s] = claim]
          /\ Goto(s, "reread") /\ UNCHANGED <<claim, computed>>
    /\ UNCHANGED <<receipt, result, starts, dispatch, faults>>

\* A result published meanwhile is returned without a callback.
Reread(s) ==
    /\ pc[s] = "reread"
    /\ \/ result = 0 /\ Goto(s, "owner") /\ UNCHANGED saw
       \/ result # 0 /\ End(s)
    /\ UNCHANGED <<store, starts, computed, dispatch, faults>>

MayTakeOver_Any(s) == saw[s].gen < MaxAttempts

\* The same call restarted, or an owner that has ended; three attempts in all.
MayTakeOver(s) ==
    /\ saw[s].owner = s[1] \/ Finished(saw[s].owner)
    /\ saw[s].gen < MaxAttempts

Owner(s) ==
    /\ pc[s] = "owner"
    /\ \/ MayTakeOver(s) /\ Goto(s, "take") /\ UNCHANGED saw
       \/ ~MayTakeOver(s) /\ End(s)
    /\ UNCHANGED <<store, starts, computed, dispatch, faults>>

Take_Unfenced(s) ==
    /\ pc[s] = "take"
    /\ Owns(s, saw[s].gen + 1)
    /\ UNCHANGED <<receipt, result, starts, dispatch, faults>>

Take(s) ==
    /\ pc[s] = "take"
    /\ \/ claim.gen = saw[s].gen /\ Owns(s, saw[s].gen + 1)
       \/ /\ claim.gen # saw[s].gen
          /\ End(s) /\ UNCHANGED <<claim, computed>>
    /\ UNCHANGED <<receipt, result, starts, dispatch, faults>>

\* After up to three tries of the preparation, of which an error is a result
\* like any other, the claim must still be the one taken.
Compute(s) ==
    /\ pc[s] = "compute"
    /\ \/ claim = saw[s] /\ Goto(s, "publish") /\ UNCHANGED saw
       \/ claim # saw[s] /\ End(s)
    /\ UNCHANGED <<store, starts, computed, dispatch, faults>>

\* Create-once: the second one raises.
Publish(s) ==
    /\ pc[s] = "publish"
    /\ result' = IF result = 0 THEN s[1] ELSE result
    /\ End(s)
    /\ UNCHANGED <<claim, receipt, starts, computed, dispatch, faults>>

\* The container is taken away and the call starts again; the old container
\* may linger.
Preempt(c) ==
    /\ starts[c] \in 1..(MaxStarts - 1) /\ ~Finished(c) /\ Fault
    /\ starts' = [starts EXCEPT ![c] = @ + 1]
    /\ \/ /\ pc' = [pc EXCEPT ![Latest(c)] = "over", ![<<c, starts'[c]>>] = "start"]
          /\ saw' = [saw EXCEPT ![Latest(c)] = NoClaim]
       \/ pc' = [pc EXCEPT ![<<c, starts'[c]>>] = "start"] /\ UNCHANGED saw
    /\ UNCHANGED <<store, computed, dispatch>>

\* A time-out, a failed container or a termination: the call ends here.
Kill(c) ==
    /\ starts[c] > 0 /\ ~Finished(c) /\ Fault
    /\ End(Latest(c))
    /\ UNCHANGED <<store, starts, computed, dispatch>>

Step(s) == Start(s) \/ Reread(s) \/ Owner(s) \/ Take(s) \/ Compute(s) \/ Publish(s)
Act(d)  == Look(d) \/ Spawn(d) \/ Save(d)

Next ==
    \/ \E s \in Starts : Step(s)
    \/ \E c \in Calls : Preempt(c) \/ Kill(c)
    \/ \E d \in Dispatchers : Act(d) \/ DispatcherDies(d)

Spec == Init /\ [][Next]_vars

\* A container that is not taken away works on, and the Worker asks for a
\* reconciliation again and again.
FairSpec ==
    /\ Spec
    /\ \A s \in Starts : WF_vars(Step(s))
    /\ \A d \in Dispatchers : WF_vars(Act(d))

----------------------------------------------------------------------------
Computing == {c \in Calls : starts[c] > 0 /\ pc[Latest(c)] \in {"compute", "publish"}}

(* The batch is prepared by one call at a time, however many calls the      *)
(* dispatchers have spawned: execute_event takes a claim over only when its *)
(* owner has ended, with the generation it has read.  Only a container that *)
(* goes on after its preemption may work beside it.                         *)
OneComputation == Cardinality(Computing) <= 1

(* The result is that of the call that owns the claim when it is published, *)
(* unless a container published it that went on after its preemption.       *)
ResultIsOwners ==
    [][result' # result =>
          claim.owner = result' \/ pc'[Latest(result')] = pc[Latest(result')]]_vars

(* Preemptions, duplicate dispatches and lingering containers together do   *)
(* not make more than MaxAttempts preparations.                             *)
ComputationsAreBounded == computed <= MaxAttempts

(* The batch ends: with a result, or given up.                              *)
BatchSettles == <>(result # 0 \/ exhausted)
=============================================================================
