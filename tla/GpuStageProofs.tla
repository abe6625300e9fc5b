--------------------------- MODULE GpuStageProofs ---------------------------
(***************************************************************************)
(* One GPU run at a time, for any number of drivers, watchdogs, attempts,  *)
(* dispatches, containers and faults.                                      *)
(*                                                                         *)
(* The claim's generation makes what a driver, a container or a watchdog   *)
(* has read of it safe to act on: a swap that succeeds finds the claim as  *)
(* it was read, but for the passing of time.  And of one token one         *)
(* container executes.                                                     *)
(***************************************************************************)
EXTENDS GpuStage, FiniteSetTheorems, TLAPS

(* A token has been started once, and each before the next.                 *)
ClaimShape ==
    /\ claim.gen = 0 => claim = NoClaim
    /\ claim.attempt = IF claim.started \/ claim.tok = 0 THEN claim.tok ELSE claim.tok - 1
    /\ claim.live => claim.started
    /\ claim.tok = 0 => ~claim.started

(* What has been read of the claim: at its generation it is still so, but   *)
(* for the passing of time.                                                 *)
Seen(v) ==
    /\ v.gen <= claim.gen
    /\ v.gen = claim.gen => /\ v.tok = claim.tok /\ v.attempt = claim.attempt
                            /\ v.started = claim.started /\ v.dispatches = claim.dispatches
                            /\ claim.live => v.live

(* What a driver knows at each place.                                       *)
DriverKnows(d) ==
    /\ Seen(dsaw[d])
    /\ dpc[d] = "claim" => \/ dsaw[d].tok = 0
                           \/ dsaw[d].started /\ ~dsaw[d].live /\ dsaw[d].attempt < MaxAttempts
    /\ dpc[d] = "progress" => dsaw[d].tok < claim.tok
    /\ dpc[d] = "abandon" => ~dsaw[d].started \/ ~dsaw[d].live
    /\ dpc[d] = "resend" => ~dsaw[d].started /\ dsaw[d].dispatches < MaxDispatches /\ dsaw[d].tok # 0
    /\ dpc[d] = "spawn" => sends[d] # <<0, 0>>
    /\ sends[d][1] <= claim.tok

(* What a container knows: of its token, of the claim it has accepted, and  *)
(* of its lease.                                                            *)
Lasting(c)  == cpc[c] # "off" => c[1] <= claim.tok
Accepted(c) ==
    /\ cgen[c] <= claim.gen
    /\ cpc[c] = "start" /\ cgen[c] = claim.gen => ~claim.started
    /\ cpc[c] \in {"start", "execute", "renew"} /\ cgen[c] = claim.gen => claim.tok = c[1] /\ ~claim.abandoned
    /\ cpc[c] \in {"execute", "renew"} /\ claim.tok = c[1] => claim.started
    /\ cpc[c] = "execute" /\ ~leased[c] /\ ~Stale(c) => cgen[c] = claim.gen \/ executed[c[1]]
    /\ cpc[c] = "renew" /\ ~Stale(c) => cgen[c] = claim.gen
Holding(c) ==
    /\ cpc[c] \in {"renew", "predict"} => executed[c[1]]
    /\ cpc[c] = "predict" => leased[c]
    /\ leased[c] => claim.live /\ claim.tok = c[1] /\ ~claim.abandoned
ContainerKnows(c) == Lasting(c) /\ Accepted(c) /\ Holding(c)

WatchKnows(r) ==
    Seen(rsaw[r].claim) /\ (rpc[r] = "dispatch" => rsaw[r].attempt <= MaxRecoveries)

(* The containers that have got through the create-once record of their     *)
(* token: one of each token.                                                *)
Executors == {c \in Containers : cpc[c] \in {"renew", "predict"}}
ExecutorsApart == \A c, e \in Executors : c[1] = e[1] => c = e

IInv ==
    /\ TypeOK /\ ClaimShape /\ ExecutorsApart
    /\ \A d \in Drivers : DriverKnows(d)
    /\ \A c \in Containers : ContainerKnows(c)
    /\ \A r \in Reconcilers : WatchKnows(r)

(* The claim goes on: with its generation, or with time.                    *)
ClaimAdvances ==
    /\ claim'.gen >= claim.gen /\ claim'.tok >= claim.tok
    /\ claim'.gen = claim.gen =>
          /\ claim'.tok = claim.tok /\ claim'.attempt = claim.attempt /\ claim'.started = claim.started
          /\ claim'.dispatches = claim.dispatches /\ claim'.abandoned = claim.abandoned
          /\ claim'.live => claim.live

(* What the containers other than E need of a step.                         *)
Undisturbed(E) ==
    /\ claim'.tok = claim.tok /\ claim.started => claim'.started
    /\ claim'.gen # claim.gen =>
          \/ claim'.tok > claim.tok \/ ~claim.started \/ claim'.abandoned
          \/ \E e \in E : e \in Executors /\ e[1] = claim.tok
    /\ \A c \in Containers \ E :
          leased[c] => claim'.live /\ claim'.tok = claim.tok /\ ~claim'.abandoned
    /\ \A t \in Tokens : executed[t] => executed'[t]

DriversKeep(D) ==
    \A d \in Drivers \ D : dpc'[d] = dpc[d] /\ dsaw'[d] = dsaw[d] /\ sends'[d] = sends[d]
ContainersKeep(E) ==
    \A c \in Containers \ E : cpc'[c] = cpc[c] /\ cgen'[c] = cgen[c] /\ leased'[c] = leased[c]
-----------------------------------------------------------------------------
LEMMA SeenStays ==
    ASSUME ClaimAdvances, TypeOK, TypeOK', NEW v \in Claims, Seen(v)
    PROVE  Seen(v)'
<1>1. /\ claim.gen \in Nat /\ claim'.gen \in Nat /\ v.gen \in Nat
      /\ claim.live \in BOOLEAN /\ claim'.live \in BOOLEAN /\ v.live \in BOOLEAN
  BY DEF TypeOK, Claims
<1>2. v.gen <= claim'.gen
  BY <1>1 DEF ClaimAdvances, Seen
<1>3. v.gen = claim'.gen => v.gen = claim.gen /\ claim'.gen = claim.gen
  BY <1>1 DEF ClaimAdvances, Seen
<1> QED
  BY <1>2, <1>3 DEF ClaimAdvances, Seen

LEMMA DriverStays ==
    ASSUME IInv, TypeOK', ClaimAdvances, NEW d \in Drivers,
           dpc'[d] = dpc[d], dsaw'[d] = dsaw[d], sends'[d] = sends[d]
    PROVE  DriverKnows(d)'
<1>1. dsaw[d] \in Claims /\ claim \in Claims /\ claim' \in Claims
      /\ (sends[d] \in Containers \/ sends[d] = <<0, 0>>)
  BY DEF IInv, TypeOK
<1>2. Seen(dsaw[d])'
  BY <1>1, SeenStays DEF IInv, DriverKnows, Seen
<1>3. sends'[d][1] <= claim'.tok
  <2>1. sends[d][1] \in Nat /\ claim.tok \in Nat /\ claim'.tok \in Nat
    BY <1>1, GpuStageAssumption DEF Containers, Tokens, Claims
  <2> QED
    BY <2>1 DEF IInv, DriverKnows, ClaimAdvances
<1>4. dpc'[d] = "progress" => dsaw'[d].tok < claim'.tok
  <2>1. dsaw[d].tok \in Nat /\ claim.tok \in Nat /\ claim'.tok \in Nat
    BY <1>1, GpuStageAssumption DEF Claims
  <2>2. dpc[d] = "progress" => dsaw[d].tok < claim.tok
    BY DEF IInv, DriverKnows
  <2>3. claim'.tok >= claim.tok
    BY DEF ClaimAdvances
  <2> QED
    BY <2>1, <2>2, <2>3
<1> QED
  BY <1>2, <1>3, <1>4 DEF IInv, DriverKnows

LEMMA ContainerStays ==
    ASSUME IInv, TypeOK', ClaimAdvances, NEW E \in SUBSET Containers, Undisturbed(E), NEW c \in Containers \ E,
           cpc'[c] = cpc[c], cgen'[c] = cgen[c], leased'[c] = leased[c]
    PROVE  ContainerKnows(c)'
<1> USE GpuStageAssumption
<1>1. /\ c[1] \in Tokens /\ cgen[c] \in Nat /\ claim.gen \in Nat /\ claim'.gen \in Nat
      /\ claim.tok \in 0..MaxAttempts /\ claim'.tok \in 0..MaxAttempts
      /\ claim.started \in BOOLEAN /\ claim'.started \in BOOLEAN
      /\ claim.abandoned \in BOOLEAN /\ claim'.abandoned \in BOOLEAN
  BY DEF IInv, TypeOK, Claims, Containers
<1>2. Lasting(c)'
  BY <1>1 DEF IInv, ContainerKnows, Lasting, ClaimAdvances, Tokens
<1>3. Holding(c)'
  BY <1>1 DEF IInv, ContainerKnows, Holding, Undisturbed
<1>4. Accepted(c)'
  <2>1. CASE claim'.gen = claim.gen
    BY <1>1, <2>1 DEF IInv, ContainerKnows, Accepted, ClaimAdvances, Undisturbed, Stale
  <2>2. CASE claim'.gen # claim.gen
    <3>1. cgen[c] < claim'.gen /\ claim.gen < claim'.gen
      BY <1>1, <2>2 DEF IInv, ContainerKnows, Accepted, ClaimAdvances
    <3>2. cpc[c] \in {"execute", "renew"} /\ claim'.tok = c[1] => claim'.tok = claim.tok /\ claim.started
      BY <1>1 DEF IInv, ContainerKnows, Lasting, Accepted, ClaimAdvances, Tokens
    <3>3. cpc[c] = "renew" => c \in Executors
      BY DEF Executors
    <3>4. cpc[c] \in {"execute", "renew"} /\ ~Stale(c)' =>
            \E e \in E : e \in Executors /\ e[1] = c[1] /\ executed[c[1]] /\ e # c
      <4> SUFFICES ASSUME cpc[c] \in {"execute", "renew"}, claim'.tok = c[1], ~claim'.abandoned
                   PROVE  \E e \in E : e \in Executors /\ e[1] = c[1] /\ executed[c[1]] /\ e # c
        BY DEF Stale
      <4>1. PICK e \in E : e \in Executors /\ e[1] = claim.tok
        BY <1>1, <2>2, <3>2 DEF Undisturbed
      <4> QED
        BY <3>2, <4>1 DEF IInv, ContainerKnows, Holding, Executors
    <3>5. cpc[c] = "renew" => Stale(c)'
      BY <3>3, <3>4 DEF IInv, ExecutorsApart
    <3>6. cpc[c] = "execute" /\ ~Stale(c)' => executed'[c[1]]
      BY <1>1, <3>4 DEF Undisturbed
    <3>7. cpc[c] \in {"execute", "renew"} /\ claim'.tok = c[1] => claim'.started
      BY <3>2 DEF Undisturbed
    <3> QED
      BY <1>1, <3>1, <3>5, <3>6, <3>7 DEF Accepted
  <2> QED
    BY <2>1, <2>2
<1> QED
  BY <1>2, <1>3, <1>4 DEF ContainerKnows

LEMMA WatchStays ==
    ASSUME IInv, TypeOK', ClaimAdvances, NEW r \in Reconcilers, rpc'[r] = rpc[r], rsaw'[r] = rsaw[r]
    PROVE  WatchKnows(r)'
<1>1. rsaw[r].claim \in Claims
  BY DEF IInv, TypeOK, Views
<1>2. Seen(rsaw[r].claim)'
  BY <1>1, SeenStays DEF IInv, WatchKnows, Seen
<1> QED
  BY <1>2 DEF IInv, WatchKnows

(* A step of the drivers D and the containers E.                            *)
LEMMA StepKeeps ==
    ASSUME IInv, TypeOK', ClaimShape', ClaimAdvances,
           NEW D \in SUBSET Drivers, DriversKeep(D), \A d \in D : DriverKnows(d)',
           NEW E \in SUBSET Containers, ContainersKeep(E), \A c \in E : ContainerKnows(c)', Undisturbed(E),
           ExecutorsApart', UNCHANGED <<rpc, rsaw>>
    PROVE  IInv'
<1>1. \A d \in Drivers : DriverKnows(d)'
  BY DriverStays DEF DriversKeep
<1>2. \A c \in Containers : ContainerKnows(c)'
  BY ContainerStays DEF ContainersKeep
<1>3. \A r \in Reconcilers : WatchKnows(r)'
  BY WatchStays
<1> QED
  BY <1>1, <1>2, <1>3 DEF IInv

(* Where the claim and the containers stay as they are.                     *)
LEMMA ClaimRests ==
    ASSUME IInv, UNCHANGED <<claim, executed, containers>>
    PROVE  ClaimShape' /\ ClaimAdvances /\ ExecutorsApart' /\ ContainersKeep({}) /\ Undisturbed({})
<1>1. claim.gen \in Nat /\ claim.tok \in Nat
  BY GpuStageAssumption DEF IInv, TypeOK, Claims
<1>2. ClaimShape' /\ ClaimAdvances /\ ContainersKeep({})
  BY <1>1 DEF IInv, ClaimShape, ClaimAdvances, ContainersKeep, containers
<1>3. ExecutorsApart'
  BY DEF IInv, ExecutorsApart, Executors, containers
<1>4. Undisturbed({})
  BY DEF IInv, ContainerKnows, Holding, Undisturbed
<1> QED
  BY <1>2, <1>3, <1>4

LEMMA DriverGoesOn ==
    ASSUME IInv, NEW d \in Drivers, TypeOK', UNCHANGED <<claim, executed, containers, rpc, rsaw>>,
           DriversKeep({d}), DriverKnows(d)'
    PROVE  IInv'
<1>1. {} \in SUBSET Containers /\ \A c \in {} : ContainerKnows(c)'
  OBVIOUS
<1> QED
  BY <1>1, ClaimRests, StepKeeps

(* Nothing read, nothing known.                                             *)
LEMMA NothingSeen ==
    ASSUME NEW v \in Claims, v.gen = 0 => v = NoClaim
    PROVE  /\ NoClaim.gen <= v.gen
           /\ NoClaim.gen = v.gen => /\ NoClaim.tok = v.tok /\ NoClaim.attempt = v.attempt
                                     /\ NoClaim.started = v.started /\ NoClaim.dispatches = v.dispatches
                                     /\ v.live => NoClaim.live
<1>1. NoClaim.gen = 0 /\ v.gen \in Nat
  BY DEF NoClaim, Claims
<1> QED
  BY <1>1

LEMMA NoClaimIsSeen ==
    ASSUME TypeOK, ClaimShape
    PROVE  Seen(NoClaim) /\ NoClaim \in Claims
<1>1. NoClaim \in Claims
  BY GpuStageAssumption DEF NoClaim, Claims
<1> QED
  BY <1>1, NothingSeen DEF TypeOK, ClaimShape, Seen

LEMMA Returned ==
    ASSUME IInv, TypeOK', ClaimShape', NEW d \in Drivers, Return(d)
    PROVE  DriversKeep({d}) /\ DriverKnows(d)'
<1>1. dpc'[d] = "idle" /\ dsaw'[d] = NoClaim /\ sends'[d] = <<0, 0>> /\ DriversKeep({d})
  BY DEF IInv, TypeOK, Return, Goto, DriversKeep
<1>2. Seen(dsaw[d])'
  <2>1. Seen(NoClaim)'
    BY NothingSeen DEF TypeOK, ClaimShape, Seen
  <2> QED
    BY <1>1, <2>1 DEF Seen
<1>3. 0 <= claim'.tok
  BY GpuStageAssumption DEF TypeOK, Claims
<1> QED
  BY <1>1, <1>2, <1>3 DEF DriverKnows

(* The types a return leaves.                                               *)
LEMMA ReturnedTypes ==
    ASSUME IInv, NEW d \in Drivers, Return(d)
    PROVE  /\ dpc' \in [Drivers -> {"idle", "read", "view", "abandon", "resend", "claim", "progress", "leave",
                                    "spawn", "deliver", "fail", "tell"}]
           /\ dsaw' \in [Drivers -> Claims] /\ sends' \in [Drivers -> Containers \cup {<<0, 0>>}]
<1>1. NoClaim \in Claims
  BY NoClaimIsSeen DEF IInv
<1> QED
  BY <1>1 DEF IInv, TypeOK, Return, Goto

LEMMA FaultType == ASSUME TypeOK, Fault PROVE faults' \in 0..MaxFaults
BY GpuStageAssumption DEF TypeOK, Fault
-----------------------------------------------------------------------------
(* The CPU driver.                                                          *)
LEMMA BeginIInv == ASSUME IInv, NEW d \in Drivers, Begin(d) PROVE IInv'
<1>1. TypeOK'
  <2>1. pending' \in 0..MaxPending
    BY GpuStageAssumption DEF IInv, TypeOK, Begin
  <2> QED
    BY <2>1 DEF IInv, TypeOK, Begin, Goto, journal, containers, watchdog
<1>2. DriversKeep({d}) /\ dsaw'[d] = dsaw[d] /\ sends'[d] = sends[d] /\ dpc'[d] \in {dpc[d], "read"}
  BY DEF IInv, TypeOK, Begin, Goto, DriversKeep
<1>3. DriverKnows(d)'
  BY <1>2 DEF IInv, DriverKnows, Seen, Begin, journal
<1> QED
  BY <1>1, <1>2, <1>3, DriverGoesOn DEF Begin, journal, watchdog

LEMMA ReadIInv == ASSUME IInv, NEW d \in Drivers, Read(d) PROVE IInv'
<1>1. TypeOK'
  BY DEF IInv, TypeOK, Read, Goto, journal, containers, watchdog
<1>2. DriversKeep({d}) /\ dsaw'[d] = claim /\ sends'[d] = sends[d] /\ dpc'[d] = "view" /\ claim' = claim
  BY DEF IInv, TypeOK, Read, Goto, DriversKeep, journal
<1>3. DriverKnows(d)'
  BY <1>2, GpuStageAssumption DEF IInv, TypeOK, Claims, DriverKnows, Seen
<1> QED
  BY <1>1, <1>2, <1>3, DriverGoesOn DEF Read, journal, watchdog

LEMMA ViewIInv == ASSUME IInv, NEW d \in Drivers, View(d) PROVE IInv'
<1>1. dsaw[d] \in Claims /\ dsaw[d].tok \in 0..MaxAttempts
  BY DEF IInv, TypeOK, Claims
<1>2. Verdict(dsaw[d]) \in {"deliver", "fail", "claim", "abandon", "leave", "resend"}
  BY DEF Verdict
<1>3. TypeOK'
  BY <1>1, <1>2 DEF IInv, TypeOK, View, Goto, containers, watchdog
<1>4. DriversKeep({d}) /\ dsaw' = dsaw /\ sends' = sends /\ dpc'[d] = Verdict(dsaw[d]) /\ claim' = claim
  BY DEF IInv, TypeOK, View, Goto, DriversKeep
<1>5. /\ Verdict(dsaw[d]) = "claim" =>
            dsaw[d].tok = 0 \/ (dsaw[d].started /\ ~dsaw[d].live /\ dsaw[d].attempt < MaxAttempts)
      /\ Verdict(dsaw[d]) = "abandon" => ~dsaw[d].started \/ ~dsaw[d].live
      /\ Verdict(dsaw[d]) = "resend" =>
            ~dsaw[d].started /\ dsaw[d].dispatches < MaxDispatches /\ dsaw[d].tok # 0
  BY <1>1, GpuStageAssumption DEF Verdict, Exhausted, Claims
<1>6. DriverKnows(d)'
  BY <1>2, <1>4, <1>5 DEF IInv, DriverKnows, Seen
<1> QED
  BY <1>3, <1>4, <1>6, DriverGoesOn DEF View, watchdog

LEMMA LeaveIInv == ASSUME IInv, NEW d \in Drivers, Leave(d) PROVE IInv'
<1>1. CASE sends[d] = <<0, 0>>
  <2>1. Return(d)
    BY <1>1 DEF Leave
  <2>2. TypeOK' /\ ClaimShape'
    BY <2>1, ReturnedTypes DEF IInv, TypeOK, ClaimShape, Leave, journal, containers, watchdog
  <2> QED
    BY <2>1, <2>2, Returned, DriverGoesOn DEF Leave, journal, watchdog
<1>2. CASE sends[d] # <<0, 0>>
  <2>1. TypeOK'
    BY <1>2 DEF IInv, TypeOK, Leave, Goto, journal, containers, watchdog
  <2>2. DriversKeep({d}) /\ dsaw' = dsaw /\ sends' = sends /\ dpc'[d] = "spawn" /\ claim' = claim
    BY <1>2 DEF IInv, TypeOK, Leave, Goto, DriversKeep, journal
  <2>3. DriverKnows(d)'
    BY <1>2, <2>2 DEF IInv, DriverKnows, Seen
  <2> QED
    BY <2>1, <2>2, <2>3, DriverGoesOn DEF Leave, journal, watchdog
<1> QED
  BY <1>1, <1>2

LEMMA DeliverIInv == ASSUME IInv, NEW d \in Drivers, Deliver(d) PROVE IInv'
<1>1. TypeOK' /\ ClaimShape'
  BY FaultType, ReturnedTypes DEF IInv, TypeOK, ClaimShape, Deliver, containers, watchdog
<1> QED
  BY <1>1, Returned, DriverGoesOn DEF Deliver, watchdog

LEMMA FailIInv == ASSUME IInv, NEW d \in Drivers, Fail(d) PROVE IInv'
<1>1. TypeOK'
  BY DEF IInv, TypeOK, Fail, Goto, journal, containers, watchdog
<1>2. DriversKeep({d}) /\ dsaw' = dsaw /\ sends' = sends /\ dpc'[d] = "tell" /\ claim' = claim
  BY DEF IInv, TypeOK, Fail, Goto, DriversKeep, journal
<1>3. DriverKnows(d)'
  BY <1>2 DEF IInv, DriverKnows, Seen
<1> QED
  BY <1>1, <1>2, <1>3, DriverGoesOn DEF Fail, journal, watchdog

LEMMA TellIInv == ASSUME IInv, NEW d \in Drivers, Tell(d) PROVE IInv'
<1>1. TypeOK' /\ ClaimShape'
  BY FaultType, ReturnedTypes DEF IInv, TypeOK, ClaimShape, Tell, containers, watchdog
<1> QED
  BY <1>1, Returned, DriverGoesOn DEF Tell, watchdog

LEMMA DriverDiesIInv == ASSUME IInv, NEW d \in Drivers, DriverDies(d) PROVE IInv'
<1>1. TypeOK' /\ ClaimShape'
  BY FaultType, ReturnedTypes DEF IInv, TypeOK, ClaimShape, DriverDies, journal, containers, watchdog
<1> QED
  BY <1>1, Returned, DriverGoesOn DEF DriverDies, journal, watchdog

(* The swaps of a driver.  They find the claim as it was read.              *)
LEMMA DriverSwaps ==
    ASSUME IInv, NEW d \in Drivers, TypeOK', ClaimShape', claim'.gen = claim.gen + 1, claim'.tok >= claim.tok,
           claim'.tok = claim.tok => claim'.started = claim.started /\ (~claim.started \/ claim'.abandoned),
           ~claim.live, UNCHANGED <<executed, containers, rpc, rsaw>>, DriversKeep({d}), DriverKnows(d)'
    PROVE  IInv'
<1>1. claim.gen \in Nat /\ claim.tok \in Nat /\ claim'.tok \in Nat
  BY GpuStageAssumption DEF IInv, TypeOK, Claims
<1>2. ClaimAdvances /\ ContainersKeep({})
  BY <1>1 DEF ClaimAdvances, ContainersKeep, containers
<1>3. Undisturbed({})
  BY <1>1 DEF IInv, ContainerKnows, Holding, Undisturbed
<1>4. ExecutorsApart'
  BY DEF IInv, ExecutorsApart, Executors, containers
<1>5. {} \in SUBSET Containers /\ \A c \in {} : ContainerKnows(c)'
  OBVIOUS
<1> QED
  BY <1>2, <1>3, <1>4, <1>5, StepKeeps

(* A driver whose claim is behind only moves to another place.              *)
LEMMA AbandonIInv == ASSUME IInv, NEW d \in Drivers, Abandon(d) PROVE IInv'
<1>1. DriversKeep({d}) /\ dsaw' = dsaw /\ sends' = sends /\ dpc'[d] = "read"
  BY DEF IInv, TypeOK, Abandon, Goto, DriversKeep
<1>2. CASE UNCHANGED claim
  <2>1. TypeOK'
    BY <1>2 DEF IInv, TypeOK, Abandon, Goto, containers, watchdog
  <2>2. DriverKnows(d)'
    BY <1>1, <1>2 DEF IInv, DriverKnows, Seen
  <2> QED
    BY <1>1, <1>2, <2>1, <2>2, DriverGoesOn DEF Abandon, watchdog
<1>3. CASE Swap(dsaw[d].gen, [claim EXCEPT !.abandoned = TRUE])
  <2>1. claim \in Claims /\ dsaw[d] \in Claims /\ claim.gen \in Nat
    BY DEF IInv, TypeOK, Claims
  <2>2. /\ claim' \in Claims /\ claim'.gen = claim.gen + 1 /\ claim'.abandoned
        /\ claim'.tok = claim.tok /\ claim'.started = claim.started /\ claim'.live = claim.live
        /\ claim'.attempt = claim.attempt
    <3> DEFINE new == [claim EXCEPT !.abandoned = TRUE]
    <3>1. /\ new \in Claims /\ new.abandoned /\ new.tok = claim.tok /\ new.started = claim.started
          /\ new.live = claim.live /\ new.attempt = claim.attempt
      BY <2>1 DEF Claims
    <3> HIDE DEF new
    <3>2. claim.gen = dsaw[d].gen /\ claim' = [new EXCEPT !.gen = claim.gen + 1]
      BY <1>3 DEF Swap, new
    <3>3. claim.gen + 1 \in Nat
      BY <2>1
    <3> QED
      BY <3>1, <3>2, <3>3 DEF Claims
  <2>3. ~claim.live
    BY <1>3, <2>1 DEF IInv, ClaimShape, DriverKnows, Seen, Swap, Abandon, Claims
  <2>4. TypeOK'
    BY <2>2 DEF IInv, TypeOK, Abandon, Goto, containers, watchdog
  <2>5. ClaimShape'
    BY <2>1, <2>2 DEF IInv, ClaimShape
  <2>6. DriverKnows(d)'
    <3>1. Seen(dsaw[d])'
      BY <1>1, <2>1, <2>2 DEF IInv, DriverKnows, Seen, Claims
    <3> QED
      BY <1>1, <2>2, <3>1 DEF IInv, DriverKnows
  <2>7. claim'.tok >= claim.tok
    BY <2>1, <2>2, GpuStageAssumption DEF Claims
  <2> QED
    BY <1>1, <2>2, <2>3, <2>4, <2>5, <2>6, <2>7, DriverSwaps DEF Abandon, watchdog
<1> QED
  BY <1>2, <1>3 DEF Abandon

LEMMA ResendIInv == ASSUME IInv, NEW d \in Drivers, Resend(d) PROVE IInv'
<1>0. claim \in Claims /\ dsaw[d] \in Claims /\ claim.gen \in Nat /\ dsaw[d].gen \in Nat
      /\ claim.tok \in 0..MaxAttempts /\ claim.dispatches \in 0..MaxDispatches
  BY DEF IInv, TypeOK, Claims
<1>1. /\ DriversKeep({d}) /\ dsaw' = dsaw /\ dpc'[d] = "leave"
      /\ ~dsaw[d].started /\ dsaw[d].dispatches < MaxDispatches /\ dsaw[d].tok # 0
  BY DEF IInv, TypeOK, Resend, Goto, DriversKeep, DriverKnows
<1>2. CASE UNCHANGED <<claim, sends>>
  <2>1. TypeOK'
    BY <1>2 DEF IInv, TypeOK, Resend, Goto, containers, watchdog
  <2>2. DriverKnows(d)'
    BY <1>1, <1>2 DEF IInv, DriverKnows, Seen
  <2> QED
    BY <1>1, <1>2, <2>1, <2>2, DriverGoesOn DEF Resend, watchdog
<1>3. CASE /\ Swap(dsaw[d].gen, [claim EXCEPT !.dispatches = @ + 1, !.waited = FALSE])
           /\ sends' = [sends EXCEPT ![d] = <<claim.tok, claim.dispatches + 1>>]
  <2>1. ~claim.started /\ ~claim.live /\ claim.dispatches < MaxDispatches /\ claim.tok # 0
    BY <1>0, <1>1, <1>3 DEF IInv, ClaimShape, DriverKnows, Seen, Swap
  <2>2. claim.dispatches + 1 \in 1..MaxDispatches /\ claim.tok \in 1..MaxAttempts
        /\ claim.dispatches + 1 \in 0..MaxDispatches
    BY <1>0, <2>1, GpuStageAssumption
  <2>3. /\ claim' \in Claims /\ claim'.gen = claim.gen + 1
        /\ claim'.tok = claim.tok /\ claim'.started = claim.started /\ claim'.live = claim.live
        /\ claim'.attempt = claim.attempt
    <3> DEFINE new == [claim EXCEPT !.dispatches = @ + 1, !.waited = FALSE]
    <3>1. /\ new \in Claims /\ new.tok = claim.tok /\ new.started = claim.started
          /\ new.live = claim.live /\ new.attempt = claim.attempt
      BY <1>0, <2>2 DEF Claims
    <3> HIDE DEF new
    <3>2. claim.gen = dsaw[d].gen /\ claim' = [new EXCEPT !.gen = claim.gen + 1]
      BY <1>3 DEF Swap, new
    <3>3. claim.gen + 1 \in Nat
      BY <1>0
    <3> QED
      BY <3>1, <3>2, <3>3 DEF Claims
  <2>4. <<claim.tok, claim.dispatches + 1>> \in Containers
    BY <2>2 DEF Containers, Tokens
  <2>5. sends' \in [Drivers -> Containers \cup {<<0, 0>>}] /\ sends'[d] = <<claim.tok, claim.dispatches + 1>>
    BY <1>3, <2>4 DEF IInv, TypeOK
  <2>6. TypeOK'
    BY <2>3, <2>5 DEF IInv, TypeOK, Resend, Goto, containers, watchdog
  <2>7. ClaimShape'
    BY <1>0, <2>3 DEF IInv, ClaimShape
  <2>8. claim'.tok >= claim.tok
    BY <1>0, <2>3, GpuStageAssumption
  <2>9. DriverKnows(d)'
    <3>1. Seen(dsaw[d])'
      BY <1>0, <1>1, <2>3 DEF IInv, DriverKnows, Seen
    <3>2. sends'[d][1] <= claim'.tok
      BY <1>0, <2>3, <2>5, GpuStageAssumption
    <3> QED
      BY <1>1, <3>1, <3>2 DEF DriverKnows
  <2>10. DriversKeep({d})
    BY <1>1, <1>3 DEF IInv, TypeOK, DriversKeep
  <2> QED
    BY <2>1, <2>3, <2>6, <2>7, <2>8, <2>9, <2>10, DriverSwaps DEF Resend, watchdog
<1> QED
  BY <1>2, <1>3 DEF Resend

LEMMA NewTokenIInv == ASSUME IInv, NEW d \in Drivers, NewToken(d) PROVE IInv'
<1>0. claim \in Claims /\ dsaw[d] \in Claims /\ claim.gen \in Nat /\ dsaw[d].gen \in Nat
      /\ claim.tok \in 0..MaxAttempts /\ claim.attempt \in 0..MaxAttempts
  BY DEF IInv, TypeOK, Claims
<1>1. CASE UNCHANGED claim /\ Goto(d, "leave")
  <2>1. TypeOK'
    BY <1>1 DEF IInv, TypeOK, NewToken, Goto, containers, watchdog
  <2>2. DriversKeep({d}) /\ dsaw' = dsaw /\ sends' = sends /\ dpc'[d] = "leave"
    BY <1>1 DEF IInv, TypeOK, NewToken, Goto, DriversKeep
  <2>3. DriverKnows(d)'
    BY <1>1, <2>2 DEF IInv, DriverKnows, Seen
  <2> QED
    BY <1>1, <2>1, <2>2, <2>3, DriverGoesOn DEF NewToken, watchdog
<1>2. CASE /\ Swap(dsaw[d].gen, [NoClaim EXCEPT !.tok = claim.tok + 1, !.attempt = claim.attempt,
                                               !.dispatches = 1])
           /\ Goto(d, "progress")
  <2>1. /\ claim.attempt = dsaw[d].attempt /\ claim.tok = dsaw[d].tok /\ claim.started = dsaw[d].started
        /\ claim.live => dsaw[d].live
        /\ dsaw[d].tok = 0 \/ (dsaw[d].started /\ ~dsaw[d].live /\ dsaw[d].attempt < MaxAttempts)
    BY <1>2 DEF IInv, DriverKnows, Seen, Swap, NewToken
  <2>2. claim.attempt = claim.tok /\ claim.tok < MaxAttempts /\ ~claim.live
    BY <1>0, <2>1, GpuStageAssumption DEF IInv, ClaimShape, ContainerKnows
  <2>3. claim.tok + 1 \in 1..MaxAttempts /\ claim.tok + 1 \in 0..MaxAttempts /\ 1 \in 0..MaxDispatches
        /\ claim.gen + 1 # 0
    BY <1>0, <2>2, GpuStageAssumption
  <2>4. claim' = [tok |-> claim.tok + 1, gen |-> claim.gen + 1, attempt |-> claim.tok, dispatches |-> 1,
                  started |-> FALSE, live |-> FALSE, overdue |-> FALSE, late |-> FALSE,
                  waited |-> FALSE, abandoned |-> FALSE]
    BY <1>2, <2>2 DEF Swap, NoClaim
  <2>5. claim' \in Claims
    BY <1>0, <2>3, <2>4 DEF Claims
  <2>6. TypeOK'
    BY <1>2, <2>5 DEF IInv, TypeOK, NewToken, Goto, containers, watchdog
  <2>7. ClaimShape'
    BY <1>0, <2>3, <2>4 DEF ClaimShape
  <2>8. DriversKeep({d}) /\ dsaw' = dsaw /\ sends' = sends /\ dpc'[d] = "progress"
    BY <1>2 DEF IInv, TypeOK, NewToken, Goto, DriversKeep
  <2>9. claim'.tok >= claim.tok /\ claim'.tok # claim.tok /\ claim'.gen = claim.gen + 1
    BY <1>0, <2>4, GpuStageAssumption
  <2>10. DriverKnows(d)'
    <3>1. Seen(dsaw[d])'
      BY <1>0, <1>2, <2>4, <2>8 DEF Swap, Seen
    <3>2. sends[d][1] \in Nat /\ sends[d][1] <= claim.tok
      BY GpuStageAssumption DEF IInv, TypeOK, DriverKnows, Containers, Tokens
    <3>3. sends'[d][1] <= claim'.tok /\ dsaw'[d].tok < claim'.tok
      BY <1>0, <2>1, <2>4, <2>8, <3>2, GpuStageAssumption
    <3> QED
      BY <2>8, <3>1, <3>3 DEF DriverKnows
  <2> QED
    BY <2>2, <2>6, <2>7, <2>8, <2>9, <2>10, DriverSwaps DEF NewToken, watchdog
<1> QED
  BY <1>1, <1>2 DEF NewToken

LEMMA ProgressIInv == ASSUME IInv, NEW d \in Drivers, Progress(d) PROVE IInv'
<1>0. /\ dsaw[d].tok \in Nat /\ claim.tok \in 0..MaxAttempts /\ dsaw[d].tok < claim.tok
      /\ claim.tok \in Nat
  BY GpuStageAssumption DEF IInv, TypeOK, Claims, DriverKnows, Progress
<1>1. dsaw[d].tok + 1 \in 1..MaxAttempts /\ dsaw[d].tok + 1 \in 0..MaxAttempts /\ 1 \in 1..MaxDispatches
      /\ dsaw[d].tok + 1 <= claim.tok
  BY <1>0, GpuStageAssumption
<1>2. <<dsaw[d].tok + 1, 1>> \in Containers
  BY <1>1 DEF Containers, Tokens
<1>3. sends' \in [Drivers -> Containers \cup {<<0, 0>>}] /\ sends'[d] = <<dsaw[d].tok + 1, 1>>
  BY <1>2 DEF IInv, TypeOK, Progress
<1>4. TypeOK'
  BY <1>1, <1>3 DEF IInv, TypeOK, Progress, Goto, containers, watchdog
<1>5. DriversKeep({d}) /\ dsaw' = dsaw /\ dpc'[d] = "leave" /\ claim' = claim
  BY DEF IInv, TypeOK, Progress, Goto, DriversKeep
<1>6. DriverKnows(d)'
  BY <1>1, <1>3, <1>5 DEF IInv, DriverKnows, Seen
<1> QED
  BY <1>4, <1>5, <1>6, DriverGoesOn DEF Progress, watchdog
-----------------------------------------------------------------------------
(* The GPU containers.                                                      *)

(* A container goes on and leaves the claim; it becomes an executor only by *)
(* the create-once record of its token.                                     *)
LEMMA ContainerGoesOn ==
    ASSUME IInv, NEW c \in Containers, TypeOK', UNCHANGED <<claim, dpc, dsaw, sends, rpc, rsaw>>,
           ContainersKeep({c}), ContainerKnows(c)', \A t \in Tokens : executed[t] => executed'[t],
           c \in Executors' => c \in Executors \/ ~executed[c[1]]
    PROVE  IInv'
<1>1. claim.gen \in Nat /\ claim.tok \in Nat
  BY GpuStageAssumption DEF IInv, TypeOK, Claims
<1>2. ClaimShape' /\ ClaimAdvances /\ DriversKeep({}) /\ {} \in SUBSET Drivers
  BY <1>1 DEF IInv, ClaimShape, ClaimAdvances, DriversKeep
<1>3. Undisturbed({c})
  BY DEF IInv, ContainerKnows, Holding, Undisturbed
<1>4. ExecutorsApart'
  <2>1. \A e \in Containers \ {c} : e \in Executors' => e \in Executors
    BY DEF Executors, ContainersKeep
  <2>2. \A e \in Executors : executed[e[1]]
    BY DEF IInv, ContainerKnows, Holding, Executors
  <2> QED
    BY <2>1, <2>2 DEF IInv, ExecutorsApart, Executors
<1> QED
  BY <1>2, <1>3, <1>4, StepKeeps

(* A container that is waiting or over knows nothing but its token.         *)
LEMMA OutOfTheWay ==
    ASSUME IInv, NEW c \in Containers, UNCHANGED claim, cgen'[c] = cgen[c], ~leased'[c],
           cpc'[c] \in {"queued", "over"}, c[1] <= claim.tok
    PROVE  ContainerKnows(c)'
BY DEF IInv, ContainerKnows, Lasting, Accepted, Holding

(* An accepted request is that of the claim.                                *)
LEMMA AcceptIInv ==
    ASSUME IInv, NEW c \in Containers, Accept(c), cpc[c] \in {"queued", "start"},
           UNCHANGED <<claim, dpc, dsaw, sends, rpc, rsaw, executed>>, TypeOK'
    PROVE  IInv'
<1>1. /\ cpc'[c] = (IF claim.started THEN "execute" ELSE "start") /\ cgen'[c] = claim.gen
      /\ leased' = leased /\ ContainersKeep({c}) /\ claim.tok = c[1] /\ ~claim.abandoned
  BY DEF IInv, TypeOK, Accept, Enter, Stale, ContainersKeep
<1>2. claim.gen \in Nat /\ claim.tok \in Nat
  BY GpuStageAssumption DEF IInv, TypeOK, Claims
<1>3. ContainerKnows(c)'
  BY <1>1, <1>2 DEF IInv, ContainerKnows, Lasting, Accepted, Holding, Stale
<1>4. c \notin Executors'
  BY <1>1 DEF Executors
<1> QED
  BY <1>1, <1>3, <1>4, ContainerGoesOn

LEMMA AcceptTypes ==
    ASSUME IInv, NEW c \in Containers, Accept(c) \/ Over(c)
    PROVE  /\ cpc' \in [Containers -> {"off", "queued", "start", "execute", "renew", "predict",
                                       "resume", "over"}]
           /\ cgen' \in [Containers -> Nat] /\ leased' \in [Containers -> BOOLEAN]
<1>1. claim.gen \in Nat
  BY DEF IInv, TypeOK, Claims
<1> QED
  <2>1. CASE Accept(c)
    <3>1. Enter(c, "execute") \/ Enter(c, "start")
      BY <2>1 DEF Accept
    <3> QED
      BY <1>1, <2>1, <3>1 DEF IInv, TypeOK, Accept, Enter
  <2>2. CASE Over(c)
    BY <2>2 DEF IInv, TypeOK, Over, Enter
  <2> QED
    BY <2>1, <2>2

LEMMA OverIInv ==
    ASSUME IInv, NEW c \in Containers, Over(c), cpc[c] # "off",
           UNCHANGED <<claim, dpc, dsaw, sends, rpc, rsaw, executed>>, TypeOK'
    PROVE  IInv'
<1>1. cpc'[c] = "over" /\ ~leased'[c] /\ cgen' = cgen /\ ContainersKeep({c}) /\ c[1] <= claim.tok
  BY DEF IInv, TypeOK, ContainerKnows, Lasting, Over, Enter, ContainersKeep
<1>2. c \notin Executors'
  BY <1>1 DEF Executors
<1> QED
  BY <1>1, <1>2, OutOfTheWay, ContainerGoesOn

LEMMA ArriveIInv == ASSUME IInv, NEW c \in Containers, Arrive(c) PROVE IInv'
<1>1. TypeOK'
  BY AcceptTypes DEF IInv, TypeOK, Arrive, journal, driver, watchdog
<1> QED
  BY <1>1, AcceptIInv, OverIInv DEF Arrive, journal, driver, watchdog

LEMMA StartIInv == ASSUME IInv, NEW c \in Containers, Start(c) PROVE IInv'
<1>1. CASE UNCHANGED claim /\ (Over(c) \/ Accept(c))
  <2>1. TypeOK'
    BY <1>1, AcceptTypes DEF IInv, TypeOK, Start, driver, watchdog
  <2> QED
    BY <1>1, <2>1, AcceptIInv, OverIInv DEF Start, driver, watchdog
<1>2. CASE /\ claim.gen = cgen[c] /\ Leased(c) /\ leased' = [leased EXCEPT ![c] = TRUE]
           /\ Enter(c, "execute") /\ UNCHANGED cgen
  <2>1. claim \in Claims /\ claim.gen \in Nat /\ claim.tok = c[1] /\ ~claim.abandoned /\ ~claim.started
        /\ claim.tok \in 1..MaxAttempts
    BY <1>2 DEF IInv, TypeOK, Claims, ContainerKnows, Accepted, Start, Containers, Tokens
  <2>2. claim.attempt = claim.tok - 1 /\ claim.attempt + 1 = claim.tok /\ claim.attempt + 1 \in 0..MaxAttempts
        /\ ~claim.live
    BY <2>1, GpuStageAssumption DEF IInv, ClaimShape
  <2>3. /\ claim' \in Claims /\ claim'.gen = claim.gen + 1 /\ claim'.tok = claim.tok /\ claim'.started /\ claim'.live
        /\ claim'.attempt = claim.tok /\ claim'.abandoned = claim.abandoned
    <3>1. claim' = [claim EXCEPT !.started = TRUE, !.live = TRUE, !.late = claim.overdue,
                                 !.attempt = claim.tok, !.gen = claim.gen + 1]
      BY <1>2, <2>2 DEF Leased
    <3>2. claim.overdue \in BOOLEAN /\ claim.gen + 1 \in Nat /\ claim.tok \in 0..MaxAttempts
      BY <2>1, <2>2 DEF Claims
    <3>3. claim' \in Claims
      BY <2>1, <3>1, <3>2 DEF Claims
    <3> QED
      BY <2>1, <3>1, <3>3 DEF Claims
  <2>4. TypeOK'
    BY <1>2, <2>3 DEF IInv, TypeOK, Start, Enter, driver, watchdog
  <2>5. ClaimShape' /\ ClaimAdvances
    <3>1. claim.tok \in Nat /\ claim.gen + 1 # 0 /\ claim.gen + 1 >= claim.gen /\ claim.gen + 1 # claim.gen
          /\ claim.tok # 0 /\ claim.tok >= claim.tok /\ claim.gen \in Nat
      BY <2>1, GpuStageAssumption
    <3>2. ClaimShape'
      BY <2>3, <3>1 DEF ClaimShape
    <3>3. ClaimAdvances
      BY <2>3, <3>1 DEF ClaimAdvances
    <3> QED
      BY <3>2, <3>3
  <2>6. /\ cpc'[c] = "execute" /\ cgen'[c] = cgen[c] /\ leased'[c] /\ ContainersKeep({c})
    BY <1>2 DEF IInv, TypeOK, Enter, ContainersKeep
  <2>7. ContainerKnows(c)'
    BY <1>2, <2>1, <2>3, <2>6, GpuStageAssumption DEF ContainerKnows, Lasting, Accepted, Holding, Stale
  <2>8. Undisturbed({c})
    BY <2>1, <2>2, <2>3 DEF IInv, ContainerKnows, Holding, Undisturbed, Start
  <2>9. ExecutorsApart'
    BY <2>6 DEF IInv, ExecutorsApart, Executors, ContainersKeep
  <2>10. DriversKeep({}) /\ {} \in SUBSET Drivers /\ {c} \in SUBSET Containers
    BY DEF Start, driver, DriversKeep
  <2> QED
    BY <2>4, <2>5, <2>6, <2>7, <2>8, <2>9, <2>10, StepKeeps DEF Start, watchdog
<1> QED
  BY <1>1, <1>2 DEF Start

LEMMA ExecuteIInv == ASSUME IInv, NEW c \in Containers, Execute(c) PROVE IInv'
<1>0. c[1] \in Tokens
  BY DEF Containers
<1>1. CASE Enter(c, "resume") /\ UNCHANGED <<executed, cgen, leased>>
  <2>1. TypeOK'
    BY <1>1 DEF IInv, TypeOK, Execute, Enter, driver, watchdog
  <2>2. cpc'[c] = "resume" /\ cgen' = cgen /\ leased' = leased /\ ContainersKeep({c})
    BY <1>1 DEF IInv, TypeOK, Enter, ContainersKeep
  <2>3. ContainerKnows(c)' /\ c \notin Executors'
    BY <2>2 DEF IInv, ContainerKnows, Lasting, Accepted, Holding, Executors, Execute
  <2> QED
    BY <1>1, <2>1, <2>2, <2>3, ContainerGoesOn DEF Execute, driver, watchdog
<1>2. CASE Over(c) /\ UNCHANGED executed
  <2>1. TypeOK'
    BY <1>2, AcceptTypes DEF IInv, TypeOK, Execute, driver, watchdog
  <2> QED
    BY <1>2, <2>1, OverIInv DEF Execute, driver, watchdog
<1>3. CASE /\ ~executed[c[1]] /\ executed' = [executed EXCEPT ![c[1]] = TRUE]
           /\ Enter(c, IF leased[c] THEN "predict" ELSE "renew") /\ UNCHANGED <<cgen, leased>>
  <2>1. TypeOK'
    BY <1>0, <1>3 DEF IInv, TypeOK, Execute, Enter, driver, watchdog
  <2>2. /\ cpc'[c] = (IF leased[c] THEN "predict" ELSE "renew") /\ cgen' = cgen /\ leased' = leased
        /\ ContainersKeep({c}) /\ executed'[c[1]] /\ claim' = claim
        /\ \A t \in Tokens : executed[t] => executed'[t]
    BY <1>0, <1>3 DEF IInv, TypeOK, Enter, ContainersKeep, Execute
  <2>3. ContainerKnows(c)'
    BY <1>3, <2>2 DEF IInv, ContainerKnows, Lasting, Accepted, Holding, Stale, Execute
  <2> QED
    BY <1>3, <2>1, <2>2, <2>3, ContainerGoesOn DEF Execute, driver, watchdog
<1> QED
  BY <1>1, <1>2, <1>3 DEF Execute

LEMMA RenewIInv == ASSUME IInv, NEW c \in Containers, Renew(c) PROVE IInv'
<1>1. CASE Over(c) /\ UNCHANGED claim
  <2>1. TypeOK'
    BY <1>1, AcceptTypes DEF IInv, TypeOK, Renew, driver, watchdog
  <2> QED
    BY <1>1, <2>1, OverIInv DEF Renew, driver, watchdog
<1>2. ~(claim.gen # cgen[c] /\ ~Stale(c))
  BY DEF IInv, ContainerKnows, Accepted, Renew
<1>3. CASE /\ Swap(cgen[c], [claim EXCEPT !.live = TRUE]) /\ leased' = [leased EXCEPT ![c] = TRUE]
           /\ Enter(c, "predict") /\ UNCHANGED cgen
  <2>1. claim \in Claims /\ claim.gen \in Nat /\ claim.tok = c[1] /\ ~claim.abandoned /\ claim.started
        /\ claim.tok \in 1..MaxAttempts /\ cgen[c] = claim.gen /\ executed[c[1]] /\ c \in Executors
    BY <1>3 DEF IInv, TypeOK, Claims, ContainerKnows, Accepted, Holding, Renew, Swap, Containers, Tokens,
       Executors
  <2>2. /\ claim' \in Claims /\ claim'.gen = claim.gen + 1 /\ claim'.tok = claim.tok /\ claim'.started /\ claim'.live
        /\ claim'.attempt = claim.attempt /\ claim'.abandoned = claim.abandoned
    <3> DEFINE new == [claim EXCEPT !.live = TRUE]
    <3>1. /\ new \in Claims /\ new.live /\ new.tok = claim.tok /\ new.started = claim.started
          /\ new.abandoned = claim.abandoned /\ new.attempt = claim.attempt
      BY <2>1 DEF Claims
    <3> HIDE DEF new
    <3>2. claim' = [new EXCEPT !.gen = claim.gen + 1] /\ claim.gen + 1 \in Nat
      BY <1>3, <2>1 DEF Swap, new
    <3> QED
      BY <2>1, <3>1, <3>2 DEF Claims
  <2>3. TypeOK'
    BY <1>3, <2>2 DEF IInv, TypeOK, Renew, Enter, driver, watchdog
  <2>4. ClaimShape' /\ ClaimAdvances
    BY <2>1, <2>2, GpuStageAssumption DEF IInv, ClaimShape, ClaimAdvances
  <2>5. /\ cpc'[c] = "predict" /\ cgen'[c] = cgen[c] /\ leased'[c] /\ ContainersKeep({c}) /\ executed' = executed
    BY <1>3 DEF IInv, TypeOK, Enter, ContainersKeep, Renew
  <2>6. ContainerKnows(c)'
    BY <2>1, <2>2, <2>5, GpuStageAssumption DEF ContainerKnows, Lasting, Accepted, Holding, Stale
  <2>7. Undisturbed({c})
    BY <2>1, <2>2, <2>5 DEF IInv, ContainerKnows, Holding, Undisturbed
  <2>8. ExecutorsApart'
    BY <2>1, <2>5 DEF IInv, ExecutorsApart, Executors, ContainersKeep
  <2>9. DriversKeep({}) /\ {} \in SUBSET Drivers /\ {c} \in SUBSET Containers
    BY DEF Renew, driver, DriversKeep
  <2> QED
    BY <2>3, <2>4, <2>5, <2>6, <2>7, <2>8, <2>9, StepKeeps DEF Renew, watchdog
<1> QED
  BY <1>1, <1>2, <1>3 DEF Renew

LEMMA PredictIInv == ASSUME IInv, NEW c \in Containers, Predict(c) PROVE IInv'
<1>1. TypeOK'
  <2>1. result' \in [Tokens -> {"none", "ok", "error"}]
    <3>1. PICK r \in {"ok", "error"} : result' = [result EXCEPT ![c[1]] = IF @ = "none" THEN r ELSE @]
      BY DEF Predict
    <3>2. c[1] \in Tokens
      BY DEF Containers
    <3> QED
      BY <3>1, <3>2 DEF IInv, TypeOK
  <2> QED
    BY <2>1 DEF IInv, TypeOK, Predict, Enter, driver, watchdog
<1>2. cpc'[c] = "resume" /\ cgen' = cgen /\ leased' = leased /\ ContainersKeep({c})
  BY DEF IInv, TypeOK, Predict, Enter, ContainersKeep
<1>3. ContainerKnows(c)' /\ c \notin Executors'
  BY <1>2 DEF IInv, ContainerKnows, Lasting, Accepted, Holding, Executors, Predict
<1> QED
  BY <1>1, <1>2, <1>3, ContainerGoesOn DEF Predict, driver, watchdog

LEMMA ResumeIInv == ASSUME IInv, NEW c \in Containers, Resume(c) PROVE IInv'
<1>1. TypeOK'
  <2>1. pending' \in 0..MaxPending
    BY GpuStageAssumption DEF IInv, TypeOK, Resume, SpawnDriver
  <2> QED
    BY <2>1, AcceptTypes DEF IInv, TypeOK, Resume, journal, driver, watchdog
<1> QED
  BY <1>1, OverIInv DEF Resume, journal, driver, watchdog

LEMMA ContainerDiesIInv == ASSUME IInv, NEW c \in Containers, ContainerDies(c) PROVE IInv'
<1>1. TypeOK'
  BY FaultType DEF IInv, TypeOK, ContainerDies, Enter, journal, driver, watchdog
<1>2. cpc'[c] \in {"over", "queued"} /\ cgen' = cgen /\ ~leased'[c] /\ ContainersKeep({c}) /\ c[1] <= claim.tok
  BY DEF IInv, TypeOK, ContainerKnows, Lasting, ContainerDies, Enter, ContainersKeep
<1>3. c \notin Executors'
  BY <1>2 DEF Executors
<1> QED
  BY <1>1, <1>2, <1>3, OutOfTheWay, ContainerGoesOn DEF ContainerDies, journal, driver, watchdog

(* A driver's dispatch queues a container of a token that has been claimed. *)
LEMMA SpawnIInv == ASSUME IInv, NEW d \in Drivers, Spawn(d) PROVE IInv'
<1>1. sends[d] \in Containers /\ sends[d][1] <= claim.tok /\ sends[d][1] \in Tokens
  BY DEF IInv, TypeOK, DriverKnows, Spawn, Containers
<1>2. cpc' = [cpc EXCEPT ![sends[d]] = "queued"] \/ UNCHANGED cpc
  BY DEF Spawn, Spawned
<1>3. TypeOK' /\ ClaimShape'
  <2>1. cpc' \in [Containers -> {"off", "queued", "start", "execute", "renew", "predict", "resume", "over"}]
    BY <1>1, <1>2 DEF IInv, TypeOK
  <2>2. receipt' \in [Tokens -> BOOLEAN] /\ faults' \in 0..MaxFaults
    BY <1>1, FaultType DEF IInv, TypeOK, Spawn
  <2> QED
    BY <2>1, <2>2, ReturnedTypes DEF IInv, TypeOK, ClaimShape, Spawn, watchdog
<1>4. DriversKeep({d}) /\ DriverKnows(d)'
  BY <1>3, Returned DEF Spawn
<1>5. CASE UNCHANGED cpc
  BY <1>3, <1>4, <1>5, DriverGoesOn DEF Spawn, watchdog, containers
<1>6. CASE cpc' = [cpc EXCEPT ![sends[d]] = "queued"]
  <2>1. ContainersKeep({sends[d]}) /\ cpc'[sends[d]] = "queued"
    BY <1>1, <1>6 DEF IInv, TypeOK, Spawn, ContainersKeep
  <2>2. ContainerKnows(sends[d])
    BY <1>1 DEF IInv
  <2>3. \A c \in {sends[d]} : ContainerKnows(c)'
    <3> SUFFICES ASSUME NEW c, c = sends[d] PROVE ContainerKnows(c)'
      OBVIOUS
    <3> QED
      BY <1>1, <2>1, <2>2 DEF ContainerKnows, Lasting, Accepted, Holding, Spawn
  <2>4. claim.gen \in Nat /\ claim.tok \in Nat
    BY GpuStageAssumption DEF IInv, TypeOK, Claims
  <2>5. ClaimAdvances
    BY <2>4 DEF ClaimAdvances, Spawn
  <2>6. Undisturbed({sends[d]})
    BY DEF IInv, ContainerKnows, Holding, Undisturbed, Spawn
  <2>7. ExecutorsApart'
    BY <2>1 DEF IInv, ExecutorsApart, Executors, ContainersKeep
  <2> QED
    BY <1>1, <1>3, <1>4, <2>1, <2>3, <2>5, <2>6, <2>7, StepKeeps DEF Spawn, watchdog
<1> QED
  BY <1>2, <1>5, <1>6
-----------------------------------------------------------------------------
(* Time.                                                                    *)
LEMMA ClockIInv == ASSUME IInv, Clock PROVE IInv'
<1>0. claim \in Claims /\ claim.gen \in Nat /\ claim.tok \in Nat
  BY GpuStageAssumption DEF IInv, TypeOK, Claims
<1>1. CASE RecoveryGrace
  <2>1. TypeOK'
    BY <1>1 DEF IInv, TypeOK, Clock, RecoveryGrace, driver, containers
  <2>2. DriversKeep({}) /\ {} \in SUBSET Drivers /\ \A d \in {} : DriverKnows(d)'
    BY DEF Clock, driver, DriversKeep
  <2>3. {} \in SUBSET Containers /\ \A c \in {} : ContainerKnows(c)'
    OBVIOUS
  <2> QED
    BY <1>1, <2>1, <2>2, <2>3, ClaimRests, StepKeeps DEF Clock, RecoveryGrace
<1>2. CASE LeaseEnds \/ QueueLimit \/ ResendGrace
  <2>1. /\ claim' \in Claims /\ claim'.gen = claim.gen /\ claim'.tok = claim.tok
        /\ claim'.attempt = claim.attempt /\ claim'.started = claim.started
        /\ claim'.dispatches = claim.dispatches /\ claim'.abandoned = claim.abandoned
        /\ claim'.live => claim.live
    <3>1. CASE LeaseEnds
      BY <1>0, <3>1 DEF LeaseEnds, Claims
    <3>2. CASE QueueLimit
      BY <1>0, <3>2 DEF QueueLimit, Claims
    <3>3. CASE ResendGrace
      BY <1>0, <3>3 DEF ResendGrace, Claims
    <3> QED
      BY <1>2, <3>1, <3>2, <3>3
  <2>2. claim.gen # 0
    <3>1. claim.live \/ claim.tok # 0
      BY <1>2 DEF LeaseEnds, QueueLimit, ResendGrace
    <3> QED
      BY <3>1 DEF IInv, ClaimShape, NoClaim
  <2>3. \A c \in Containers : leased[c] => claim'.live
    BY <1>0, <1>2 DEF LeaseEnds, QueueLimit, ResendGrace, IInv, ContainerKnows, Holding, Claims
  <2>4. TypeOK'
    BY <1>2, <2>1 DEF IInv, TypeOK, Clock, LeaseEnds, QueueLimit, ResendGrace, driver, containers
  <2>5. ClaimShape' /\ ClaimAdvances
    <3>1. ClaimShape'
      BY <2>1, <2>2 DEF IInv, ClaimShape
    <3>2. claim.gen >= claim.gen /\ claim.tok >= claim.tok
      BY <1>0
    <3> QED
      BY <2>1, <3>1, <3>2 DEF ClaimAdvances
  <2>6. Undisturbed({}) /\ ContainersKeep({}) /\ DriversKeep({}) /\ ExecutorsApart'
    <3>1. Undisturbed({})
      BY <2>1, <2>3 DEF IInv, ContainerKnows, Holding, Undisturbed, Clock
    <3> QED
      BY <3>1 DEF IInv, Clock, driver, containers, ContainersKeep, DriversKeep, ExecutorsApart, Executors
  <2>7. {} \in SUBSET Drivers /\ {} \in SUBSET Containers
    OBVIOUS
  <2> QED
    BY <2>4, <2>5, <2>6, <2>7, StepKeeps DEF Clock
<1> QED
  BY <1>1, <1>2 DEF Clock

LEMMA DriverLapseIInv == ASSUME IInv, DriverLapse PROVE IInv'
<1>1. TypeOK'
  BY DEF IInv, TypeOK, DriverLapse, journal, containers, watchdog
<1>2. DriversKeep({}) /\ {} \in SUBSET Drivers /\ {} \in SUBSET Containers
  BY DEF DriverLapse, DriversKeep
<1> QED
  BY <1>1, <1>2, ClaimRests, StepKeeps DEF DriverLapse, journal, watchdog
-----------------------------------------------------------------------------
(* The watchdog.                                                            *)
LEMMA WatchSteps ==
    ASSUME IInv, TypeOK', ClaimShape', ClaimAdvances, Undisturbed({}),
           UNCHANGED <<dpc, dsaw, sends, executed, containers>>,
           NEW r \in Reconcilers, WatchKnows(r)',
           \A s \in Reconcilers \ {r} : rpc'[s] = rpc[s] /\ rsaw'[s] = rsaw[s]
    PROVE  IInv'
<1>1. \A d \in Drivers : DriverKnows(d)'
  BY DriverStays
<1>2. \A c \in Containers : ContainerKnows(c)'
  <2>1. {} \in SUBSET Containers /\ \A c \in Containers : c \in Containers \ {}
    OBVIOUS
  <2> QED
    BY <2>1, ContainerStays DEF containers
<1>3. \A s \in Reconcilers : WatchKnows(s)'
  BY WatchStays
<1>4. ExecutorsApart'
  BY DEF IInv, ExecutorsApart, Executors, containers
<1> QED
  BY <1>1, <1>2, <1>3, <1>4 DEF IInv

LEMMA ViewTypes ==
    ASSUME IInv
    PROVE  Older \in 0..MaxAttempts /\ Current \in BOOLEAN /\ Unseen \in BOOLEAN /\ Generation \in Nat
           /\ Marker \in (0..MaxAttempts) \X Nat
<1>1. claim.tok \in 0..MaxAttempts /\ progress \in 0..MaxAttempts
  BY DEF IInv, TypeOK, Claims
<1>2. Older \in 0..MaxAttempts
  <2>1. CASE ~Known
    BY <2>1, GpuStageAssumption DEF Older
  <2>2. CASE Known
    <3> DEFINE S == {t \in 1..(claim.tok - 1) : result[t] # "none"}
    <3>1. claim.tok - 1 \in 0..MaxAttempts /\ claim.tok - 1 \in Nat /\ claim.tok - 1 >= 1 - 1
      BY <1>1, <2>2, GpuStageAssumption DEF Known
    <3>2. IsFiniteSet(1..(claim.tok - 1)) /\ Cardinality(1..(claim.tok - 1)) = claim.tok - 1
      BY <3>1, FS_Interval
    <3>3. S \subseteq 1..(claim.tok - 1)
      OBVIOUS
    <3>4. IsFiniteSet(S) /\ Cardinality(S) <= claim.tok - 1
      BY <3>2, <3>3, FS_Subset
    <3>5. Cardinality(S) \in Nat
      BY <3>4, FS_CardinalityType
    <3>6. Cardinality(S) \in 0..MaxAttempts
      BY <3>1, <3>4, <3>5, GpuStageAssumption
    <3> QED
      BY <2>2, <3>6 DEF Older
  <2> QED
    BY <2>1, <2>2
<1>3. Generation \in Nat
  BY <1>1, <1>2, GpuStageAssumption DEF Generation
<1> QED
  BY <1>1, <1>2, <1>3 DEF Current, Unseen, Known, Marker

LEMMA LookIInv == ASSUME IInv, NEW r \in Reconcilers, Look(r) PROVE IInv'
<1> DEFINE n == IF recovery.marker = Marker /\ recovery.gen # 0 THEN recovery.attempt + 1 ELSE 1
           view == [claim |-> IF Known THEN claim ELSE NoClaim, current |-> Current, older |-> Older,
                    unseen |-> Unseen, marker |-> Marker, gen |-> recovery.gen, attempt |-> n,
                    before |-> recovery.older]
<1>1. n \in Nat /\ recovery.gen \in Nat /\ recovery.older \in 0..MaxAttempts
  BY GpuStageAssumption DEF IInv, TypeOK
<1>2. (IF Known THEN claim ELSE NoClaim) \in Claims /\ Seen(IF Known THEN claim ELSE NoClaim)
  <2>1. claim \in Claims /\ Seen(claim)
    BY GpuStageAssumption DEF IInv, TypeOK, Claims, Seen
  <2> QED
    BY <2>1, NoClaimIsSeen DEF IInv
<1>3. view \in Views
  BY <1>1, <1>2, ViewTypes DEF Views
<1>4. rsaw' = [rsaw EXCEPT ![r] = view] /\ rpc' = [rpc EXCEPT ![r] = IF Spent(n) THEN "fence" ELSE "dispatch"]
  BY DEF Look, Again
<1>5. TypeOK'
  <2>1. rpc' \in [Reconcilers -> {"idle", "fence", "dispatch", "spawn"}] /\ rsaw' \in [Reconcilers -> Views]
    BY <1>3, <1>4 DEF IInv, TypeOK
  <2> QED
    BY <2>1 DEF IInv, TypeOK, Look, journal, driver, containers
<1>6. rsaw'[r] = view /\ (rpc'[r] = "dispatch" => ~Spent(n)) /\ view.attempt = n
      /\ view.claim = IF Known THEN claim ELSE NoClaim
  BY <1>4 DEF IInv, TypeOK
<1>7. WatchKnows(r)'
  <2>1. Seen(rsaw[r].claim)'
    BY <1>2, <1>6 DEF Seen, Look, journal
  <2>2. rpc'[r] = "dispatch" => rsaw'[r].attempt <= MaxRecoveries
    BY <1>1, <1>6, GpuStageAssumption DEF Spent
  <2> QED
    BY <2>1, <2>2 DEF WatchKnows
<1>8. \A s \in Reconcilers \ {r} : rpc'[s] = rpc[s] /\ rsaw'[s] = rsaw[s]
  BY <1>4 DEF IInv, TypeOK
<1>9. UNCHANGED <<claim, executed, containers, dpc, dsaw, sends>>
  BY DEF Look, journal, driver
<1> QED
  BY <1>5, <1>7, <1>8, <1>9, ClaimRests, WatchSteps

(* A watchdog that has ended knows nothing.                                 *)
LEMMA WatchEnded ==
    ASSUME IInv, TypeOK', ClaimShape', NEW r \in Reconcilers, Ends(r)
    PROVE  WatchKnows(r)' /\ \A s \in Reconcilers \ {r} : rpc'[s] = rpc[s] /\ rsaw'[s] = rsaw[s]
<1>1. rpc'[r] = "idle" /\ rsaw'[r].claim = NoClaim
      /\ \A s \in Reconcilers \ {r} : rpc'[s] = rpc[s] /\ rsaw'[s] = rsaw[s]
  BY DEF IInv, TypeOK, Ends, Again, NoView
<1>2. Seen(NoClaim)'
  BY NothingSeen DEF TypeOK, ClaimShape, Seen
<1> QED
  BY <1>1, <1>2 DEF WatchKnows, Seen

LEMMA EndedTypes ==
    ASSUME IInv, NEW r \in Reconcilers, Ends(r)
    PROVE  rpc' \in [Reconcilers -> {"idle", "fence", "dispatch", "spawn"}] /\ rsaw' \in [Reconcilers -> Views]
<1>1. NoView \in Views
  <2>1. NoClaim \in Claims /\ 0 \in 0..MaxAttempts
    BY NoClaimIsSeen, GpuStageAssumption DEF IInv
  <2> QED
    BY <2>1 DEF NoView, Views
<1> QED
  BY <1>1 DEF IInv, TypeOK, Ends, Again

LEMMA GiveUpIInv == ASSUME IInv, NEW r \in Reconcilers, GiveUp(r) PROVE IInv'
<1> DEFINE v == rsaw[r].claim
<1>0. claim \in Claims /\ claim.gen \in Nat /\ claim.tok \in Nat /\ v \in Claims
  BY GpuStageAssumption DEF IInv, TypeOK, Claims, Views
<1>1. Ends(r) /\ told' \subseteq {"success", "error", "exhausted"}
      /\ UNCHANGED <<result, executed, receipt, progress, terminal, driver, containers, recovery,
                     pending, faults>>
  BY DEF GiveUp, IInv, TypeOK
<1>2. CASE UNCHANGED claim
  <2>1. TypeOK' /\ ClaimShape'
    BY <1>1, <1>2, EndedTypes DEF IInv, TypeOK, ClaimShape, driver, containers
  <2> QED
    BY <1>1, <1>2, <2>1, WatchEnded, ClaimRests, WatchSteps DEF driver
<1>3. CASE ~v.started /\ Swap(v.gen, [claim EXCEPT !.abandoned = TRUE])
  <2>1. /\ claim' \in Claims /\ claim'.gen = claim.gen + 1 /\ claim'.abandoned
        /\ claim'.tok = claim.tok /\ claim'.started = claim.started /\ claim'.live = claim.live
        /\ claim'.attempt = claim.attempt
    <3> DEFINE new == [claim EXCEPT !.abandoned = TRUE]
    <3>1. /\ new \in Claims /\ new.abandoned /\ new.tok = claim.tok /\ new.started = claim.started
          /\ new.live = claim.live /\ new.attempt = claim.attempt
      BY <1>0 DEF Claims
    <3> HIDE DEF new
    <3>2. claim' = [new EXCEPT !.gen = claim.gen + 1] /\ claim.gen + 1 \in Nat
      BY <1>0, <1>3 DEF Swap, new
    <3> QED
      BY <3>1, <3>2 DEF Claims
  <2>2. ~claim.started /\ ~claim.live
    BY <1>3 DEF IInv, WatchKnows, Seen, ClaimShape, Swap
  <2>3. TypeOK'
    BY <1>1, <2>1, EndedTypes DEF IInv, TypeOK, driver, containers
  <2>4. ClaimShape' /\ ClaimAdvances
    <3>1. claim.gen + 1 # 0 /\ claim.gen + 1 >= claim.gen /\ claim.gen + 1 # claim.gen
          /\ claim.tok >= claim.tok
      BY <1>0
    <3>2. ClaimShape'
      BY <2>1, <3>1 DEF IInv, ClaimShape
    <3> QED
      BY <2>1, <3>1, <3>2 DEF ClaimAdvances
  <2>5. Undisturbed({})
    BY <1>1, <2>1, <2>2 DEF IInv, ContainerKnows, Holding, Undisturbed
  <2> QED
    BY <1>1, <2>3, <2>4, <2>5, WatchEnded, WatchSteps DEF driver
<1> QED
  BY <1>2, <1>3 DEF GiveUp

LEMMA RecordIInv == ASSUME IInv, NEW r \in Reconcilers, Record(r) PROVE IInv'
<1>1. UNCHANGED <<claim, executed, containers, dpc, dsaw, sends>>
  BY DEF Record, journal, driver
<1>2. CASE Ends(r) /\ UNCHANGED recovery
  <2>1. TypeOK' /\ ClaimShape'
    BY <1>2, EndedTypes DEF IInv, TypeOK, ClaimShape, Record, journal, driver, containers
  <2> QED
    BY <1>1, <1>2, <2>1, WatchEnded, ClaimRests, WatchSteps
<1>3. CASE /\ recovery' = [gen |-> recovery.gen + 1, marker |-> rsaw[r].marker,
                          attempt |-> rsaw[r].attempt, older |-> rsaw[r].older, fresh |-> TRUE]
           /\ Again(r, "spawn") /\ UNCHANGED rsaw
  <2>1. /\ rsaw[r].attempt \in 0..MaxRecoveries /\ rsaw[r].marker \in (0..MaxAttempts) \X Nat
        /\ rsaw[r].older \in 0..MaxAttempts /\ recovery.gen + 1 \in Nat
    BY GpuStageAssumption DEF IInv, TypeOK, Views, WatchKnows, Record
  <2>2. recovery' \in [gen : Nat, marker : (0..MaxAttempts) \X Nat, attempt : 0..MaxRecoveries,
                       older : 0..MaxAttempts, fresh : BOOLEAN]
    BY <1>3, <2>1
  <2>3. TypeOK'
    BY <1>3, <2>2 DEF IInv, TypeOK, Record, Again, journal, driver, containers
  <2>4. rpc'[r] = "spawn" /\ rsaw' = rsaw /\ \A s \in Reconcilers \ {r} : rpc'[s] = rpc[s]
    BY <1>3 DEF IInv, TypeOK, Again
  <2>5. WatchKnows(r)'
    BY <1>1, <2>4 DEF IInv, WatchKnows, Seen
  <2> QED
    BY <1>1, <2>3, <2>4, <2>5, ClaimRests, WatchSteps
<1> QED
  BY <1>2, <1>3 DEF Record

LEMMA SendIInv == ASSUME IInv, NEW r \in Reconcilers, Send(r) PROVE IInv'
<1>1. TypeOK' /\ ClaimShape'
  <2>1. pending' \in 0..MaxPending
    BY GpuStageAssumption DEF IInv, TypeOK, Send, SpawnDriver
  <2>2. faults' \in 0..MaxFaults
    BY FaultType DEF IInv, TypeOK, Send
  <2>3. recovery' \in [gen : Nat, marker : (0..MaxAttempts) \X Nat, attempt : 0..MaxRecoveries,
                       older : 0..MaxAttempts, fresh : BOOLEAN]
    <3>1. CASE UNCHANGED recovery
      BY <3>1 DEF IInv, TypeOK
    <3>2. CASE recovery' = [recovery EXCEPT !.older = rsaw[r].before, !.gen = @ + 1]
      <4>1. rsaw[r].before \in 0..MaxAttempts
        BY DEF IInv, TypeOK, Views
      <4>2. recovery.gen + 1 \in Nat
        BY DEF IInv, TypeOK
      <4> QED
        BY <3>2, <4>1, <4>2 DEF IInv, TypeOK
    <3> QED
      BY <3>1, <3>2 DEF Send
  <2> QED
    BY <2>1, <2>2, <2>3, EndedTypes DEF IInv, TypeOK, ClaimShape, Send, journal, driver, containers
<1> QED
  BY <1>1, WatchEnded, ClaimRests, WatchSteps DEF Send, journal, driver
-----------------------------------------------------------------------------
LEMMA InitIInv == Init => IInv
<1> SUFFICES ASSUME Init PROVE IInv
  OBVIOUS
<1> USE GpuStageAssumption
<1>1. NoClaim \in Claims /\ NoView \in Views
  <2>1. NoClaim \in Claims /\ 0 \in 0..MaxAttempts
    BY DEF NoClaim, Claims
  <2> QED
    BY <2>1 DEF NoView, Views
<1>2. TypeOK
  <2>1. 0 \in 0..MaxAttempts /\ 0 \in 0..MaxRecoveries /\ 0 \in 0..MaxFaults /\ 1 \in 0..MaxPending
    OBVIOUS
  <2>2. recovery \in [gen : Nat, marker : (0..MaxAttempts) \X Nat, attempt : 0..MaxRecoveries,
                      older : 0..MaxAttempts, fresh : BOOLEAN]
    BY <2>1 DEF Init
  <2> QED
    BY <1>1, <2>1, <2>2 DEF Init, TypeOK
<1>3. ClaimShape
  BY DEF Init, ClaimShape, NoClaim
<1>4. Seen(NoClaim)
  BY <1>2, <1>3, NoClaimIsSeen
<1>5. Executors = {}
  BY DEF Init, Executors
<1>6. \A d \in Drivers : DriverKnows(d)
  BY <1>4 DEF Init, DriverKnows, NoClaim
<1>7. \A c \in Containers : ContainerKnows(c)
  BY DEF Init, ContainerKnows, Lasting, Accepted, Holding, NoClaim
<1>8. \A r \in Reconcilers : WatchKnows(r)
  BY <1>4 DEF Init, WatchKnows, NoView
<1> QED
  BY <1>2, <1>3, <1>5, <1>6, <1>7, <1>8 DEF IInv, ExecutorsApart

LEMMA StepIInv == IInv /\ [Next]_vars => IInv'
<1> SUFFICES ASSUME IInv, [Next]_vars PROVE IInv'
  OBVIOUS
<1>1. ASSUME NEW d \in Drivers, Drive(d) PROVE IInv'
  BY <1>1, BeginIInv, ReadIInv, ViewIInv, AbandonIInv, ResendIInv, NewTokenIInv, ProgressIInv, LeaveIInv,
     SpawnIInv, DeliverIInv, FailIInv, TellIInv DEF Drive
<1>2. ASSUME NEW c \in Containers, Compute(c) PROVE IInv'
  BY <1>2, ArriveIInv, StartIInv, ExecuteIInv, RenewIInv, PredictIInv, ResumeIInv DEF Compute
<1>3. ASSUME NEW r \in Reconcilers, Watch(r) PROVE IInv'
  BY <1>3, LookIInv, GiveUpIInv, RecordIInv, SendIInv DEF Watch
<1>4. CASE UNCHANGED vars
  <2>1. TypeOK'
    BY <1>4 DEF vars, journal, driver, containers, watchdog, IInv, TypeOK
  <2>2. DriversKeep({}) /\ {} \in SUBSET Drivers /\ {} \in SUBSET Containers
    BY <1>4 DEF vars, driver, DriversKeep
  <2> QED
    BY <1>4, <2>1, <2>2, ClaimRests, StepKeeps DEF vars, journal, watchdog
<1> QED
  BY <1>1, <1>2, <1>3, <1>4, ClockIInv, DriverLapseIInv, DriverDiesIInv, ContainerDiesIInv DEF Next

LEMMA IInvariance == Spec => []IInv
<1> QED
  BY InitIInv, StepIInv, PTL DEF Spec

(* The variables stay in their ranges: no claim counts more attempts or     *)
(* dispatches than the code's limits, no watchdog more than its own.        *)
THEOREM TypeCorrect == Spec => []TypeOK
<1>1. IInv => TypeOK
  BY DEF IInv
<1> QED
  BY <1>1, IInvariance, PTL

(* One container at a time computes the stage.                              *)
THEOREM OneGpuRunHolds == Spec => []OneGpuRun
<1>1. IInv => OneGpuRun
  <2> SUFFICES ASSUME IInv PROVE Cardinality({c \in Containers : cpc[c] = "predict"}) <= 1
    BY DEF OneGpuRun
  <2> DEFINE S == {c \in Containers : cpc[c] = "predict"}
  <2>1. \A c, e \in S : c = e
    <3>1. \A c \in S : claim.tok = c[1] /\ c \in Executors
      BY DEF IInv, ContainerKnows, Holding, Executors
    <3> QED
      BY <3>1 DEF IInv, ExecutorsApart
  <2>2. CASE S = {}
    BY <2>2, FS_EmptySet
  <2>3. CASE S # {}
    <3>1. PICK c : S = {c}
      BY <2>1, <2>3
    <3> QED
      BY <3>1, FS_Singleton
  <2> QED
    BY <2>2, <2>3
<1> QED
  BY <1>1, IInvariance, PTL

(* A request abandoned at its queue limit, or by the watchdog, does not run.*)
THEOREM AbandonedNeverRunsHolds == Spec => []AbandonedNeverRuns
<1>1. IInv => AbandonedNeverRuns
  BY DEF IInv, ContainerKnows, Holding, AbandonedNeverRuns
<1> QED
  BY <1>1, IInvariance, PTL
=============================================================================
