----------------------------- MODULE FencedLease -----------------------------
(***************************************************************************)
(* What the leases of the pipeline stages promise to their workers.  At    *)
(* most one claim holds a stage; a stage is claimed only while nobody      *)
(* holds it; and once a claim no longer holds its stage, because it        *)
(* finished, was revoked or let the lease run out, it never holds it       *)
(* again.  A worker that was overtaken is therefore fenced off for good.   *)
(***************************************************************************)
CONSTANTS Stages, Ids, None

VARIABLES
  holder,    \* [Stages -> the id of the claim that holds the stage, or None]
  spent      \* [Stages -> the claims that held the stage and lost it]

vars == <<holder, spent>>

TypeOK ==
  /\ holder \in [Stages -> Ids \union {None}]
  /\ spent \in [Stages -> SUBSET Ids]

Init ==
  /\ holder = [s \in Stages |-> None]
  /\ spent = [s \in Stages |-> {}]

Acquire(s, o) ==
  /\ holder[s] = None
  /\ o \notin spent[s]
  /\ holder' = [holder EXCEPT ![s] = o]
  /\ UNCHANGED spent

Release(s) ==
  /\ holder[s] # None
  /\ holder' = [holder EXCEPT ![s] = None]
  /\ spent' = [spent EXCEPT ![s] = @ \union {holder[s]}]

Next == \E s \in Stages : Release(s) \/ \E o \in Ids : Acquire(s, o)

Spec == Init /\ [][Next]_vars
=============================================================================
