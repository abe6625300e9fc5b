----------------------- MODULE BrokerExecutionProofs -----------------------
(***************************************************************************)
(* One order for each leg, none dropped from the count and no deal counted *)
(* twice, for any number of packets, intents, legs, requests and faults.   *)
(*                                                                         *)
(* A leg that was claimed is never RESERVED again, so one request at most  *)
(* ever tries it; a leg that has no order and that nobody tries any more,  *)
(* or whose order failed, is dead for good.  And the versions that recorded *)
(* deals carry are those at which the broker's order was filled.           *)
(***************************************************************************)
EXTENDS BrokerExecution, FiniteSetTheorems, TLAPS

Taken(l)  == leg[l].status \notin {"absent", "RESERVED"}
Trying(l) == \E r \in Requests : thread[r].pc \in {"claimed", "submit"} /\ thread[r].leg = l
Dead(l)   == \/ order[l].state = "failed"
             \/ Taken(l) /\ order[l].placed = 0 /\ ~Trying(l)
AllDead(i) == \A l \in LegsOf(i) : Dead(l)

(* The deals that were added to the leg's shares, or are about to be.       *)
Counted(l) == {e \in events : e.ev.leg = l /\ e.ev.type = "DEAL_CALLBACK" /\ e.matched}
Within(n, l)  == Polled(l) \/ n <= Cardinality(Counted(l))

OrderOK(l) ==
  /\ order[l].placed <= 1
  /\ order[l].placed = 0 => order[l].state = "none" /\ order[l].filled = 0 /\ order[l].ver = 0
  /\ order[l].placed # 0 => order[l].state # "none" /\ Taken(l)
  /\ order[l].state = "sent" => order[l].filled = 0 /\ order[l].ver = 0
  /\ order[l].state = "live" => order[l].ver = order[l].filled + 1 /\ order[l].filled < Requested
LegOK(l) ==
  /\ leg[l].status = "REJECTED" => Dead(l)
  /\ Within(leg[l].filled, l)
IntentOK(i) == intent[i] = "REJECTED" => AllDead(i)

(* What an event tells of the order it is about.                            *)
Truthful(ev) ==
  /\ ev \in Events
  /\ ev.status = "failed" => order[ev.leg].state = "failed"
  /\ ev.type = "DEAL_CALLBACK" => ev.shares = 1 /\ ev.ver - 1 \in 1 .. order[ev.leg].filled
  /\ ev.type \in {"ORDER_CALLBACK", "SUBMIT_ACK"} => ev.shares = 0
EventsOK ==
  /\ IsFiniteSet(events) /\ \A e \in events : Truthful(e.ev)
  /\ \A e, f \in events : IdOf(e.ev) = IdOf(f.ev) => e = f
QueueOK == IsFiniteSet(queue) /\ \A ev \in queue : Truthful(ev)

(* What a thread knows of the event it records, and of the status it is to  *)
(* publish.                                                                 *)
Recording(t) ==
  /\ thread[t].pub # None => (thread[t].pub.status = "REJECTED" => AllDead(thread[t].pub.intent))
  /\ thread[t].pc \in {"match", "insert", "apply"} => Truthful(thread[t].ev)
  /\ thread[t].pc = "insert" /\ thread[t].row # None => Within(thread[t].row.filled, thread[t].ev.leg)
  /\ thread[t].pc = "apply" => /\ thread[t].row # None
                               /\ Within(FilledBy(thread[t].row, thread[t].ev), thread[t].ev.leg)
Snapshot == \A ev \in thread[Poller].todo : Truthful(ev)

(* A request holds a leg from its claim to the end of its acknowledgement.  *)
Holding(r) == thread[r].pc \in {"claimed", "submit", "read", "ack", "match", "insert", "apply",
                                "attach", "attaching", "reject", "unknown"}
Holder(r) ==
  /\ Holding(r) => thread[r].leg # None /\ Taken(thread[r].leg)
  /\ thread[r].pc \in {"claimed", "submit"} => order[thread[r].leg].placed = 0
  /\ thread[r].pc = "reject" => Dead(thread[r].leg)
  /\ thread[r].pc = "ack" => thread[r].row # None
  /\ thread[r].pc = "attaching" =>
       /\ thread[r].row # None /\ Within(thread[r].row.filled, thread[r].leg)
       /\ \A e \in thread[r].todo : e \in events /\ e.ev.leg = thread[r].leg /\ ~e.matched
HoldersApart ==
  \A q, r \in Requests : Holding(q) /\ Holding(r) /\ thread[q].leg = thread[r].leg => q = r

Known == /\ \A t \in Threads : Recording(t)
         /\ Snapshot /\ HoldersApart /\ \A r \in Requests : Holder(r)
Stored == /\ \A l \in Legs : OrderOK(l) /\ LegOK(l)
          /\ \A i \in Intents : IntentOK(i)
          /\ EventsOK /\ QueueOK
IInv == TypeOK /\ Stored /\ Known
-----------------------------------------------------------------------------
(* The operators.                                                           *)
LEMMA ReduceType ==
  ASSUME NEW status, NEW ev \in Events, NEW n \in Nat
  PROVE  /\ Reduce(status, ev, n) \in Statuses \ {"absent", "RESERVED"}
         /\ Reduce(status, ev, n) = "REJECTED" => ev.status = "failed"
BY DEF Reduce, Statuses, Filling

LEMMA FilledType ==
  ASSUME NEW row \in Rows, NEW ev \in Events
  PROVE  /\ FilledBy(row, ev) \in Nat
         /\ ev.type = "DEAL_CALLBACK" => FilledBy(row, ev) = row.filled + ev.shares
         /\ ev.type # "DEAL_CALLBACK" => FilledBy(row, ev) \in {row.filled, ev.shares}
         /\ ev.type # "DEAL_CALLBACK" /\ ev.shares = 0 => FilledBy(row, ev) = row.filled
BY DEF FilledBy, Larger, Rows, Events

LEMMA RefreshedType ==
  ASSUME NEW i \in Intents, NEW rows \in [Legs -> Rows]
  PROVE  /\ Refreshed(i, rows) \in Statuses \ {"absent"}
         /\ Refreshed(i, rows) = "REJECTED" => \A l \in LegsOf(i) : rows[l].status = "REJECTED"
<1> DEFINE S == {rows[l].status : l \in LegsOf(i)}
<1>1. Refreshed(i, rows) \in Statuses \ {"absent"} /\ (Refreshed(i, rows) = "REJECTED" => S = {"REJECTED"})
  BY DEF Refreshed, Statuses, Filling
<1>2. S = {"REJECTED"} => \A l \in LegsOf(i) : rows[l].status = "REJECTED"
  OBVIOUS
<1> QED
  BY <1>1, <1>2

LEMMA AppliedType ==
  ASSUME TypeOK, NEW row \in Rows, NEW ev \in Events
  PROVE  /\ Applied(row, ev) \in [Legs -> Rows]
         /\ \A l \in Legs \ {ev.leg} : Applied(row, ev)[l] = leg[l]
         /\ Applied(row, ev)[ev.leg].status = Reduce(row.status, ev, FilledBy(row, ev))
         /\ Applied(row, ev)[ev.leg].filled \in {leg[ev.leg].filled, FilledBy(row, ev)}
<1>1. FilledBy(row, ev) \in Nat /\ ev.leg \in Legs
  BY FilledType DEF Events
<1>2. Reduce(row.status, ev, FilledBy(row, ev)) \in Statuses
  BY <1>1, ReduceType
<1>3. leg \in [Legs -> Rows] /\ leg[ev.leg].filled \in Nat
  BY <1>1 DEF TypeOK, Rows
<1> QED
  BY <1>1, <1>2, <1>3 DEF Applied, Rows, Larger

LEMMA IdleFrame == Idle \in Frames
BY NoneAssumption DEF Idle, Frames, Pcs

LEMMA RowIsNotNone ==
  ASSUME NEW row \in Rows
  PROVE  row # None
BY RowsAssumption

LEMMA InThreads == Requests \subseteq Threads /\ Writer \in Threads /\ Poller \in Threads
BY DEF Threads

LEMMA SetThread ==
  ASSUME TypeOK, NEW t \in Threads, NEW frame \in Frames, Set(t, frame)
  PROVE  /\ thread' \in [Threads -> Frames] /\ thread'[t] = frame
         /\ \A q \in Threads \ {t} : thread'[q] = thread[q]
<1>1. thread \in [Threads -> Frames]
  BY DEF TypeOK
<1> QED
  BY <1>1 DEF Set
-----------------------------------------------------------------------------
(* What no step takes back.                                                 *)
LegForward == \A l \in Legs : Taken(l) => Taken(l)'
TryForward ==
  \A r \in Requests : thread'[r].pc \in {"claimed", "submit"} =>
    \/ thread[r].pc \in {"claimed", "submit"} /\ thread'[r].leg = thread[r].leg
    \/ ~Taken(thread'[r].leg)
OrderForward ==
  \A l \in Legs : /\ order'[l].placed = order[l].placed \/ Trying(l)
                  /\ order[l].state = "failed" => order'[l].state = "failed"
                  /\ order'[l].filled >= order[l].filled
EventsForward ==
  /\ IsFiniteSet(events')
  /\ \A e \in events : e \in events' \/ (~e.matched /\ [e EXCEPT !.matched = TRUE] \in events')
Forward == LegForward /\ TryForward /\ OrderForward /\ EventsForward

LEMMA DeadStays ==
  ASSUME Forward, NEW l \in Legs, Dead(l)
  PROVE  Dead(l)'
<1>1. CASE order[l].state = "failed"
  BY <1>1 DEF Forward, OrderForward, Dead
<1>2. CASE Taken(l) /\ order[l].placed = 0 /\ ~Trying(l)
  <2>1. Taken(l)' /\ order'[l].placed = 0
    BY <1>2 DEF Forward, LegForward, OrderForward
  <2>2. ~Trying(l)'
    BY <1>2 DEF Forward, TryForward, Trying
  <2> QED
    BY <2>1, <2>2 DEF Dead
<1> QED
  BY <1>1, <1>2 DEF Dead

LEMMA TruthfulStays ==
  ASSUME TypeOK, TypeOK', Forward, NEW ev, Truthful(ev)
  PROVE  Truthful(ev)'
<1>1. ev \in Events /\ ev.leg \in Legs /\ ev.ver \in Nat
  BY DEF Truthful, Events
<1>2. order[ev.leg].filled \in Nat /\ order'[ev.leg].filled \in Nat
  BY <1>1, BoundsAssumption DEF TypeOK, Orders
<1> QED
  BY <1>1, <1>2 DEF Truthful, Forward, OrderForward

LEMMA CountedGrows ==
  ASSUME TypeOK, EventsForward, NEW l \in Legs
  PROVE  /\ Counted(l) \subseteq Counted(l)' /\ IsFiniteSet(Counted(l)')
         /\ Cardinality(Counted(l)) <= Cardinality(Counted(l)')
         /\ Cardinality(Counted(l)) \in Nat /\ Cardinality(Counted(l)') \in Nat
<1>1. Counted(l) \subseteq Counted(l)'
  BY DEF Counted, EventsForward
<1>2. Counted(l)' \subseteq events' /\ IsFiniteSet(events')
  BY DEF Counted, EventsForward
<1>3. IsFiniteSet(Counted(l)')
  BY <1>2, FS_Subset
<1> QED
  BY <1>1, <1>3, FS_Subset, FS_CardinalityType

LEMMA PolledStays ==
  ASSUME TypeOK, EventsForward, NEW l \in Legs, Polled(l)
  PROVE  Polled(l)'
<1>1. PICK e \in events : e.ev.type = "STATUS_RECONCILIATION" /\ e.ev.leg = l /\ e.ev.shares > 0
  BY DEF Polled
<1>2. e \in Entries
  BY DEF TypeOK
<1>3. [e EXCEPT !.matched = TRUE].ev = e.ev
  BY <1>2 DEF Entries
<1> QED
  BY <1>1, <1>3 DEF EventsForward, Polled

LEMMA WithinStays ==
  ASSUME TypeOK, EventsForward, NEW l \in Legs, NEW n \in Nat, Within(n, l)
  PROVE  Within(n, l)'
BY CountedGrows, PolledStays DEF Within
-----------------------------------------------------------------------------
(* A step moves the threads of T; the others find what they know still true. *)
Holds(r, l) == Holding(r) /\ thread[r].leg = l
Moves(T) ==
  /\ \A t \in Threads \ T : thread'[t] = thread[t]
  /\ \A r \in T \intersect Requests : Holding(r)' =>
       Holds(r, thread'[r].leg) \/ (~Taken(thread'[r].leg) /\ T = {r})
  /\ \A l \in Legs : order'[l].placed = order[l].placed \/ \E r \in T \intersect Requests : Holds(r, l)
  /\ \A e \in events : e \in events' \/ \E r \in T \intersect Requests : Holds(r, e.ev.leg)
Informed(t) ==
  /\ Recording(t)
  /\ t \in Requests => Holder(t)
  /\ t = Poller => Snapshot

LEMMA RecordingStays ==
  ASSUME TypeOK, TypeOK', Forward, NEW t \in Threads, thread'[t] = thread[t], Recording(t)
  PROVE  Recording(t)'
<1>1. thread[t] \in Frames
  BY DEF TypeOK
<1>2. thread[t].pub # None /\ thread[t].pub.status = "REJECTED" => AllDead(thread[t].pub.intent)'
  BY DeadStays DEF Recording, AllDead, LegsOf
<1>3. thread[t].pc \in {"match", "insert", "apply"} => Truthful(thread[t].ev)'
  BY TruthfulStays DEF Recording
<1>4. thread[t].pc = "insert" /\ thread[t].row # None => Within(thread[t].row.filled, thread[t].ev.leg)'
  <2> HAVE thread[t].pc = "insert" /\ thread[t].row # None
  <2>1. thread[t].ev \in Events /\ thread[t].row \in Rows
    BY <1>1 DEF Recording, Truthful, Frames
  <2>2. thread[t].ev.leg \in Legs /\ thread[t].row.filled \in Nat
    BY <2>1 DEF Events, Rows
  <2> QED
    BY <2>2, WithinStays DEF Recording, Forward
<1>5. thread[t].pc = "apply" => /\ thread[t].row # None
                                /\ Within(FilledBy(thread[t].row, thread[t].ev), thread[t].ev.leg)'
  <2> HAVE thread[t].pc = "apply"
  <2>1. thread[t].ev \in Events /\ thread[t].row \in Rows
    BY <1>1 DEF Recording, Truthful, Frames
  <2>2. thread[t].ev.leg \in Legs /\ FilledBy(thread[t].row, thread[t].ev) \in Nat
    BY <2>1, FilledType DEF Events
  <2> QED
    BY <2>2, WithinStays DEF Recording, Forward
<1>6. FilledBy(thread[t].row, thread[t].ev)' = FilledBy(thread[t].row, thread[t].ev)
  BY DEF FilledBy, Larger
<1> QED
  BY <1>2, <1>3, <1>4, <1>5, <1>6 DEF Recording

LEMMA HolderStays ==
  ASSUME TypeOK, TypeOK', Known, Forward, NEW T \in SUBSET Threads, Moves(T), NEW r \in Requests \ T
  PROVE  Holder(r)'
<1>1. thread'[r] = thread[r] /\ thread[r] \in Frames /\ Holder(r)
  BY InThreads DEF TypeOK, Moves, Known
<1>2. \A l \in Legs : Holds(r, l) => ~ \E q \in T \intersect Requests : Holds(q, l)
  BY DEF Known, HoldersApart, Holds
<1>3. Holding(r) => thread[r].leg \in Legs /\ Taken(thread[r].leg)'
  BY <1>1 DEF Holder, Frames, Forward, LegForward
<1>4. thread[r].pc \in {"claimed", "submit"} => order'[thread[r].leg].placed = 0
  BY <1>1, <1>2, <1>3 DEF Holder, Holding, Holds, Moves
<1>5. thread[r].pc = "reject" => Dead(thread[r].leg)'
  BY <1>1, <1>3, DeadStays DEF Holder, Holding
<1>6. thread[r].pc = "attaching" =>
        /\ Within(thread[r].row.filled, thread[r].leg)'
        /\ \A e \in thread[r].todo : e \in events'
  <2> HAVE thread[r].pc = "attaching"
  <2>1. Holds(r, thread[r].leg) /\ thread[r].leg \in Legs /\ thread[r].row \in Rows
    BY <1>1, <1>3 DEF Holding, Holds, Holder, Frames
  <2>2. Within(thread[r].row.filled, thread[r].leg)'
    BY <1>1, <2>1, WithinStays DEF Holder, Rows, Forward
  <2>3. \A e \in thread[r].todo : e \in events'
    BY <1>1, <1>2, <2>1 DEF Holder, Moves
  <2> QED
    BY <2>2, <2>3
<1>7. Holding(r)' <=> Holding(r)
  BY <1>1 DEF Holding
<1> QED
  BY <1>1, <1>3, <1>4, <1>5, <1>6, <1>7 DEF Holder

LEMMA ApartStays ==
  ASSUME TypeOK, Known, NEW T \in SUBSET Threads, Moves(T)
  PROVE  HoldersApart'
<1> SUFFICES ASSUME NEW q \in Requests, NEW r \in Requests,
                    Holding(q)', Holding(r)', thread'[q].leg = thread'[r].leg
             PROVE  q = r
  BY DEF HoldersApart
<1> DEFINE l == thread'[q].leg
<1>1. Holds(q, l) \/ (T = {q} /\ ~Taken(l))
  BY InThreads DEF Moves, Holds, Holding
<1>2. Holds(r, l) \/ (T = {r} /\ ~Taken(l))
  BY InThreads DEF Moves, Holds, Holding
<1> QED
  BY <1>1, <1>2 DEF Known, HoldersApart, Holds, Holder

(* What a step leaves alone of the rows, the order and the queue stays true. *)
LEMMA OrdersStay ==
  ASSUME Stored, Forward, order' = order
  PROVE  \A l \in Legs : OrderOK(l)'
BY DEF Stored, OrderOK, Forward, LegForward

LEMMA LegsStay ==
  ASSUME TypeOK, Stored, Forward, leg' = leg
  PROVE  \A l \in Legs : LegOK(l)'
<1> SUFFICES ASSUME NEW l \in Legs PROVE LegOK(l)'
  OBVIOUS
<1>1. LegOK(l) /\ leg[l].filled \in Nat
  BY DEF Stored, TypeOK, Rows
<1>2. Within(leg[l].filled, l)'
  BY <1>1, WithinStays DEF LegOK, Forward
<1> QED
  BY <1>1, <1>2, DeadStays DEF LegOK

LEMMA IntentsStay ==
  ASSUME Stored, Forward, intent' = intent
  PROVE  \A i \in Intents : IntentOK(i)'
BY DeadStays DEF Stored, IntentOK, AllDead, LegsOf

LEMMA EventsStay ==
  ASSUME TypeOK, TypeOK', Stored, Forward, events' = events
  PROVE  EventsOK'
BY TruthfulStays DEF Stored, EventsOK

LEMMA QueueStays ==
  ASSUME TypeOK, TypeOK', Stored, Forward, queue' \subseteq queue
  PROVE  QueueOK'
<1>1. IsFiniteSet(queue')
  BY FS_Subset DEF Stored, QueueOK
<1> QED
  BY <1>1, TruthfulStays DEF Stored, QueueOK

LEMMA StepKeeps ==
  ASSUME IInv, TypeOK', Forward, NEW T \in SUBSET Threads, Moves(T),
         \A t \in T : Informed(t)',
         order' = order \/ \A l \in Legs : OrderOK(l)',
         leg' = leg \/ \A l \in Legs : LegOK(l)',
         intent' = intent \/ \A i \in Intents : IntentOK(i)',
         events' = events \/ EventsOK',
         queue' \subseteq queue \/ QueueOK'
  PROVE  IInv'
<1>1. Stored'
  BY OrdersStay, LegsStay, IntentsStay, EventsStay, QueueStays DEF IInv, Stored
<1>2. \A t \in Threads : Recording(t)'
  BY RecordingStays DEF IInv, Known, Moves, Informed
<1>3. \A r \in Requests : Holder(r)'
  BY HolderStays DEF IInv, Informed
<1>4. Snapshot'
  <2>1. CASE Poller \in T
    BY <2>1 DEF Informed
  <2>2. CASE Poller \notin T
    <3>1. thread'[Poller] = thread[Poller]
      BY <2>2, InThreads DEF Moves
    <3> QED
      BY <3>1, TruthfulStays DEF IInv, Known, Snapshot
  <2> QED
    BY <2>1, <2>2
<1>5. HoldersApart'
  BY ApartStays DEF IInv
<1> QED
  BY <1>1, <1>2, <1>3, <1>4, <1>5 DEF IInv, Known

LEMMA FaultType ==
  ASSUME TypeOK, Fault \/ NoFault
  PROVE  faults' \in 0 .. MaxFaults
BY BoundsAssumption DEF TypeOK, Fault, NoFault

LEMMA CalmForward ==
  ASSUME TypeOK, IsFiniteSet(events), UNCHANGED <<leg, order, events>>, TryForward
  PROVE  Forward
<1>1. \A l \in Legs : order[l].filled \in Nat
  BY BoundsAssumption DEF TypeOK, Orders
<1> QED
  BY <1>1 DEF Forward, LegForward, OrderForward, EventsForward, Taken

LEMMA QueueShrinks ==
  ASSUME TypeOK, IsFiniteSet(queue), queue' \subseteq queue
  PROVE  queue' \subseteq Events /\ Cardinality(queue') <= QueueSize
<1>1. IsFiniteSet(queue') /\ Cardinality(queue') <= Cardinality(queue)
  BY FS_Subset
<1>2. Cardinality(queue') \in Nat /\ Cardinality(queue) \in Nat
  BY <1>1, FS_CardinalityType
<1> QED
  BY <1>1, <1>2, BoundsAssumption DEF TypeOK

(* One thread goes on, and no leg, order or event changes.                  *)
LEMMA ThreadStep ==
  ASSUME IInv, NEW t \in Threads, NEW frame \in Frames, Set(t, frame),
         UNCHANGED <<leg, order, events>>, queue' \subseteq queue,
         gateway' \in Gateways, Fault \/ NoFault,
         intent' = intent \/ (/\ intent' \in [Intents -> Statuses]
                               /\ \A i \in Intents : intent'[i] = "REJECTED" => AllDead(i)),
         t \in Requests /\ Holding(t)' => Holds(t, frame.leg),
         t \in Requests /\ frame.pc \in {"claimed", "submit"} => thread[t].pc \in {"claimed", "submit"},
         Informed(t)'
  PROVE  IInv'
<1>1. TypeOK /\ IsFiniteSet(events) /\ IsFiniteSet(queue)
  BY DEF IInv, Stored, EventsOK, QueueOK
<1>2. /\ thread' \in [Threads -> Frames] /\ thread'[t] = frame
      /\ \A q \in Threads \ {t} : thread'[q] = thread[q]
  BY <1>1, SetThread
<1>3. TypeOK'
  <2>1. faults' \in 0 .. MaxFaults
    BY <1>1, FaultType
  <2>2. queue' \subseteq Events /\ Cardinality(queue') <= QueueSize
    BY <1>1, QueueShrinks
  <2> QED
    BY <1>1, <1>2, <2>1, <2>2 DEF TypeOK
<1>4. TryForward
  BY <1>2, InThreads DEF TryForward, Holds, Holding
<1>5. Forward
  BY <1>1, <1>4, CalmForward
<1>6. Moves({t})
  BY <1>2 DEF Moves, Holding
<1>7. intent' = intent \/ \A i \in Intents : IntentOK(i)'
  BY <1>5, DeadStays DEF IntentOK, AllDead, LegsOf
<1> QED
  BY <1>3, <1>5, <1>6, <1>7, StepKeeps
-----------------------------------------------------------------------------
(* Steps that change a thread and no leg, order or event.                   *)
Quiet == {"new", "admitted", "starting", "checked", "reserved", "legs", "done"}

LEMMA QuietInformed ==
  ASSUME NEW r \in Requests, thread'[r].pc \in Quiet, thread'[r].pub = None
  PROVE  Informed(r)' /\ ~Holding(r)'
BY ThreadsAssumption DEF Quiet, Informed, Recording, Holder, Holding

LEMMA IdleInformed ==
  ASSUME NEW t \in {Writer, Poller}, thread'[t] = Idle
  PROVE  Informed(t)'
BY ThreadsAssumption DEF Idle, Informed, Recording, Snapshot

LEMMA Unmoved ==
  ASSUME UNCHANGED <<order, events>>
  PROVE  /\ \A ev : Truthful(ev) => Truthful(ev)'
         /\ \A n, l : Within(n, l) => Within(n, l)'
BY DEF Truthful, Within, Counted, Polled

LEMMA PublishKeeps ==
  ASSUME IInv, NEW t \in Threads, Publish(t)
  PROVE  IInv'
<1> DEFINE frame == [thread[t] EXCEPT !.pub = None]
<1>1. /\ TypeOK /\ thread[t] \in Frames /\ thread[t].pub \in Pubs
      /\ IsFiniteSet(events) /\ Recording(t) /\ (t \in Requests => Holder(t))
  BY DEF IInv, TypeOK, Stored, EventsOK, Known, Publish, Frames
<1>2. /\ frame \in Frames /\ frame.pub = None /\ frame.pc = thread[t].pc /\ frame.leg = thread[t].leg
      /\ frame.row = thread[t].row /\ frame.ev = thread[t].ev /\ frame.todo = thread[t].todo
  BY <1>1 DEF Frames
<1>3. Set(t, frame) /\ UNCHANGED <<leg, order, events>>
  BY DEF Publish
<1>4. /\ thread'[t] = frame
      /\ \A q \in Threads \ {t} : thread'[q] = thread[q]
  BY <1>1, <1>2, <1>3, SetThread
<1>5. Forward
  <2>1. TryForward
    BY <1>2, <1>4, InThreads DEF TryForward
  <2> QED
    BY <1>1, <1>3, <2>1, CalmForward
<1>6. intent' \in [Intents -> Statuses] /\ \A i \in Intents : intent'[i] = "REJECTED" => AllDead(i)
  <2>1. thread[t].pub.intent \in Intents /\ thread[t].pub.status \in Statuses
    BY <1>1 DEF Pubs
  <2>2. intent' \in [Intents -> Statuses]
    BY <1>1, <2>1 DEF Publish, TypeOK
  <2>3. \A i \in Intents : intent'[i] = "REJECTED" => AllDead(i)
    BY <1>1, <2>1 DEF Publish, TypeOK, Recording, IInv, Stored, IntentOK
  <2> QED
    BY <2>2, <2>3
<1>7. Informed(t)'
  <2>1. Recording(t)'
    <3>1. FilledBy(frame.row, frame.ev)' = FilledBy(frame.row, frame.ev)
      BY <1>4 DEF FilledBy, Larger
    <3> QED
      BY <1>1, <1>2, <1>3, <1>4, <3>1, Unmoved DEF Recording
  <2>2. t \in Requests => Holder(t)'
    <3> SUFFICES ASSUME t \in Requests PROVE Holder(t)'
      OBVIOUS
    <3>1. thread[t].pc = "reject" => Dead(thread[t].leg)'
      BY <1>1, <1>2, <1>4, DeadStays, <1>5 DEF Holder, Holding, Frames
    <3>2. Holding(t) => Taken(thread[t].leg)'
      BY <1>1, <1>2, <1>3, <1>4 DEF Holder, Holding, Taken
    <3> QED
      BY <1>1, <1>2, <1>3, <1>4, <3>1, <3>2, Unmoved DEF Holder, Holding
  <2>3. t = Poller => Snapshot'
    BY <1>2, <1>3, <1>4, Unmoved DEF Snapshot, IInv, Known
  <2> QED
    BY <2>1, <2>2, <2>3 DEF Informed
<1>8. UNCHANGED gateway /\ gateway \in Gateways /\ queue' = queue /\ (Fault \/ NoFault)
  BY <1>1 DEF Publish, TypeOK
<1>9. Holding(t)' => Holds(t, frame.leg)
  BY <1>2, <1>4 DEF Holding, Holds
<1>10. frame.pc \in {"claimed", "submit"} => thread[t].pc \in {"claimed", "submit"}
  BY <1>2
<1> HIDE DEF frame
<1> QED
  BY <1>2, <1>3, <1>6, <1>7, <1>8, <1>9, <1>10, ThreadStep

LEMMA QuietStep ==
  ASSUME IInv, NEW r \in Requests, NEW frame \in Frames, Set(r, frame),
         frame.pc \in Quiet, frame.pub = None, UNCHANGED <<leg, order, events>>, queue' \subseteq queue,
         gateway' \in Gateways, Fault \/ NoFault,
         intent' = intent \/ (/\ intent' \in [Intents -> Statuses]
                               /\ \A i \in Intents : intent'[i] = "REJECTED" => AllDead(i))
  PROVE  IInv'
<1>1. r \in Threads /\ TypeOK
  BY InThreads DEF IInv
<1>2. thread'[r] = frame
  BY <1>1, SetThread
<1>3. Informed(r)' /\ ~Holding(r)'
  BY <1>2, QuietInformed
<1>4. frame.pc \notin {"claimed", "submit"}
  BY DEF Quiet
<1> QED
  BY <1>1, <1>3, <1>4, ThreadStep

LEMMA GotoFrame ==
  ASSUME TypeOK, NEW t \in Threads, NEW pc0, At(t, pc0), NEW pc \in Pcs
  PROVE  /\ [thread[t] EXCEPT !.pc = pc] \in Frames
         /\ [thread[t] EXCEPT !.pc = pc].pc = pc /\ [thread[t] EXCEPT !.pc = pc].pub = None
         /\ [thread[t] EXCEPT !.pc = pc].leg = thread[t].leg
         /\ [thread[t] EXCEPT !.pc = pc].ev = thread[t].ev
         /\ [thread[t] EXCEPT !.pc = pc].row = thread[t].row
         /\ [thread[t] EXCEPT !.pc = pc].todo = thread[t].todo
<1>1. thread[t] \in Frames /\ thread[t].pub = None
  BY DEF TypeOK, At
<1> QED
  BY <1>1 DEF Frames

LEMMA GotoQuiet ==
  ASSUME IInv, NEW r \in Requests, NEW pc0, At(r, pc0), NEW pc \in Quiet, Goto(r, pc),
         UNCHANGED <<leg, order, events, queue, gateway>>, Fault \/ NoFault,
         intent' = intent \/ (/\ intent' \in [Intents -> Statuses]
                               /\ \A i \in Intents : intent'[i] = "REJECTED" => AllDead(i))
  PROVE  IInv'
<1>1. r \in Threads /\ TypeOK /\ gateway' \in Gateways /\ pc \in Pcs
  BY InThreads DEF IInv, TypeOK, Quiet, Pcs, RequestPcs
<1> QED
  BY <1>1, GotoFrame, QuietStep DEF Goto

LEMMA AdmitKeeps ==
  ASSUME IInv, NEW r \in Requests, Admit(r)
  PROVE  IInv'
<1>1. PICK pc \in Quiet : Goto(r, pc)
  BY DEF Admit, Quiet
<1> QED
  BY <1>1, GotoQuiet DEF Admit

LEMMA ReserveKeeps ==
  ASSUME IInv, NEW r \in Requests, Reserve(r)
  PROVE  IInv'
<1>1. IntentFor[r] \in Intents /\ intent \in [Intents -> Statuses] /\ "RESERVED" \in Statuses
  BY IntentsAssumption DEF IInv, TypeOK, Statuses
<1>2. intent' \in [Intents -> Statuses] /\ \A i \in Intents : intent'[i] = "REJECTED" => AllDead(i)
  BY <1>1 DEF Reserve, IInv, Stored, IntentOK
<1>3. "reserved" \in Quiet
  BY DEF Quiet
<1> QED
  BY <1>2, <1>3, GotoQuiet DEF Reserve

(* The claim is rejected before an order is placed: the leg is dead.        *)
LEMMA RecheckKeeps ==
  ASSUME IInv, NEW r \in Requests, Recheck(r)
  PROVE  IInv'
<1>1. /\ r \in Threads /\ TypeOK /\ gateway \in Gateways /\ thread[r].leg \in Legs
      /\ Holding(r) /\ Holder(r) /\ HoldersApart /\ IsFiniteSet(events) /\ thread[r].pub = None
  BY InThreads DEF IInv, TypeOK, Frames, Known, Holder, Holding, Recheck, At, Stored, EventsOK
<1> DEFINE frame(pc) == [thread[r] EXCEPT !.pc = pc]
<1>2. \A pc \in {"submit", "reject"} :
        /\ frame(pc) \in Frames /\ frame(pc).pc = pc /\ frame(pc).pub = None
        /\ frame(pc).leg = thread[r].leg
  BY <1>1, GotoFrame DEF Recheck, Pcs, RequestPcs
<1> HIDE DEF frame
<1>3. PICK pc \in {"submit", "reject"} : Set(r, frame(pc))
  BY DEF Recheck, Goto, frame
<1>4. thread'[r] = frame(pc) /\ \A q \in Threads \ {r} : thread'[q] = thread[q]
  BY <1>1, <1>2, <1>3, SetThread
<1>5. Recording(r)'
  BY <1>2, <1>4 DEF Recording
<1>6. pc = "reject" => Dead(thread[r].leg)'
  <2> HAVE pc = "reject"
  <2>1. \A q \in Requests \ {r} : Holding(q) => thread[q].leg # thread[r].leg
    BY <1>1 DEF HoldersApart
  <2>2. ~Trying(thread[r].leg)'
    BY <2>1, <1>2, <1>4, InThreads DEF Trying, Holding
  <2> QED
    BY <1>1, <1>2, <1>4, <2>2 DEF Dead, Recheck, Holder, Taken, At
<1>7. Holder(r)'
  BY <1>1, <1>2, <1>4, <1>6 DEF Holder, Holding, Recheck, Taken, At
<1>8. Informed(r)' /\ Holds(r, frame(pc).leg)
  BY <1>1, <1>2, <1>5, <1>7, ThreadsAssumption DEF Informed, Holds
<1> QED
  BY <1>1, <1>2, <1>3, <1>8, ThreadStep DEF Recheck, At

LEMMA ReadLegKeeps ==
  ASSUME IInv, NEW r \in Requests, ReadLeg(r)
  PROVE  IInv'
<1> DEFINE frame == [thread[r] EXCEPT !.pc = "ack", !.row = leg[thread[r].leg]]
<1>1. /\ r \in Threads /\ TypeOK /\ gateway \in Gateways /\ thread[r] \in Frames /\ thread[r].leg \in Legs
      /\ Holding(r) /\ Taken(thread[r].leg) /\ thread[r].pub = None
  BY InThreads DEF IInv, TypeOK, Frames, Known, Holder, Holding, ReadLeg, At
<1>2. leg[thread[r].leg] \in Rows
  BY <1>1 DEF TypeOK
<1>3. /\ frame \in Frames /\ frame.pc = "ack" /\ frame.pub = None /\ frame.leg = thread[r].leg
      /\ frame.row \in Rows
  BY <1>1, <1>2 DEF Frames, Pcs, RequestPcs
<1>4. Set(r, frame)
  BY DEF ReadLeg
<1> HIDE DEF frame
<1>5. thread'[r] = frame
  BY <1>1, <1>3, <1>4, SetThread
<1>6. frame.row # None
  BY <1>3, RowIsNotNone
<1>7. Informed(r)' /\ Holds(r, frame.leg)
  <2>1. Recording(r)'
    BY <1>3, <1>5 DEF Recording
  <2>2. Taken(thread[r].leg)' /\ thread'[r].leg # None
    BY <1>1, <1>3, <1>5 DEF ReadLeg, Taken, IInv, Known, Holder
  <2>3. Holder(r)'
    BY <1>3, <1>5, <1>6, <2>2 DEF Holder
  <2> QED
    BY <1>1, <1>3, <2>1, <2>3, ThreadsAssumption DEF Informed, Holds
<1> QED
  BY <1>1, <1>3, <1>4, <1>7, ThreadStep DEF ReadLeg

LEMMA AttachKeeps ==
  ASSUME IInv, NEW r \in Requests, Attach(r)
  PROVE  IInv'
<1> DEFINE l == thread[r].leg
           frame == [thread[r] EXCEPT !.pc = "attaching", !.todo = Unattached(l), !.row = leg[l]]
<1>1. /\ r \in Threads /\ TypeOK /\ gateway \in Gateways /\ thread[r] \in Frames /\ l \in Legs
      /\ Holding(r) /\ Taken(l) /\ thread[r].pub = None
  BY InThreads DEF IInv, TypeOK, Frames, Known, Holder, Holding, Attach, At
<1>2. leg[l] \in Rows /\ Unattached(l) \in SUBSET (Events \union Entries) /\ Within(leg[l].filled, l)
  BY <1>1 DEF TypeOK, Unattached, IInv, Stored, LegOK
<1>3. /\ frame \in Frames /\ frame.pc = "attaching" /\ frame.pub = None /\ frame.leg = l
      /\ frame.row = leg[l] /\ frame.todo = Unattached(l)
  BY <1>1, <1>2 DEF Frames, Pcs, RequestPcs
<1>4. Set(r, frame)
  BY DEF Attach
<1> HIDE DEF frame
<1>5. thread'[r] = frame
  BY <1>1, <1>3, <1>4, SetThread
<1>6. frame.row # None
  BY <1>2, <1>3, RowIsNotNone
<1>7. Within(frame.row.filled, l)
  BY <1>2, <1>3
<1>8. \A e \in frame.todo : e \in events /\ e.ev.leg = l /\ ~e.matched
  BY <1>3 DEF Unattached
<1>9. Recording(r)'
  BY <1>3, <1>5 DEF Recording
<1>10. Holder(r)'
  <2>1. Taken(thread[r].leg)' /\ thread'[r].leg # None
    BY <1>1, <1>3, <1>5 DEF Attach, Taken, IInv, Known, Holder
  <2>2. Within(thread[r].row.filled, thread[r].leg)'
    BY <1>3, <1>5, <1>7, Unmoved DEF Attach
  <2> QED
    BY <1>3, <1>5, <1>6, <1>8, <2>1, <2>2 DEF Holder, Attach
<1>11. Informed(r)' /\ Holds(r, frame.leg)
  BY <1>1, <1>3, <1>9, <1>10, ThreadsAssumption DEF Informed, Holds
<1> QED
  BY <1>1, <1>3, <1>4, <1>11, ThreadStep DEF Attach

LEMMA RequestFailsKeeps ==
  ASSUME IInv, NEW r \in Requests, RequestFails(r)
  PROVE  IInv'
<1>1. /\ r \in Threads /\ TypeOK /\ gateway \in Gateways /\ thread[r] \in Frames
  BY InThreads DEF IInv, TypeOK
<1>2. CASE thread[r].pc \in {"read", "ack", "match", "insert", "apply", "attach", "attaching"}
  <2> DEFINE frame == [Idle EXCEPT !.pc = "unknown", !.leg = thread[r].leg]
  <2>1. thread[r].leg # None /\ Taken(thread[r].leg) /\ Holding(r)
    BY <1>2 DEF IInv, Known, Holder, Holding
  <2>2. frame \in Frames /\ frame.pc = "unknown" /\ frame.pub = None /\ frame.leg = thread[r].leg
    BY <1>1, IdleFrame DEF Frames, Idle, Pcs, RequestPcs
  <2>3. Set(r, frame)
    BY <1>2 DEF RequestFails
  <2> HIDE DEF frame
  <2>4. thread'[r] = frame
    BY <1>1, <2>2, <2>3, SetThread
  <2>5. Informed(r)' /\ Holds(r, frame.leg)
    BY <2>1, <2>2, <2>4, ThreadsAssumption
    DEF Informed, Recording, Holder, Holding, Holds, Taken, RequestFails
  <2> QED
    BY <1>1, <2>2, <2>3, <2>5, ThreadStep DEF RequestFails
<1>3. CASE thread[r].pc \notin {"read", "ack", "match", "insert", "apply", "attach", "attaching"}
  <2> DEFINE frame == [Idle EXCEPT !.pc = "done"]
  <2>1. frame \in Frames /\ frame.pc \in Quiet /\ frame.pub = None
    BY IdleFrame DEF Frames, Idle, Pcs, RequestPcs, Quiet
  <2>2. Set(r, frame)
    BY <1>3 DEF RequestFails
  <2> QED
    BY <1>1, <2>1, <2>2, QuietStep DEF RequestFails
<1> QED
  BY <1>2, <1>3

LEMMA TakeCallbackKeeps ==
  ASSUME IInv, TakeCallback
  PROVE  IInv'
<1>1. PICK ev \in queue :
        queue' = queue \ {ev} /\ Set(Writer, [Idle EXCEPT !.pc = "match", !.ev = ev])
  BY DEF TakeCallback
<1> DEFINE frame == [Idle EXCEPT !.pc = "match", !.ev = ev]
<1>2. Writer \in Threads /\ TypeOK /\ gateway \in Gateways /\ ev \in Events /\ Truthful(ev)
  BY <1>1, InThreads DEF IInv, TypeOK, Stored, QueueOK
<1>3. frame \in Frames /\ frame.pc = "match" /\ frame.pub = None /\ frame.ev = ev
  BY <1>2, IdleFrame DEF Frames, Idle, Pcs
<1> HIDE DEF frame
<1>4. Set(Writer, frame)
  BY <1>1 DEF frame
<1>5. thread'[Writer] = frame
  BY <1>2, <1>3, <1>4, SetThread
<1>6. Recording(Writer)'
  BY <1>2, <1>3, <1>5, Unmoved DEF Recording, TakeCallback
<1>7. Informed(Writer)'
  BY <1>6, ThreadsAssumption DEF Informed, Writer, Poller
<1> QED
  BY <1>1, <1>2, <1>3, <1>4, <1>7, ThreadsAssumption, ThreadStep DEF TakeCallback

LEMMA WriterFailsKeeps ==
  ASSUME IInv, WriterFails
  PROVE  IInv'
<1>1. Writer \in Threads /\ TypeOK
  BY InThreads DEF IInv
<1>2. Set(Writer, Idle) /\ Idle \in Frames /\ Idle.pc = "idle"
  BY IdleFrame DEF WriterFails, Idle
<1>3. thread'[Writer] = Idle
  BY <1>1, <1>2, SetThread
<1>4. Informed(Writer)'
  BY <1>3, IdleInformed
<1>5. gateway' \in Gateways
  BY <1>1 DEF WriterFails, TypeOK, Gateways, Unhealthy
<1> QED
  BY <1>1, <1>2, <1>4, <1>5, ThreadsAssumption, ThreadStep DEF WriterFails
-----------------------------------------------------------------------------
(* Steps of several threads, or of none, that change no leg, order or event. *)
LEMMA CalmStep ==
  ASSUME IInv, NEW T \in SUBSET Threads, thread' \in [Threads -> Frames],
         \A t \in Threads \ T : thread'[t] = thread[t],
         UNCHANGED <<intent, leg, order, events>>,
         queue' \subseteq Events, Cardinality(queue') <= QueueSize, queue' \subseteq queue \/ QueueOK',
         gateway' \in Gateways, Fault \/ NoFault,
         \A r \in T \intersect Requests : ~Holding(r)',
         \A t \in T : Informed(t)'
  PROVE  IInv'
<1>1. TypeOK /\ IsFiniteSet(events)
  BY DEF IInv, Stored, EventsOK
<1>2. TypeOK'
  <2>1. faults' \in 0 .. MaxFaults
    BY <1>1, FaultType
  <2> QED
    BY <1>1, <2>1 DEF TypeOK
<1>3. TryForward
  BY InThreads DEF TryForward, Holding
<1>4. Forward
  BY <1>1, <1>3, CalmForward
<1>5. Moves(T)
  BY DEF Moves
<1> QED
  BY <1>2, <1>4, <1>5, StepKeeps

LEMMA DisconnectKeeps ==
  ASSUME IInv, Disconnect
  PROVE  IInv'
<1>1. thread \in [Threads -> Frames] /\ queue \subseteq Events /\ Cardinality(queue) <= QueueSize
  BY DEF IInv, TypeOK
<1>2. gateway' \in Gateways
  BY DEF IInv, TypeOK, Disconnect, Gateways, Unhealthy
<1>6. {} \in SUBSET Threads /\ \A t \in {} : FALSE
  OBVIOUS
<1> QED
  BY <1>1, <1>2, <1>6, CalmStep DEF Disconnect

LEMMA QueueGrows ==
  ASSUME TypeOK, IsFiniteSet(queue), NEW ev \in Events, Cardinality(queue) < QueueSize,
         queue' = queue \union {ev}
  PROVE  IsFiniteSet(queue') /\ queue' \subseteq Events /\ Cardinality(queue') <= QueueSize
<1>1. IsFiniteSet(queue') /\ (Cardinality(queue') = Cardinality(queue) \/ Cardinality(queue') = Cardinality(queue) + 1)
  BY FS_AddElement
<1>2. Cardinality(queue) \in Nat /\ QueueSize \in Nat
  BY FS_CardinalityType, BoundsAssumption
<1> QED
  BY <1>1, <1>2 DEF TypeOK

LEMMA ResendKeeps ==
  ASSUME IInv, Resend
  PROVE  IInv'
<1>1. PICK e \in events : queue' = queue \union {e.ev}
  BY DEF Resend
<1>2. Truthful(e.ev) /\ e.ev \in Events
  BY DEF IInv, Stored, EventsOK, Truthful
<1>3. TypeOK /\ IsFiniteSet(queue) /\ thread \in [Threads -> Frames] /\ gateway \in Gateways
  BY DEF IInv, TypeOK, Stored, QueueOK
<1>4. IsFiniteSet(queue') /\ queue' \subseteq Events /\ Cardinality(queue') <= QueueSize
  BY <1>1, <1>2, <1>3, QueueGrows DEF Resend
<1>5. QueueOK'
  BY <1>1, <1>2, <1>4, Unmoved DEF Resend, IInv, Stored, QueueOK
<1>6. {} \in SUBSET Threads /\ \A t \in {} : FALSE
  OBVIOUS
<1> QED
  BY <1>3, <1>4, <1>5, <1>6, CalmStep DEF Resend

LEMMA CrashKeeps ==
  ASSUME IInv, Crash
  PROVE  IInv'
<1> DEFINE Gone == [Idle EXCEPT !.pc = "done"]
<1>1. Idle \in Frames /\ Gone \in Frames /\ Gone.pc \in Quiet /\ Gone.pub = None
  BY IdleFrame DEF Frames, Idle, Pcs, RequestPcs, Quiet
<1>2. \A t \in Threads : thread[t] \in Frames
  BY DEF IInv, TypeOK
<1>3. \A t \in Threads :
        thread'[t] = IF t \notin Requests THEN Idle ELSE IF thread[t].pc = "new" THEN thread[t] ELSE Gone
  BY DEF Crash
<1> HIDE DEF Gone
<1>4. thread' \in [Threads -> Frames]
  <2>1. \A t \in Threads : thread'[t] \in Frames
    BY <1>1, <1>2, <1>3
  <2>2. thread' = [t \in Threads |-> thread'[t]]
    BY DEF Crash
  <2> QED
    BY <2>1, <2>2
<1> DEFINE T == {t \in Threads : t \in Requests => thread[t].pc # "new"}
<1>5. \A t \in T : Informed(t)' /\ (t \in Requests => ~Holding(t)')
  <2> TAKE t \in T
  <2>1. CASE t \in Requests
    BY <2>1, <1>1, <1>3, QuietInformed
  <2>2. CASE t \notin Requests
    BY <2>2, <1>3, IdleInformed DEF Threads
  <2> QED
    BY <2>1, <2>2
<1>6. \A t \in Threads \ T : thread'[t] = thread[t]
  BY <1>3
<1>7. queue' = {} /\ Cardinality(queue') = 0 /\ 0 <= QueueSize
  BY FS_EmptySet, BoundsAssumption DEF Crash
<1>8. gateway' \in Gateways
  BY DEF Crash, Gateways
<1> HIDE DEF T
<1> QED
  <2>1. T \in SUBSET Threads
    BY DEF T
  <2> QED
    BY <2>1, <1>4, <1>5, <1>6, <1>7, <1>8, CalmStep DEF Crash

(* What a poll of the broker brings back is true of the orders.             *)
LEMMA SnapshotsTruthful ==
  ASSUME IInv, NEW ev \in Snapshots
  PROVE  Truthful(ev)
<1> DEFINE status(o) == IF o.state # "live" THEN o.state ELSE IF o.filled > 0 THEN "partly" ELSE "submitted"
<1>1. PICK l \in Legs : /\ order[l].state \notin {"none", "sent"}
                        /\ ev = Event("STATUS_RECONCILIATION", l, TRUE, status(order[l]), order[l].filled)
  BY DEF Snapshots
<1>2. order[l] \in Orders
  BY DEF IInv, TypeOK
<1>3. /\ status(order[l]) \in EventStatuses
      /\ status(order[l]) = "failed" => order[l].state = "failed"
  BY <1>1, <1>2 DEF Orders, EventStatuses
<1>4. order[l].filled \in Nat /\ order[l].ver \in Nat
  BY <1>2, BoundsAssumption DEF Orders
<1> HIDE DEF status
<1> QED
  BY <1>1, <1>3, <1>4 DEF Truthful, Event, Events, EventTypes

LEMMA PollingFrame ==
  ASSUME IInv
  PROVE  /\ Polling \in Frames /\ Polling.pc = "polling" /\ Polling.todo = Snapshots
         /\ Polling.pub = thread[Poller].pub
<1>1. thread[Poller] \in Frames
  BY InThreads DEF IInv, TypeOK
<1>2. Snapshots \in SUBSET (Events \union Entries)
  BY SnapshotsTruthful DEF Truthful
<1> QED
  BY <1>1, <1>2 DEF Polling, Frames, Pcs

LEMMA PollingInformed ==
  ASSUME IInv, UNCHANGED <<leg, order, events>>, TryForward, thread'[Poller] = Polling
  PROVE  Informed(Poller)'
<1>1. Forward
  BY CalmForward DEF IInv, Stored, EventsOK
<1>2. Recording(Poller) /\ Polling.pc = "polling" /\ Polling.pub = thread[Poller].pub
  BY InThreads, PollingFrame DEF IInv, Known
<1>3. thread[Poller].pub # None /\ thread[Poller].pub.status = "REJECTED" => AllDead(thread[Poller].pub.intent)'
  BY <1>1, <1>2, DeadStays DEF Recording, AllDead, LegsOf
<1>4. Recording(Poller)'
  BY <1>2, <1>3 DEF Recording
<1>5. Snapshot'
  BY PollingFrame, SnapshotsTruthful, Unmoved DEF Snapshot
<1> QED
  BY <1>4, <1>5, ThreadsAssumption DEF Informed

LEMMA PollKeeps ==
  ASSUME IInv, Poll
  PROVE  IInv'
<1>1. Poller \in Threads /\ TypeOK /\ thread \in [Threads -> Frames] /\ Polling \in Frames
  BY InThreads, PollingFrame DEF IInv, TypeOK
<1>2. Set(Poller, Polling)
  BY DEF Poll, Set
<1>3. thread'[Poller] = Polling /\ \A q \in Threads \ {Poller} : thread'[q] = thread[q]
  BY <1>1, <1>2, SetThread
<1>4. TryForward
  BY <1>3, InThreads, ThreadsAssumption DEF TryForward
<1>5. Informed(Poller)'
  BY <1>3, <1>4, PollingInformed DEF Poll
<1>6. gateway' \in Gateways
  BY <1>1 DEF Poll, TypeOK, Gateways
<1> QED
  BY <1>1, <1>2, <1>5, <1>6, ThreadsAssumption, ThreadStep DEF Poll

LEMMA RevalidateKeeps ==
  ASSUME IInv, NEW r \in Requests, Revalidate(r)
  PROVE  IInv'
<1>1. /\ r \in Threads /\ Poller \in Threads /\ TypeOK /\ gateway \in Gateways /\ thread[r] \in Frames
      /\ Polling \in Frames /\ r # Poller
  BY InThreads, PollingFrame, ThreadsAssumption DEF IInv, TypeOK
<1>2. CASE gateway.started
  <2>1. PICK pc \in Quiet : Goto(r, pc)
    BY <1>2 DEF Revalidate, Quiet
  <2> QED
    BY <1>2, <2>1, GotoQuiet DEF Revalidate
<1>3. CASE ~gateway.started
  <2> DEFINE frame == [thread[r] EXCEPT !.pc = "starting"]
  <2>1. frame \in Frames /\ frame.pc = "starting" /\ frame.pub = None
    BY <1>1, GotoFrame DEF Revalidate, Pcs, RequestPcs
  <2>2. thread' = [thread EXCEPT ![Poller] = Polling, ![r] = frame]
    BY <1>1, <1>3 DEF Revalidate
  <2> HIDE DEF frame
  <2>3. /\ thread' \in [Threads -> Frames] /\ thread'[r] = frame /\ thread'[Poller] = Polling
        /\ \A t \in Threads \ {r, Poller} : thread'[t] = thread[t]
    BY <1>1, <2>1, <2>2 DEF TypeOK
  <2>4. Informed(r)' /\ ~Holding(r)'
    BY <2>1, <2>3, QuietInformed DEF Quiet
  <2>5. TryForward
    BY <2>1, <2>3, InThreads, ThreadsAssumption DEF TryForward
  <2>6. Informed(Poller)'
    BY <2>3, <2>5, PollingInformed DEF Revalidate
  <2>7. gateway' \in Gateways
    BY <1>1, <1>3 DEF Revalidate, Gateways
  <2>8. {r, Poller} \in SUBSET Threads /\ queue \subseteq Events /\ Cardinality(queue) <= QueueSize
    BY <1>1 DEF TypeOK
  <2>9. \A t \in {r, Poller} : Informed(t)' /\ (t \in Requests => ~Holding(t)')
    BY <2>4, <2>6, ThreadsAssumption
  <2> QED
    BY <2>3, <2>7, <2>8, <2>9, CalmStep DEF Revalidate
<1> QED
  BY <1>2, <1>3

LEMMA PollOverKeeps ==
  ASSUME IInv, NEW pc \in {"checked", "done"}, PollOver(pc),
         UNCHANGED <<intent, leg, events, order, queue>>, gateway' \in Gateways, Fault \/ NoFault
  PROVE  IInv'
<1> DEFINE frame(t) == [thread[t] EXCEPT !.pc = pc]
           T == {Poller} \union Starting
<1>1. /\ Idle \in Frames /\ \A t \in Threads : thread[t] \in Frames
  BY IdleFrame DEF IInv, TypeOK
<1>2. \A t \in Threads : frame(t) \in Frames /\ frame(t).pc = pc /\ frame(t).pub = thread[t].pub
  BY <1>1 DEF Frames, Pcs, RequestPcs
<1> HIDE DEF frame
<1>3. \A t \in Threads :
        thread'[t] = IF t = Poller THEN Idle ELSE IF t \in Starting THEN frame(t) ELSE thread[t]
  BY DEF PollOver, frame
<1>4. thread' \in [Threads -> Frames]
  <2>1. \A t \in Threads : thread'[t] \in Frames
    BY <1>1, <1>2, <1>3
  <2>2. thread' = [t \in Threads |-> thread'[t]]
    BY DEF PollOver
  <2> QED
    BY <2>1, <2>2
<1>5. T \in SUBSET Threads /\ \A t \in Threads \ T : thread'[t] = thread[t]
  BY <1>3, InThreads DEF Starting
<1>6. TryForward
  BY <1>2, <1>3, InThreads, ThreadsAssumption DEF TryForward, Starting
<1>7. Forward
  BY <1>6, CalmForward DEF IInv, Stored, EventsOK
<1>8. \A t \in T : Informed(t)' /\ (t \in Requests => ~Holding(t)')
  <2> TAKE t \in T
  <2>1. CASE t = Poller
    BY <2>1, <1>3, InThreads, IdleInformed, ThreadsAssumption
  <2>2. CASE t \in Starting
    <3>1. t \in Requests /\ t # Poller /\ t \in Threads
      BY <2>2, ThreadsAssumption, InThreads DEF Starting
    <3>2. thread'[t].pc = pc /\ thread'[t].pub = thread[t].pub
      BY <2>2, <3>1, <1>2, <1>3
    <3>3. thread[t].pub # None /\ thread[t].pub.status = "REJECTED" => AllDead(thread[t].pub.intent)'
      BY <3>1, <3>2, <1>7, DeadStays DEF Recording, AllDead, LegsOf, IInv, Known
    <3> QED
      BY <3>1, <3>2, <3>3 DEF Informed, Recording, Holder, Holding
  <2> QED
    BY <2>1, <2>2
<1>9. queue \subseteq Events /\ Cardinality(queue) <= QueueSize
  BY DEF IInv, TypeOK
<1> HIDE DEF T
<1> QED
  BY <1>4, <1>5, <1>8, <1>9, CalmStep

LEMMA PollNextKeeps ==
  ASSUME IInv, PollNext
  PROVE  IInv'
<1>1. Poller \in Threads /\ TypeOK /\ gateway \in Gateways /\ thread[Poller] \in Frames
  BY InThreads DEF IInv, TypeOK
<1>2. CASE thread[Poller].todo = {}
  <2>1. gateway' \in Gateways
    BY <1>1, <1>2 DEF PollNext, Gateways
  <2> QED
    BY <1>2, <2>1, PollOverKeeps DEF PollNext
<1>3. CASE thread[Poller].todo # {}
  <2> DEFINE frame(ev) == [Idle EXCEPT !.pc = "match", !.ev = ev, !.todo = thread[Poller].todo \ {ev}]
  <2>1. PICK ev \in thread[Poller].todo : Set(Poller, frame(ev))
    BY <1>3 DEF PollNext
  <2>2. Truthful(ev) /\ ev \in Events /\ \A x \in thread[Poller].todo : Truthful(x)
    BY DEF IInv, Known, Snapshot, Truthful
  <2>3. /\ frame(ev) \in Frames /\ frame(ev).pc = "match" /\ frame(ev).pub = None /\ frame(ev).ev = ev
        /\ frame(ev).todo \subseteq thread[Poller].todo
    <3>1. thread[Poller].todo \ {ev} \in SUBSET (Events \union Entries)
      BY <1>1 DEF Frames
    <3> QED
      BY <2>2, <3>1, IdleFrame DEF Frames, Idle, Pcs
  <2> HIDE DEF frame
  <2>4. thread'[Poller] = frame(ev)
    BY <1>1, <2>1, <2>3, SetThread
  <2>5. UNCHANGED <<leg, order, events, gateway>>
    BY <1>3 DEF PollNext
  <2>6. Recording(Poller)'
    BY <2>2, <2>3, <2>4, <2>5, Unmoved DEF Recording
  <2>7. Snapshot'
    BY <2>2, <2>3, <2>4, <2>5, Unmoved DEF Snapshot
  <2>8. Informed(Poller)'
    BY <2>6, <2>7, ThreadsAssumption DEF Informed
  <2> QED
    BY <1>1, <2>1, <2>3, <2>5, <2>8, ThreadsAssumption, ThreadStep DEF PollNext
<1> QED
  BY <1>2, <1>3

LEMMA PollFailsKeeps ==
  ASSUME IInv, PollFails
  PROVE  IInv'
<1>1. gateway' \in Gateways
  BY DEF IInv, TypeOK, PollFails, Gateways, Unhealthy
<1> QED
  BY <1>1, PollOverKeeps DEF PollFails
-----------------------------------------------------------------------------
(* The broker's order changes and a callback goes out.                      *)
LEMMA CallbackType ==
  ASSUME IInv, NEW ev \in Events, Callback(ev)
  PROVE  /\ IsFiniteSet(queue') /\ queue' \subseteq Events /\ Cardinality(queue') <= QueueSize
         /\ queue' \subseteq queue \union {ev} /\ gateway' \in Gateways
<1>1. TypeOK /\ IsFiniteSet(queue) /\ queue \subseteq Events /\ Cardinality(queue) <= QueueSize /\ gateway \in Gateways
  BY DEF IInv, TypeOK, Stored, QueueOK
<1>2. CASE queue' = queue /\ gateway' \in Gateways
  BY <1>1, <1>2
<1>3. CASE queue' = queue \union {ev} /\ gateway' = gateway /\ Cardinality(queue) < QueueSize
  BY <1>1, <1>3, QueueGrows
<1>4. [gateway EXCEPT !.unhealthy = "overflow"] \in Gateways
  BY <1>1 DEF Gateways, Unhealthy
<1> QED
  BY <1>1, <1>2, <1>3, <1>4 DEF Callback

LEMMA TellKeeps ==
  ASSUME IInv, NEW l \in Legs, NEW type \in {"ORDER_CALLBACK", "DEAL_CALLBACK"},
         NEW state \in {"live", "filled", "cancelled", "failed"}, NEW status \in EventStatuses, NEW shares \in {0, 1},
         Tell(l, type, state, status, shares),
         UNCHANGED <<intent, leg, events, thread>>, Fault \/ NoFault,
         order[l].state \in {"sent", "live"},
         order[l].filled + shares <= Requested,
         state = "live" => order[l].ver = order[l].filled + shares /\ order[l].filled + shares < Requested,
         status = "failed" => state = "failed",
         type = "DEAL_CALLBACK" => shares = 1 /\ order[l].ver = order[l].filled + 1,
         type = "ORDER_CALLBACK" => shares = 0
  PROVE  IInv'
<1>1. /\ TypeOK /\ order \in [Legs -> Orders] /\ IsFiniteSet(events) /\ OrderOK(l) /\ \A k \in Legs : OrderOK(k)
  BY DEF IInv, TypeOK, Stored, EventsOK
<1>2. order[l].filled \in 0 .. Requested /\ order[l].ver \in Nat /\ order[l].placed \in Nat /\ Requested \in Nat
  BY <1>1, BoundsAssumption DEF Orders
<1> DEFINE o == [order[l] EXCEPT !.state = state, !.filled = @ + shares, !.ver = @ + 1]
<1>3. /\ o \in Orders /\ o.state = state /\ o.filled = order[l].filled + shares
      /\ o.ver = order[l].ver + 1 /\ o.placed = order[l].placed
  <2>1. order[l].filled + shares \in 0 .. Requested /\ order[l].ver + 1 \in Nat
    BY <1>2
  <2>2. order[l] \in Orders
    BY <1>1
  <2> QED
    BY <2>1, <2>2 DEF Orders
<1>4. order' = [order EXCEPT ![l] = o]
  BY <1>1, <1>2 DEF Tell, Moved, Orders
<1> HIDE DEF o
<1>5. order' \in [Legs -> Orders] /\ order'[l] = o /\ \A k \in Legs \ {l} : order'[k] = order[k]
  BY <1>1, <1>3, <1>4
<1>6. PICK ev \in Events : /\ Callback(ev) /\ ev.leg = l /\ ev.status = status /\ ev.type = type
                           /\ ev.shares = shares /\ ev.ver = order[l].ver + 1
  <2>1. PICK tagged \in Tagged :
          Callback([type |-> type, leg |-> l, tagged |-> tagged, ver |-> order[l].ver + 1,
                    status |-> status, shares |-> shares])
    BY DEF Tell
  <2>2. [type |-> type, leg |-> l, tagged |-> tagged, ver |-> order[l].ver + 1,
         status |-> status, shares |-> shares] \in Events
    BY <1>2, BoundsAssumption DEF Events, EventTypes
  <2> QED
    BY <2>1, <2>2
<1>7. /\ IsFiniteSet(queue') /\ queue' \subseteq Events /\ Cardinality(queue') <= QueueSize
      /\ queue' \subseteq queue \union {ev} /\ gateway' \in Gateways
  BY <1>6, CallbackType
<1>8. TypeOK'
  <2>1. faults' \in 0 .. MaxFaults
    BY <1>1, FaultType
  <2> QED
    BY <1>1, <1>5, <1>7, <2>1 DEF TypeOK
<1>9. Forward
  <2>1. LegForward /\ TryForward /\ EventsForward
    BY <1>1, InThreads DEF LegForward, TryForward, EventsForward, Taken
  <2>2. OrderForward
    <3> SUFFICES ASSUME NEW k \in Legs
                 PROVE  /\ order'[k].placed = order[k].placed
                        /\ order[k].state = "failed" => order'[k].state = "failed"
                        /\ order'[k].filled >= order[k].filled
      BY DEF OrderForward
    <3>1. CASE k = l
      BY <3>1, <1>2, <1>3, <1>5
    <3>2. CASE k # l
      <4>1. order[k].filled \in Nat
        BY <1>1, BoundsAssumption DEF Orders
      <4> QED
        BY <3>2, <4>1, <1>5
    <3> QED
      BY <3>1, <3>2
  <2> QED
    BY <2>1, <2>2 DEF Forward
<1>10. \A k \in Legs : OrderOK(k)'
  <2> SUFFICES ASSUME NEW k \in Legs PROVE OrderOK(k)'
    OBVIOUS
  <2>1. CASE k = l
    <3>1. order[l].placed # 0 /\ order[l].placed <= 1 /\ Taken(l)
      BY <1>1 DEF OrderOK
    <3> QED
      BY <2>1, <3>1, <1>2, <1>3, <1>5 DEF OrderOK, Taken
  <2>2. CASE k # l
    BY <2>2, <1>1, <1>5 DEF OrderOK, Taken
  <2> QED
    BY <2>1, <2>2
<1>11. Truthful(ev)'
  BY <1>2, <1>3, <1>5, <1>6 DEF Truthful, EventTypes
<1>12. QueueOK'
  <2>1. \A x \in queue : Truthful(x)'
    BY <1>1, <1>8, <1>9, TruthfulStays DEF IInv, Stored, QueueOK
  <2> QED
    BY <2>1, <1>7, <1>11 DEF QueueOK
<1>13. {} \in SUBSET Threads /\ Moves({}) /\ \A t \in {} : Informed(t)'
  <2>1. \A k \in Legs : order'[k].placed = order[k].placed
    BY <1>3, <1>5
  <2> QED
    BY <2>1 DEF Moves
<1> QED
  BY <1>8, <1>9, <1>10, <1>12, <1>13, StepKeeps

LEMMA BrokerKeeps ==
  ASSUME IInv, NEW l \in Legs, Broker(l)
  PROVE  IInv'
<1>1. OrderOK(l) /\ order[l] \in Orders /\ Requested \in Nat \ {0}
  BY BoundsAssumption DEF IInv, Stored, TypeOK
<1>2. CASE OrderArrives(l)
  <2>1. order[l].state = "sent" /\ order[l].filled = 0 /\ order[l].ver = 0
    BY <1>1, <1>2 DEF OrderArrives, OrderOK
  <2> QED
    BY <1>1, <1>2, <2>1, TellKeeps DEF OrderArrives, EventStatuses
<1>3. CASE OrderFills(l)
  <2>1. /\ order[l].state = "live" /\ order[l].ver = order[l].filled + 1
        /\ order[l].filled < Requested /\ order[l].filled \in Nat
    BY <1>1, <1>3 DEF OrderFills, OrderOK, Orders
  <2>2. CASE order[l].filled + 1 = Requested
    BY <1>1, <1>3, <2>1, <2>2, TellKeeps DEF OrderFills, EventStatuses
  <2>3. CASE order[l].filled + 1 # Requested
    BY <1>1, <1>3, <2>1, <2>3, TellKeeps DEF OrderFills, EventStatuses
  <2> QED
    BY <2>2, <2>3
<1>4. CASE OrderEnds(l)
  <2>1. /\ order[l].state = "live" /\ order[l].filled <= Requested /\ order[l].filled \in Nat
    BY <1>1, <1>4 DEF OrderEnds, OrderOK, Orders
  <2>2. PICK state \in {"cancelled", "failed"} : Tell(l, "ORDER_CALLBACK", state, state, 0)
    BY <1>4 DEF OrderEnds
  <2> QED
    BY <1>1, <1>4, <2>1, <2>2, TellKeeps DEF OrderEnds, EventStatuses
<1> QED
  BY <1>2, <1>3, <1>4 DEF Broker
-----------------------------------------------------------------------------
(* Steps of one thread that change a leg or an event.                       *)
LEMMA RowForward ==
  ASSUME IInv, NEW t \in Threads, NEW frame \in Frames, Set(t, frame),
         LegForward, UNCHANGED order, EventsForward,
         t \in Requests /\ frame.pc \in {"claimed", "submit"} => ~Taken(frame.leg)
  PROVE  /\ Forward /\ thread' \in [Threads -> Frames] /\ thread'[t] = frame
         /\ \A q \in Threads \ {t} : thread'[q] = thread[q]
<1>1. /\ thread' \in [Threads -> Frames] /\ thread'[t] = frame
      /\ \A q \in Threads \ {t} : thread'[q] = thread[q]
  BY SetThread DEF IInv
<1>2. TryForward
  BY <1>1, InThreads DEF TryForward
<1>3. \A l \in Legs : order[l].filled \in Nat
  BY BoundsAssumption DEF IInv, TypeOK, Orders
<1> QED
  BY <1>1, <1>2, <1>3 DEF Forward, OrderForward

LEMMA RowStep ==
  ASSUME IInv, NEW t \in Threads, NEW frame \in Frames, Set(t, frame),
         leg' \in [Legs -> Rows], \A l \in Legs : LegOK(l)', LegForward,
         UNCHANGED <<intent, order, queue, gateway>>, NoFault,
         events' \subseteq Entries, events' = events \/ EventsOK', EventsForward,
         \A e \in events : e \in events' \/ (t \in Requests /\ Holds(t, e.ev.leg)),
         t \in Requests /\ frame.pc \in {"claimed", "submit"} => ~Taken(frame.leg),
         t \in Requests /\ Holding(t)' => Holds(t, frame.leg) \/ ~Taken(frame.leg),
         Informed(t)'
  PROVE  IInv'
<1>1. TypeOK
  BY DEF IInv
<1>2. /\ Forward /\ thread' \in [Threads -> Frames] /\ thread'[t] = frame
      /\ \A q \in Threads \ {t} : thread'[q] = thread[q]
  BY RowForward
<1>3. TypeOK'
  <2>1. faults' \in 0 .. MaxFaults
    BY <1>1, FaultType
  <2> QED
    BY <1>1, <1>2, <2>1 DEF TypeOK
<1>4. Moves({t})
  BY <1>2 DEF Moves
<1> QED
  BY <1>2, <1>3, <1>4, StepKeeps

LEMMA LegStays ==
  ASSUME IInv, Forward, NEW l \in Legs, leg'[l] = leg[l]
  PROVE  LegOK(l)'
<1>1. LegOK(l) /\ leg[l].filled \in Nat /\ TypeOK
  BY DEF IInv, Stored, TypeOK, Rows
<1>2. Within(leg[l].filled, l)'
  BY <1>1, WithinStays DEF LegOK, Forward
<1> QED
  BY <1>1, <1>2, DeadStays DEF LegOK

LEMMA SameEvents ==
  ASSUME IInv, events' = events
  PROVE  EventsForward /\ events' \subseteq Entries
BY DEF IInv, TypeOK, Stored, EventsOK, EventsForward

LEMMA InsertLegKeeps ==
  ASSUME IInv, NEW r \in Requests, InsertLeg(r)
  PROVE  IInv'
<1>1. /\ r \in Threads /\ TypeOK /\ gateway \in Gateways /\ thread \in [Threads -> Frames]
      /\ thread[r] \in Frames /\ leg \in [Legs -> Rows] /\ thread[r].pc = "reserved" /\ thread[r].pub = None
  BY InThreads DEF IInv, TypeOK, InsertLeg, At
<1>2. CASE Goto(r, "legs") /\ UNCHANGED leg
  BY <1>2, <1>1, GotoQuiet DEF InsertLeg, Quiet
<1>3. ASSUME NEW l \in Legs, leg[l].status = "absent",
             leg' = [leg EXCEPT ![l].status = "RESERVED"], UNCHANGED thread
      PROVE  IInv'
  <2>1. /\ leg' \in [Legs -> Rows] /\ leg'[l].status = "RESERVED" /\ leg'[l].filled = leg[l].filled
        /\ \A k \in Legs \ {l} : leg'[k] = leg[k]
    BY <1>1, <1>3 DEF Rows, Statuses
  <2>2. Set(r, thread[r])
    BY <1>1, <1>3 DEF Set
  <2>3. LegForward
    BY <1>3, <2>1 DEF LegForward, Taken
  <2>4. EventsForward /\ events' = events /\ events' \subseteq Entries /\ order' = order
    BY SameEvents DEF InsertLeg
  <2>5. Forward
    BY <1>1, <2>2, <2>3, <2>4, RowForward
  <2>6. \A k \in Legs : LegOK(k)'
    <3>1. Within(leg[l].filled, l)
      BY DEF IInv, Stored, LegOK
    <3>2. Within(leg[l].filled, l)'
      BY <2>1, <2>4, <3>1, Unmoved
    <3> QED
      BY <2>1, <2>5, <3>2, LegStays DEF LegOK
  <2>7. Informed(r)' /\ ~Holding(r)'
    BY <1>1, <1>3, QuietInformed DEF Quiet
  <2> QED
    BY <1>1, <2>1, <2>2, <2>3, <2>4, <2>6, <2>7, RowStep DEF InsertLeg
<1> QED
  BY <1>2, <1>3 DEF InsertLeg, LegsOf

LEMMA ClaimLegKeeps ==
  ASSUME IInv, NEW r \in Requests, ClaimLeg(r)
  PROVE  IInv'
<1>1. /\ r \in Threads /\ TypeOK /\ gateway \in Gateways /\ thread[r] \in Frames /\ leg \in [Legs -> Rows]
  BY InThreads DEF IInv, TypeOK
<1>2. CASE Goto(r, "done") /\ UNCHANGED leg
  BY <1>2, GotoQuiet DEF ClaimLeg, Quiet
<1> DEFINE frame(l) == [thread[r] EXCEPT !.pc = "claimed", !.leg = l,
                                         !.pub = [intent |-> IntentOf[l], status |-> "SUBMITTING"]]
<1>3. ASSUME NEW l \in Legs, Claimable(l), leg' = [leg EXCEPT ![l].status = "SUBMITTING"], Set(r, frame(l))
      PROVE  IInv'
  <2>1. /\ leg' \in [Legs -> Rows] /\ leg'[l].status = "SUBMITTING" /\ leg'[l].filled = leg[l].filled
        /\ \A k \in Legs \ {l} : leg'[k] = leg[k]
    BY <1>1, <1>3 DEF Rows, Statuses
  <2>2. [intent |-> IntentOf[l], status |-> "SUBMITTING"] \in Pubs
    BY IntentsAssumption DEF Pubs, Statuses
  <2>3. /\ frame(l) \in Frames /\ frame(l).pc = "claimed" /\ frame(l).leg = l
        /\ frame(l).pub = [intent |-> IntentOf[l], status |-> "SUBMITTING"]
    BY <1>1, <2>2 DEF Frames, Pcs, RequestPcs
  <2> HIDE DEF frame
  <2>4. ~Taken(l) /\ order[l].placed = 0
    BY <1>3 DEF Claimable, Taken, IInv, Stored, OrderOK
  <2>5. LegForward /\ Taken(l)'
    BY <2>1 DEF LegForward, Taken
  <2>6. EventsForward /\ events' = events /\ events' \subseteq Entries /\ order' = order
    BY SameEvents DEF ClaimLeg
  <2>7. Forward /\ thread'[r] = frame(l)
    BY <1>1, <1>3, <2>3, <2>4, <2>5, <2>6, RowForward
  <2>8. \A k \in Legs : LegOK(k)'
    <3>1. Within(leg[l].filled, l)
      BY DEF IInv, Stored, LegOK
    <3>2. Within(leg[l].filled, l)'
      BY <2>1, <2>6, <3>1, Unmoved
    <3> QED
      BY <2>1, <2>7, <3>2, LegStays DEF LegOK
  <2>9. Recording(r)'
    BY <2>3, <2>7 DEF Recording
  <2>10. Holder(r)'
    BY <2>3, <2>4, <2>5, <2>6, <2>7, NoneAssumption DEF Holder
  <2>11. Informed(r)'
    BY <2>9, <2>10, ThreadsAssumption DEF Informed
  <2> QED
    BY <1>1, <1>3, <2>1, <2>3, <2>4, <2>5, <2>6, <2>8, <2>11, RowStep DEF ClaimLeg
<1> QED
  BY <1>2, <1>3 DEF ClaimLeg, LegsOf

(* The frame to which a thread returns when its event is recorded.          *)
LEMMA ReturnFrame ==
  ASSUME IInv, NEW t \in Threads, thread[t].pc \in {"insert", "apply"}, NEW pub \in Pubs \union {None}
  PROVE  LET frame == [Return(t) EXCEPT !.pub = pub]
         IN /\ frame \in Frames /\ frame.pub = pub /\ frame.pc \in {"idle", "polling", "attach"}
            /\ t = Poller => frame.todo = thread[t].todo
            /\ t \in Requests => frame.pc = "attach" /\ frame.leg = thread[t].leg
<1>1. thread[t] \in Frames
  BY DEF IInv, TypeOK
<1>2. CASE t = Writer
  BY <1>2, IdleFrame, ThreadsAssumption DEF Return, Frames, Idle, Writer, Poller
<1>3. CASE t = Poller
  BY <1>1, <1>3, IdleFrame, ThreadsAssumption DEF Return, Frames, Idle, Pcs, Writer, Poller
<1>4. CASE t \in Requests
  BY <1>1, <1>4, ThreadsAssumption DEF Return, Frames, Pcs, RequestPcs
<1> QED
  BY <1>2, <1>3, <1>4 DEF Threads

(* A thread that returned knows what it knew; pub is what it is to publish. *)
LEMMA ReturnInformed ==
  ASSUME IInv, TypeOK', NEW t \in Threads, thread[t].pc \in {"insert", "apply"}, NEW pub \in Pubs \union {None},
         Forward, thread'[t] = [Return(t) EXCEPT !.pub = pub],
         pub # None /\ pub.status = "REJECTED" => AllDead(pub.intent)'
  PROVE  Informed(t)'
<1>1. /\ thread'[t].pub = pub /\ thread'[t].pc \in {"idle", "polling", "attach"}
      /\ t = Poller => thread'[t].todo = thread[t].todo
      /\ t \in Requests => thread'[t].pc = "attach" /\ thread'[t].leg = thread[t].leg
  BY ReturnFrame
<1>2. Recording(t)'
  BY <1>1 DEF Recording
<1>3. t \in Requests => Holder(t)'
  <2> SUFFICES ASSUME t \in Requests PROVE Holder(t)'
    OBVIOUS
  <2>1. thread[t].leg # None /\ Taken(thread[t].leg) /\ thread[t] \in Frames
    BY DEF IInv, Known, Holder, Holding, TypeOK
  <2>2. Taken(thread[t].leg)'
    BY <1>1, <2>1 DEF Forward, LegForward, Frames
  <2> QED
    BY <1>1, <2>1, <2>2 DEF Holder
<1>4. t = Poller => Snapshot'
  BY <1>1, TruthfulStays DEF Snapshot, IInv, Known
<1> QED
  BY <1>2, <1>3, <1>4 DEF Informed

LEMMA ReturnUnpublished ==
  ASSUME IInv, NEW t \in Threads, thread[t].pc \in {"insert", "apply"}, thread[t].pub = None
  PROVE  Return(t) = [Return(t) EXCEPT !.pub = None]
<1>1. thread[t] \in Frames
  BY DEF IInv, TypeOK
<1>2. Return(t) \in Frames /\ Return(t).pub = None
  <2>1. CASE t = Writer
    BY <2>1, IdleFrame, ThreadsAssumption DEF Return, Idle, Writer, Poller
  <2>2. CASE t = Poller
    <3>1. thread[t].todo \in SUBSET (Events \union Entries)
      BY <1>1 DEF Frames
    <3>2. Return(t) = [Idle EXCEPT !.pc = "polling", !.todo = thread[t].todo]
      BY <2>2 DEF Return, Writer, Poller
    <3> QED
      BY <3>1, <3>2, IdleFrame DEF Frames, Idle, Pcs
  <2>3. CASE t \in Requests
    BY <1>1, <2>3, ThreadsAssumption DEF Return, Frames, Pcs, RequestPcs
  <2> QED
    BY <2>1, <2>2, <2>3 DEF Threads
<1> QED
  BY <1>2 DEF Frames

(* One more deal counts where its shares are added.                         *)
LEMMA CountsOneMore ==
  ASSUME IInv, EventsForward, NEW e \in events', e \notin events, e \in Entries, e.matched, Truthful(e.ev),
         NEW row \in Rows, Within(row.filled, e.ev.leg)
  PROVE  Within(FilledBy(row, e.ev), e.ev.leg)'
<1> DEFINE l == e.ev.leg
           n == Cardinality(Counted(l))
<1>1. TypeOK /\ e.ev \in Events /\ l \in Legs /\ row.filled \in Nat /\ e.ev.shares \in Nat
  BY DEF IInv, Entries, Events, Rows
<1>2. Within(row.filled, l)'
  BY <1>1, WithinStays
<1>3. CASE e.ev.type = "DEAL_CALLBACK"
  <2>1. FilledBy(row, e.ev) = row.filled + 1
    BY <1>1, <1>3, FilledType DEF Truthful
  <2>2. /\ Counted(l) \union {e} \subseteq Counted(l)' /\ IsFiniteSet(Counted(l)')
        /\ n \in Nat /\ Cardinality(Counted(l)') \in Nat
    BY <1>1, <1>3, CountedGrows DEF Counted
  <2>3. IsFiniteSet(Counted(l)) /\ e \notin Counted(l)
    BY <2>2, FS_Subset DEF Counted
  <2>4. IsFiniteSet(Counted(l) \union {e}) /\ Cardinality(Counted(l) \union {e}) = n + 1
    BY <2>3, FS_AddElement
  <2>5. n + 1 <= Cardinality(Counted(l)')
    BY <2>2, <2>4, FS_Subset
  <2>6. CASE Polled(l)
    BY <1>1, <2>6, PolledStays DEF Within
  <2>7. CASE row.filled <= n
    <3>1. row.filled + 1 <= Cardinality(Counted(l)')
      BY <1>1, <2>2, <2>5, <2>7
    <3> QED
      BY <2>1, <3>1 DEF Within
  <2> QED
    BY <2>6, <2>7 DEF Within
<1>4. CASE e.ev.type # "DEAL_CALLBACK" /\ FilledBy(row, e.ev) = row.filled
  BY <1>2, <1>4
<1>5. CASE e.ev.type # "DEAL_CALLBACK" /\ FilledBy(row, e.ev) # row.filled
  <2>1. e.ev.shares # 0 /\ e.ev.shares > 0
    BY <1>1, <1>5, FilledType
  <2>2. e.ev.type = "STATUS_RECONCILIATION"
    BY <1>1, <1>5, <2>1 DEF Truthful, Events, EventTypes
  <2>3. Polled(l)'
    BY <2>1, <2>2 DEF Polled
  <2> QED
    BY <2>3 DEF Within
<1> QED
  BY <1>3, <1>4, <1>5

LEMMA MatchKeeps ==
  ASSUME IInv, NEW t \in Threads, Match(t)
  PROVE  IInv'
<1> DEFINE ev == thread[t].ev
           found == leg[ev.leg].known \/ ev.tagged
           frame == [thread[t] EXCEPT !.pc = "insert", !.row = IF found THEN leg[ev.leg] ELSE None]
<1>1. /\ TypeOK /\ thread[t] \in Frames /\ leg \in [Legs -> Rows] /\ Truthful(ev) /\ ev.leg \in Legs
      /\ thread[t].pc = "match" /\ thread[t].pub = None
  BY DEF IInv, TypeOK, Known, Recording, Match, At, Truthful, Events
<1>2. /\ frame \in Frames /\ frame.pc = "insert" /\ frame.pub = None /\ frame.ev = ev /\ frame.leg = thread[t].leg
      /\ frame.todo = thread[t].todo /\ frame.row \in {leg[ev.leg], None}
  BY <1>1 DEF Frames, Pcs
<1>3. Set(t, frame)
  BY DEF Match
<1>4. /\ leg' \in [Legs -> Rows] /\ \A l \in Legs : leg'[l].status = leg[l].status /\ leg'[l].filled = leg[l].filled
  BY <1>1 DEF Match, Rows
<1> HIDE DEF frame
<1>5. LegForward
  BY <1>4 DEF LegForward, Taken
<1>6. EventsForward /\ events' = events /\ events' \subseteq Entries /\ order' = order
  BY SameEvents DEF Match
<1>7. Forward /\ thread'[t] = frame
  BY <1>2, <1>3, <1>5, <1>6, RowForward
<1>8. \A l \in Legs : LegOK(l)'
  <2> SUFFICES ASSUME NEW l \in Legs PROVE LegOK(l)'
    OBVIOUS
  <2>1. LegOK(l)
    BY DEF IInv, Stored
  <2>2. Within(leg[l].filled, l)'
    <3>1. \A n : Within(n, l) => Within(n, l)'
      BY <1>6, Unmoved
    <3> QED
      BY <1>4, <2>1, <3>1 DEF LegOK
  <2> QED
    BY <1>4, <1>7, <2>1, <2>2, DeadStays DEF LegOK
<1>9. Recording(t)'
  <2>1. Within(leg[ev.leg].filled, ev.leg)
    BY <1>1 DEF IInv, Stored, LegOK
  <2>2. frame.row # None => Within(frame.row.filled, frame.ev.leg)
    BY <1>2, <2>1
  <2> QED
    BY <1>1, <1>2, <1>6, <1>7, <2>2, Unmoved DEF Recording
<1>10. t \in Requests => Holder(t)' /\ Holds(t, frame.leg)
  <2> SUFFICES ASSUME t \in Requests PROVE Holder(t)' /\ Holds(t, frame.leg)
    OBVIOUS
  <2>1. Holding(t) /\ thread[t].leg # None /\ Taken(thread[t].leg)
    BY <1>1 DEF IInv, Known, Holder, Holding
  <2>2. Taken(thread[t].leg)'
    BY <1>1, <1>2, <1>5, <1>7, <2>1 DEF LegForward, Frames
  <2> QED
    BY <1>2, <1>7, <2>1, <2>2 DEF Holder, Holds
<1>11. t = Poller => Snapshot'
  BY <1>2, <1>6, <1>7, Unmoved DEF Snapshot, IInv, Known
<1>12. Informed(t)'
  BY <1>9, <1>10, <1>11 DEF Informed
<1>13. frame.pc \notin {"claimed", "submit"}
  BY <1>2
<1> QED
  BY <1>2, <1>3, <1>4, <1>5, <1>6, <1>8, <1>10, <1>12, <1>13, RowStep DEF Match

(* A recorded event, and the thread goes back or on to apply it.            *)
LEMMA InsertKeeps ==
  ASSUME IInv, NEW t \in Threads, Insert(t)
  PROVE  IInv'
<1> DEFINE ev == thread[t].ev
           row == thread[t].row
           e == [ev |-> ev, matched |-> row # None]
<1>1. /\ TypeOK /\ thread[t] \in Frames /\ leg \in [Legs -> Rows] /\ Truthful(ev) /\ ev \in Events /\ ev.leg \in Legs
      /\ thread[t].pc = "insert" /\ thread[t].pub = None /\ (row # None => row \in Rows)
  BY DEF IInv, TypeOK, Known, Recording, Insert, At, Truthful, Events, Frames
<1>2. Return(t) \in Frames /\ Return(t) = [Return(t) EXCEPT !.pub = None]
  BY <1>1, ReturnUnpublished, ReturnFrame
<1>3. UNCHANGED <<intent, leg, order, queue, gateway>> /\ LegForward /\ NoFault
  BY DEF Insert, LegForward, Taken
<1>4. /\ events' \subseteq Entries /\ EventsForward /\ events \subseteq events'
      /\ (events' = events \/ (events' = events \union {e} /\ ~Recorded(ev)))
  <2>1. e \in Entries /\ IsFiniteSet(events)
    BY <1>1 DEF Entries, IInv, Stored, EventsOK
  <2>2. events' = events \/ (events' = events \union {e} /\ ~Recorded(ev))
    BY DEF Insert
  <2>3. IsFiniteSet(events')
    BY <2>1, <2>2, FS_AddElement
  <2> QED
    BY <1>1, <2>1, <2>2, <2>3 DEF TypeOK, EventsForward
<1>5. events' = events \/ EventsOK'
  <2> SUFFICES ASSUME events' = events \union {e}, ~Recorded(ev) PROVE EventsOK'
    BY <1>4
  <2>1. e.ev = ev
    OBVIOUS
  <2> HIDE DEF e
  <2>2. IsFiniteSet(events')
    BY <1>4 DEF EventsForward
  <2>3. \A x \in events' : Truthful(x.ev)'
    BY <1>1, <1>3, <2>1 DEF Truthful, IInv, Stored, EventsOK
  <2>4. \A x \in events' : \A y \in events' : IdOf(x.ev) = IdOf(y.ev) => x = y
    BY <2>1 DEF Recorded, IInv, Stored, EventsOK
  <2> QED
    BY <2>2, <2>3, <2>4 DEF EventsOK, IdOf
<1>6. CASE Set(t, Return(t))
  <2>1. Return(t).pc \notin {"claimed", "submit"} /\ (t \in Requests => Return(t).leg = thread[t].leg)
    BY <1>1, <1>2, ReturnFrame
  <2>2. Forward /\ thread' \in [Threads -> Frames] /\ thread'[t] = Return(t)
    BY <1>2, <1>3, <1>4, <1>6, <2>1, RowForward
  <2>3. TypeOK'
    BY <1>1, <1>3, <1>4, <2>2, FaultType DEF TypeOK
  <2>4. thread'[t] = [Return(t) EXCEPT !.pub = None]
    BY <1>2, <2>2
  <2>5. Informed(t)'
    BY <1>1, <2>2, <2>3, <2>4, ReturnInformed
  <2>6. \A l \in Legs : LegOK(l)'
    BY <1>3, <2>2, LegsStay DEF IInv
  <2>7. t \in Requests => Holds(t, Return(t).leg)
    BY <1>1, <2>1 DEF Holds, Holding
  <2> QED
    BY <1>1, <1>2, <1>3, <1>4, <1>5, <1>6, <2>1, <2>5, <2>6, <2>7, RowStep
<1>7. CASE Goto(t, "apply") /\ row # None /\ events' = events \union {e} /\ ~Recorded(ev)
  <2> DEFINE frame == [thread[t] EXCEPT !.pc = "apply"]
  <2>1. /\ frame \in Frames /\ frame.pc = "apply" /\ frame.pub = None /\ frame.leg = thread[t].leg
        /\ frame.ev = ev /\ frame.row = row /\ frame.todo = thread[t].todo
    BY <1>1, GotoFrame DEF Insert, Pcs
  <2>2. Set(t, frame)
    BY <1>7 DEF Goto
  <2> HIDE DEF frame
  <2>3. Forward /\ thread' \in [Threads -> Frames] /\ thread'[t] = frame
    BY <1>3, <1>4, <2>1, <2>2, RowForward
  <2>4. \A x \in Entries, w \in Rows : x = e /\ w = row => Within(FilledBy(w, x.ev), x.ev.leg)'
    <3> SUFFICES ASSUME NEW x \in Entries, NEW w \in Rows, x = e, w = row
                 PROVE  Within(FilledBy(w, x.ev), x.ev.leg)'
      OBVIOUS
    <3>1. x \in events' /\ x.matched /\ x.ev = ev
      BY <1>7
    <3>2. x \notin events
      BY <1>7, <3>1 DEF Recorded
    <3>3. Within(w.filled, x.ev.leg)
      BY <1>1, <1>7, <3>1 DEF IInv, Known, Recording
    <3> HIDE DEF e
    <3> QED
      BY <1>1, <1>4, <3>1, <3>2, <3>3, CountsOneMore
  <2>5. Recording(t)'
    <3>1. PICK x \in Entries, w \in Rows : x = e /\ w = row
      BY <1>1, <1>7 DEF Entries
    <3>2. Within(FilledBy(w, x.ev), x.ev.leg)' /\ x.ev = ev
      BY <2>4, <3>1
    <3>3. /\ thread'[t].row = w /\ thread'[t].ev = x.ev /\ thread'[t].pc = "apply" /\ thread'[t].pub = None
          /\ w # None
      BY <1>7, <2>1, <2>3, <3>1, <3>2
    <3>4. Truthful(x.ev)'
      BY <1>1, <1>3, <3>2 DEF Truthful
    <3> QED
      BY <3>2, <3>3, <3>4 DEF Recording, FilledBy, Larger
  <2>6. t \in Requests => Holder(t)' /\ Holds(t, frame.leg)
    <3> SUFFICES ASSUME t \in Requests PROVE Holder(t)' /\ Holds(t, frame.leg)
      OBVIOUS
    <3>1. Holding(t) /\ thread[t].leg # None /\ Taken(thread[t].leg)
      BY <1>1 DEF IInv, Known, Holder, Holding
    <3>2. Taken(thread[t].leg)'
      BY <1>1, <1>3, <2>1, <2>3, <3>1 DEF Taken
    <3> QED
      BY <2>1, <2>3, <3>1, <3>2 DEF Holder, Holds
  <2>7. t = Poller => Snapshot'
    BY <1>3, <2>1, <2>3 DEF Snapshot, IInv, Known, Truthful
  <2>8. Informed(t)'
    BY <2>5, <2>6, <2>7 DEF Informed
  <2>9. \A l \in Legs : LegOK(l)'
    BY <1>3, <2>3, LegsStay DEF IInv
  <2> QED
    BY <1>1, <1>3, <1>4, <1>5, <2>1, <2>2, <2>6, <2>8, <2>9, RowStep
<1> QED
  BY <1>6, <1>7 DEF Insert

(* An event that is applied leaves the legs in order, and what is published *)
(* of them is true.                                                         *)
LEMMA AppliedForward ==
  ASSUME IInv, NEW row \in Rows, NEW ev \in Events, leg' = Applied(row, ev)
  PROVE  leg' \in [Legs -> Rows] /\ LegForward
<1>1. TypeOK /\ FilledBy(row, ev) \in Nat
  BY FilledType DEF IInv
<1>2. Applied(row, ev)[ev.leg].status \notin {"absent", "RESERVED"}
  BY <1>1, AppliedType, ReduceType
<1> QED
  BY <1>1, <1>2, AppliedType DEF LegForward, Taken

LEMMA AppliedLegs ==
  ASSUME IInv, Forward, NEW row \in Rows, NEW ev \in Events, Truthful(ev), leg' = Applied(row, ev),
         Within(FilledBy(row, ev), ev.leg)'
  PROVE  \A l \in Legs : LegOK(l)'
<1>1. TypeOK /\ FilledBy(row, ev) \in Nat /\ ev.leg \in Legs
  BY FilledType DEF IInv, Events
<1>2. leg'[ev.leg].status = "REJECTED" => Dead(ev.leg)'
  <2>1. leg'[ev.leg].status = "REJECTED" => ev.status = "failed"
    BY <1>1, AppliedType, ReduceType
  <2>2. ev.status = "failed" => Dead(ev.leg)
    BY DEF Truthful, Dead
  <2> QED
    BY <1>1, <2>1, <2>2, DeadStays
<1>3. \A n : n = leg'[ev.leg].filled => Within(n, ev.leg)'
  <2> SUFFICES ASSUME NEW n, n = leg'[ev.leg].filled PROVE Within(n, ev.leg)'
    OBVIOUS
  <2>1. CASE n = leg[ev.leg].filled
    <3>1. Within(n, ev.leg) /\ n \in Nat
      BY <1>1, <2>1 DEF IInv, Stored, LegOK, TypeOK, Rows
    <3> QED
      BY <1>1, <3>1, WithinStays DEF Forward
  <2>2. CASE n = FilledBy(row, ev)
    <3>1. FilledBy(row, ev)' = FilledBy(row, ev)
      BY DEF FilledBy, Larger
    <3> QED
      BY <2>2
  <2> QED
    BY <1>1, <2>1, <2>2, AppliedType
<1>4. \A l \in Legs \ {ev.leg} : leg'[l] = leg[l]
  BY <1>1, AppliedType
<1>5. LegOK(ev.leg)'
  BY <1>2, <1>3 DEF LegOK
<1> QED
  BY <1>4, <1>5, LegStays

LEMMA RefreshTold ==
  ASSUME leg' \in [Legs -> Rows], \A l \in Legs : LegOK(l)', NEW l \in Legs, NEW pub, pub = Refresh(l)
  PROVE  pub \in Pubs /\ (pub.status = "REJECTED" => AllDead(pub.intent)')
<1>1. IntentOf[l] \in Intents
  BY IntentsAssumption
<1>2. /\ Refreshed(IntentOf[l], leg') \in Statuses \ {"absent"}
      /\ Refreshed(IntentOf[l], leg') = "REJECTED" => \A k \in LegsOf(IntentOf[l]) : leg'[k].status = "REJECTED"
  BY <1>1, RefreshedType
<1>3. pub.intent = IntentOf[l] /\ pub.status = Refreshed(IntentOf[l], leg')
  BY DEF Refresh
<1>4. pub \in Pubs
  BY <1>1, <1>2 DEF Refresh, Pubs
<1>5. ASSUME pub.status = "REJECTED" PROVE AllDead(pub.intent)'
  <2>1. \A k \in LegsOf(pub.intent) : leg'[k].status = "REJECTED"
    BY <1>2, <1>3, <1>5
  <2> QED
    BY <2>1 DEF AllDead, LegsOf, LegOK
<1> QED
  BY <1>4, <1>5

LEMMA ApplyKeeps ==
  ASSUME IInv, NEW t \in Threads, Apply(t)
  PROVE  IInv'
<1>1. /\ TypeOK /\ thread[t] \in Frames /\ thread[t].pc = "apply" /\ thread[t].row \in Rows
      /\ thread[t].ev \in Events /\ Truthful(thread[t].ev)
      /\ Within(FilledBy(thread[t].row, thread[t].ev), thread[t].ev.leg)
  BY DEF IInv, TypeOK, Known, Recording, Apply, At, Truthful, Frames
<1>2. PICK row \in Rows, ev \in Events : row = thread[t].row /\ ev = thread[t].ev
  BY <1>1
<1>3. /\ Truthful(ev) /\ Within(FilledBy(row, ev), ev.leg) /\ ev.leg \in Legs /\ FilledBy(row, ev) \in Nat
      /\ leg' = Applied(row, ev)
  BY <1>1, <1>2, FilledType DEF Apply, Events
<1>4. leg' \in [Legs -> Rows] /\ LegForward
  BY <1>3, AppliedForward
<1>5. EventsForward /\ events' = events /\ events' \subseteq Entries /\ order' = order
  BY SameEvents DEF Apply
<1>6. PICK pub : pub = Refresh(ev.leg)
  OBVIOUS
<1> DEFINE frame == [Return(t) EXCEPT !.pub = pub]
<1>7. Set(t, frame)
  BY <1>2, <1>6 DEF Apply
<1>8. pub \in Pubs
  BY <1>3, <1>4, <1>6, RefreshedType, IntentsAssumption DEF Refresh, Pubs
<1>9. /\ frame \in Frames /\ frame.pc \notin {"claimed", "submit"}
      /\ t \in Requests => frame.leg = thread[t].leg
  BY <1>1, <1>8, ReturnFrame
<1>10. Forward /\ thread' \in [Threads -> Frames] /\ thread'[t] = frame
  BY <1>4, <1>5, <1>7, <1>9, RowForward
<1>11. \A l \in Legs : LegOK(l)'
  <2>1. Within(FilledBy(row, ev), ev.leg)'
    BY <1>3, <1>5, Unmoved DEF FilledBy, Larger
  <2> QED
    BY <1>3, <1>10, <2>1, AppliedLegs
<1>12. pub.status = "REJECTED" => AllDead(pub.intent)'
  BY <1>3, <1>4, <1>6, <1>11, RefreshTold
<1>13. TypeOK'
  BY <1>1, <1>4, <1>5, <1>10, FaultType DEF TypeOK, Apply
<1>14. Informed(t)'
  BY <1>1, <1>8, <1>10, <1>12, <1>13, ReturnInformed
<1>15. t \in Requests => Holds(t, frame.leg)
  BY <1>1, <1>9 DEF Holds, Holding
<1> HIDE DEF frame
<1> QED
  BY <1>4, <1>5, <1>7, <1>9, <1>11, <1>14, <1>15, RowStep DEF Apply
-----------------------------------------------------------------------------
(* The acknowledgement.                                                     *)
LEMMA MarkAckKeeps ==
  ASSUME IInv, NEW r \in Requests, MarkAck(r)
  PROVE  IInv'
<1>1. /\ r \in Threads /\ TypeOK /\ thread[r] \in Frames /\ thread[r].pc = "ack" /\ thread[r].pub = None
      /\ Holding(r) /\ thread[r].leg \in Legs /\ leg \in [Legs -> Rows]
  BY InThreads DEF IInv, TypeOK, Known, Holder, Holding, MarkAck, At, Frames
<1>2. PICK l \in Legs : l = thread[r].leg
  BY <1>1
<1>3. order[l] \in Orders /\ order[l].placed \in Nat /\ order[l].ver \in Nat
  BY <1>1 DEF TypeOK, Orders
<1>4. PICK ev : ev = [Event("SUBMIT_ACK", l, TRUE, "ack", 0) EXCEPT !.ver = order[l].placed]
  OBVIOUS
<1>5. /\ ev \in Events /\ ev.leg = l /\ ev.type = "SUBMIT_ACK" /\ ev.status = "ack" /\ ev.shares = 0
  BY <1>3, <1>4 DEF Event, Events, EventTypes, EventStatuses
<1>6. PICK status : status = Reduce(thread[r].row.status, ev, 0)
  OBVIOUS
<1>7. status \in Statuses \ {"absent", "RESERVED", "REJECTED"}
  BY <1>5, <1>6, ReduceType
<1> DEFINE frame == [thread[r] EXCEPT !.pc = "match", !.ev = ev]
<1>8. leg' = [leg EXCEPT ![l].status = status, ![l].known = TRUE] /\ Set(r, frame)
  BY <1>2, <1>4, <1>6 DEF MarkAck
<1>9. /\ leg' \in [Legs -> Rows] /\ leg'[l].status = status /\ leg'[l].filled = leg[l].filled
      /\ \A k \in Legs \ {l} : leg'[k] = leg[k]
  BY <1>1, <1>7, <1>8 DEF Rows
<1>10. /\ frame \in Frames /\ frame.pc = "match" /\ frame.pub = None /\ frame.ev = ev /\ frame.leg = l
  BY <1>1, <1>2, <1>5 DEF Frames, Pcs
<1> HIDE DEF frame
<1>11. LegForward /\ Taken(l)'
  BY <1>7, <1>9 DEF LegForward, Taken
<1>12. EventsForward /\ events' = events /\ events' \subseteq Entries /\ order' = order
  BY SameEvents DEF MarkAck
<1>13. Forward /\ thread' \in [Threads -> Frames] /\ thread'[r] = frame
  BY <1>1, <1>8, <1>10, <1>11, <1>12, RowForward
<1>14. \A k \in Legs : LegOK(k)'
  <2>1. Within(leg[l].filled, l)
    BY DEF IInv, Stored, LegOK
  <2>2. Within(leg[l].filled, l)'
    BY <1>9, <1>12, <2>1, Unmoved
  <2> QED
    BY <1>7, <1>9, <1>13, <2>2, LegStays DEF LegOK
<1>15. Truthful(ev)'
  BY <1>5 DEF Truthful
<1>16. Informed(r)'
  <2>1. Recording(r)'
    BY <1>10, <1>13, <1>15 DEF Recording
  <2>2. Holder(r)'
    BY <1>10, <1>11, <1>13, NoneAssumption DEF Holder
  <2> QED
    BY <2>1, <2>2, ThreadsAssumption DEF Informed
<1>17. Holds(r, frame.leg) /\ frame.pc \notin {"claimed", "submit"}
  BY <1>1, <1>2, <1>10 DEF Holds
<1> QED
  BY <1>1, <1>8, <1>9, <1>10, <1>11, <1>12, <1>14, <1>16, <1>17, RowStep DEF MarkAck

LEMMA MarkKeeps ==
  ASSUME IInv, NEW r \in Requests, NEW pc \in {"reject", "unknown"}, NEW status \in {"REJECTED", "UNKNOWN"},
         status = "REJECTED" => pc = "reject", Mark(r, pc, status)
  PROVE  IInv'
<1>1. /\ r \in Threads /\ TypeOK /\ thread[r] \in Frames /\ Holding(r) /\ thread[r].leg \in Legs
      /\ leg \in [Legs -> Rows] /\ (status = "REJECTED" => Dead(thread[r].leg))
  BY InThreads DEF IInv, TypeOK, Known, Holder, Holding, Mark, At, Frames
<1>2. PICK l \in Legs : l = thread[r].leg
  BY <1>1
<1>3. leg' = [leg EXCEPT ![l].status = status]
  BY <1>2 DEF Mark
<1>4. /\ leg' \in [Legs -> Rows] /\ leg'[l].status = status /\ leg'[l].filled = leg[l].filled
      /\ \A k \in Legs \ {l} : leg'[k] = leg[k]
  BY <1>1, <1>3 DEF Rows, Statuses
<1>5. PICK pub : pub = Refresh(l)
  OBVIOUS
<1>6. pub \in Pubs
  BY <1>4, <1>5, RefreshedType, IntentsAssumption DEF Refresh, Pubs
<1> DEFINE frame == [Idle EXCEPT !.pc = "done", !.pub = pub]
<1>7. Set(r, frame)
  BY <1>2, <1>5 DEF Mark
<1>8. frame \in Frames /\ frame.pc = "done" /\ frame.pub = pub
  BY <1>6, IdleFrame DEF Frames, Idle, Pcs, RequestPcs
<1> HIDE DEF frame
<1>9. LegForward
  BY <1>4 DEF LegForward, Taken
<1>10. EventsForward /\ events' = events /\ events' \subseteq Entries /\ order' = order
  BY SameEvents DEF Mark
<1>11. Forward /\ thread' \in [Threads -> Frames] /\ thread'[r] = frame
  BY <1>1, <1>7, <1>8, <1>9, <1>10, RowForward
<1>12. \A k \in Legs : LegOK(k)'
  <2>1. Within(leg[l].filled, l)
    BY DEF IInv, Stored, LegOK
  <2>2. Within(leg[l].filled, l)'
    BY <1>4, <1>10, <2>1, Unmoved
  <2>3. status = "REJECTED" => Dead(l)'
    BY <1>1, <1>2, <1>11, DeadStays
  <2> QED
    BY <1>4, <1>11, <2>2, <2>3, LegStays DEF LegOK
<1>13. pub.status = "REJECTED" => AllDead(pub.intent)'
  BY <1>4, <1>5, <1>12, RefreshTold
<1>14. Informed(r)' /\ ~Holding(r)'
  BY <1>8, <1>11, <1>13, ThreadsAssumption DEF Informed, Recording, Holder, Holding
<1> QED
  BY <1>1, <1>4, <1>7, <1>8, <1>9, <1>10, <1>12, <1>14, RowStep DEF Mark

(* One event that came before the acknowledgement is attached and applied.  *)
LEMMA AttachNextKeeps ==
  ASSUME IInv, NEW r \in Requests, AttachNext(r)
  PROVE  IInv'
<1>1. /\ r \in Threads /\ TypeOK /\ thread[r] \in Frames /\ thread[r].pc = "attaching" /\ thread[r].pub = None
      /\ Holding(r) /\ thread[r].leg \in Legs /\ leg \in [Legs -> Rows] /\ gateway \in Gateways
      /\ thread[r].row \in Rows /\ Within(thread[r].row.filled, thread[r].leg) /\ Taken(thread[r].leg)
      /\ \A e \in thread[r].todo : e \in events /\ e.ev.leg = thread[r].leg /\ ~e.matched
  BY InThreads DEF IInv, TypeOK, Known, Holder, Holding, AttachNext, At, Frames
<1>2. CASE thread[r].todo = {}
  <2>1. [Idle EXCEPT !.pc = "legs"] \in Frames
    BY IdleFrame DEF Frames, Idle, Pcs, RequestPcs
  <2>2. [Idle EXCEPT !.pc = "legs"].pc \in Quiet /\ [Idle EXCEPT !.pc = "legs"].pub = None
    BY DEF Idle, Quiet
  <2> QED
    BY <1>1, <1>2, <2>1, <2>2, QuietStep DEF AttachNext
<1>3. CASE thread[r].todo # {}
  <2>1. PICK l \in Legs, row \in Rows : l = thread[r].leg /\ row = thread[r].row
    BY <1>1
  <2>2. PICK e \in thread[r].todo :
          /\ leg' = Applied(row, e.ev)
          /\ events' = (events \ {e}) \union {[e EXCEPT !.matched = TRUE]}
          /\ Set(r, [thread[r] EXCEPT !.todo = @ \ {e}, !.pub = Refresh(l), !.row = Updated(@, e.ev)])
    BY <1>3, <2>1 DEF AttachNext
  <2> DEFINE ev == e.ev
             e2 == [e EXCEPT !.matched = TRUE]
             row2 == Updated(row, ev)
  <2>3. /\ e \in events /\ e \in Entries /\ ~e.matched /\ ev \in Events /\ ev.leg = l /\ Truthful(ev)
        /\ FilledBy(row, ev) \in Nat
    BY <1>1, <2>1, FilledType DEF TypeOK, Entries, IInv, Stored, EventsOK
  <2>4. e2 \in Entries /\ e2.matched /\ e2.ev = ev /\ e2 \notin events
    <3>1. e2 \in Entries /\ e2.matched /\ e2.ev = ev
      BY <2>3 DEF Entries
    <3> QED
      BY <2>3, <3>1 DEF IInv, Stored, EventsOK
  <2>5. row2 \in Rows /\ row2.filled \in {row.filled, FilledBy(row, ev)}
    <3>1. Reduce(row.status, ev, FilledBy(row, ev)) \in Statuses
      BY <2>3, ReduceType
    <3> QED
      BY <2>3, <3>1 DEF Updated, Rows, Larger
  <2> HIDE DEF e2, row2
  <2>6. PICK pub : pub = Refresh(l)
    OBVIOUS
  <2> DEFINE frame == [thread[r] EXCEPT !.todo = @ \ {e}, !.pub = pub, !.row = row2]
  <2>7. Set(r, frame) /\ leg' = Applied(row, ev) /\ events' = (events \ {e}) \union {e2}
    BY <2>1, <2>2, <2>6 DEF row2, e2
  <2>8. leg' \in [Legs -> Rows] /\ LegForward
    BY <2>3, <2>7, AppliedForward
  <2>9. pub \in Pubs
    BY <2>6, <2>8, RefreshedType, IntentsAssumption DEF Refresh, Pubs
  <2>10. /\ frame \in Frames /\ frame.pc = "attaching" /\ frame.pub = pub /\ frame.leg = l
         /\ frame.row = row2 /\ frame.todo = thread[r].todo \ {e}
    <3>1. thread[r].todo \ {e} \in SUBSET (Events \union Entries)
      BY <1>1 DEF Frames
    <3> QED
      BY <1>1, <2>1, <2>5, <2>9, <3>1 DEF Frames
  <2> HIDE DEF frame
  <2>11. events' \subseteq Entries /\ EventsForward
    <3>1. IsFiniteSet(events)
      BY DEF IInv, Stored, EventsOK
    <3>2. IsFiniteSet(events \ {e})
      BY <3>1, FS_Subset
    <3>3. IsFiniteSet(events')
      BY <2>7, <3>2, FS_AddElement
    <3> QED
      BY <1>1, <2>3, <2>4, <2>7, <3>3 DEF TypeOK, EventsForward, e2
  <2>12. Forward /\ thread' \in [Threads -> Frames] /\ thread'[r] = frame
    BY <1>1, <2>7, <2>8, <2>10, <2>11, RowForward DEF AttachNext
  <2>13. UNCHANGED <<intent, order, queue, gateway>> /\ NoFault
    BY DEF AttachNext
  <2>14. EventsOK'
    <3>1. \A x \in events' : Truthful(x.ev)'
      BY <2>4, <2>3, <2>7, <2>13 DEF Truthful, IInv, Stored, EventsOK
    <3>2. \A x \in events' : \A y \in events' : IdOf(x.ev) = IdOf(y.ev) => x = y
      BY <2>3, <2>4, <2>7 DEF IInv, Stored, EventsOK
    <3> QED
      BY <2>11, <3>1, <3>2 DEF EventsOK, EventsForward, IdOf
  <2>15. Within(FilledBy(row, ev), l)' /\ Within(row.filled, l)'
    <3>1. Within(row.filled, l)
      BY <1>1, <2>1
    <3>2. Within(FilledBy(row, e2.ev), e2.ev.leg)'
      <4>1. e2 \in events'
        BY <2>7
      <4>2. PICK x : x = e2
        OBVIOUS
      <4>3. Within(FilledBy(row, x.ev), x.ev.leg)'
        BY <2>3, <2>4, <2>11, <3>1, <4>1, <4>2, CountsOneMore
      <4> QED
        BY <4>2, <4>3
    <3>3. row.filled \in Nat
      BY DEF Rows
    <3>4. FilledBy(row, ev)' = FilledBy(row, ev)
      BY DEF FilledBy, Larger
    <3> QED
      BY <1>1, <2>3, <2>4, <2>11, <3>1, <3>2, <3>3, WithinStays
  <2>16. \A k \in Legs : LegOK(k)'
    BY <2>3, <2>7, <2>12, <2>15, AppliedLegs
  <2>17. pub.status = "REJECTED" => AllDead(pub.intent)'
    BY <2>6, <2>8, <2>16, RefreshTold
  <2>18. Recording(r)'
    BY <2>10, <2>12, <2>17 DEF Recording
  <2>19. Holder(r)'
    <3>1. Taken(l)'
      BY <1>1, <2>1, <2>8 DEF LegForward
    <3>2. row2 # None /\ l # None
      BY <1>1, <2>1, <2>5, RowIsNotNone, NoneAssumption
    <3>3. \A n : n = row2.filled => Within(n, l)'
      BY <2>5, <2>15
    <3>4. \A x \in thread'[r].todo : x \in events' /\ x.ev.leg = l /\ ~x.matched
      BY <1>1, <2>1, <2>7, <2>10, <2>12
    <3> QED
      BY <2>10, <2>12, <3>1, <3>2, <3>3, <3>4 DEF Holder
  <2>20. Informed(r)'
    BY <2>18, <2>19, ThreadsAssumption DEF Informed
  <2>21. /\ Holds(r, frame.leg) /\ frame.pc \notin {"claimed", "submit"}
         /\ \A x \in events : x \in events' \/ Holds(r, x.ev.leg)
    BY <1>1, <2>1, <2>3, <2>7, <2>10 DEF Holds
  <2> QED
    BY <1>1, <2>7, <2>8, <2>10, <2>11, <2>13, <2>14, <2>16, <2>20, <2>21, RowStep
<1> QED
  BY <1>2, <1>3
-----------------------------------------------------------------------------
(* The order of a leg is placed, and the broker has it or may have it.      *)
LEMMA PlacedKeeps ==
  ASSUME IInv, NEW r \in Requests, At(r, "submit"), NEW l \in Legs, l = thread[r].leg,
         NEW state \in {"live", "failed", "sent"}, NEW ver \in {0, 1}, state = "sent" <=> ver = 0,
         NEW pc \in {"read", "unknown", "reject"}, pc = "reject" => state = "failed", Goto(r, pc),
         order' = Placed(l, state, ver),
         UNCHANGED <<intent, leg, events>>, Fault \/ NoFault,
         queue' \subseteq Events, Cardinality(queue') <= QueueSize, gateway' \in Gateways, IsFiniteSet(queue'),
         \A ev \in queue' : ev \in queue \/ (ev.status # "failed" /\ ev.type = "ORDER_CALLBACK" /\ ev.shares = 0)
  PROVE  IInv'
<1>1. /\ r \in Threads /\ TypeOK /\ thread[r] \in Frames /\ thread[r].pc = "submit" /\ Holder(r) /\ Holding(r)
      /\ order \in [Legs -> Orders] /\ IsFiniteSet(events) /\ \A k \in Legs : OrderOK(k)
  BY InThreads DEF IInv, TypeOK, Known, Holding, At, Stored, EventsOK
<1>2. /\ order[l].placed = 0 /\ order[l].filled = 0 /\ order[l].state = "none" /\ Taken(l) /\ l # None
      /\ Requested \in Nat \ {0}
  BY <1>1, BoundsAssumption DEF Holder, OrderOK
<1>3. /\ order' \in [Legs -> Orders] /\ order'[l].placed = 1 /\ order'[l].filled = 0
      /\ order'[l].state = state /\ order'[l].ver = ver /\ \A k \in Legs \ {l} : order'[k] = order[k]
  BY <1>1, <1>2 DEF Placed, Orders
<1> DEFINE frame == [thread[r] EXCEPT !.pc = pc]
<1>4. frame \in Frames /\ frame.pc = pc /\ frame.pub = None /\ frame.leg = l
  BY <1>1, GotoFrame DEF Pcs, RequestPcs
<1>5. Set(r, frame)
  BY DEF Goto
<1> HIDE DEF frame
<1>6. /\ thread' \in [Threads -> Frames] /\ thread'[r] = frame
      /\ \A q \in Threads \ {r} : thread'[q] = thread[q]
  BY <1>1, <1>4, <1>5, SetThread
<1>7. TypeOK'
  BY <1>1, <1>3, <1>6, FaultType DEF TypeOK
<1>8. Forward
  <2>1. LegForward /\ EventsForward
    BY <1>1 DEF LegForward, EventsForward, Taken
  <2>2. TryForward
    BY <1>4, <1>6, InThreads DEF TryForward
  <2>3. Trying(l)
    BY <1>1 DEF Trying
  <2>4. \A k \in Legs : order[k].filled \in Nat
    BY <1>1, BoundsAssumption DEF Orders
  <2>5. OrderForward
    <3> SUFFICES ASSUME NEW k \in Legs
                 PROVE  /\ order'[k].placed = order[k].placed \/ Trying(k)
                        /\ order[k].state = "failed" => order'[k].state = "failed"
                        /\ order'[k].filled >= order[k].filled
      BY DEF OrderForward
    <3>1. CASE k = l
      BY <3>1, <1>2, <1>3, <2>3
    <3>2. CASE k # l
      BY <3>2, <1>3, <2>4
    <3> QED
      BY <3>1, <3>2
  <2> QED
    BY <2>1, <2>2, <2>5 DEF Forward
<1>9. Moves({r})
  <2>1. Holds(r, l)
    BY <1>1 DEF Holds
  <2>2. \A k \in Legs : order'[k].placed = order[k].placed \/ Holds(r, k)
    BY <1>3, <2>1
  <2> QED
    BY <1>4, <1>6, <2>1, <2>2 DEF Moves
<1>10. \A k \in Legs : OrderOK(k)'
  <2> SUFFICES ASSUME NEW k \in Legs PROVE OrderOK(k)'
    OBVIOUS
  <2>1. CASE k = l
    BY <2>1, <1>2, <1>3 DEF OrderOK, Taken
  <2>2. CASE k # l
    BY <2>2, <1>1, <1>3 DEF OrderOK, Taken
  <2> QED
    BY <2>1, <2>2
<1>11. QueueOK'
  <2> SUFFICES ASSUME NEW ev \in queue' PROVE Truthful(ev)'
    BY DEF QueueOK
  <2>1. CASE ev \in queue
    BY <2>1, <1>1, <1>7, <1>8, TruthfulStays DEF IInv, Stored, QueueOK
  <2>2. CASE ev.status # "failed" /\ ev.type = "ORDER_CALLBACK" /\ ev.shares = 0
    BY <2>2 DEF Truthful
  <2> QED
    BY <2>1, <2>2
<1>12. Informed(r)'
  <2>1. Recording(r)'
    BY <1>4, <1>6 DEF Recording
  <2>2. Taken(l)' /\ (pc = "reject" => Dead(l)')
    BY <1>2, <1>3 DEF Taken, Dead
  <2>3. Holder(r)'
    BY <1>2, <1>4, <1>6, <2>2 DEF Holder
  <2> QED
    BY <2>1, <2>3, ThreadsAssumption DEF Informed
<1> QED
  BY <1>1, <1>7, <1>8, <1>9, <1>10, <1>11, <1>12, StepKeeps

LEMMA PlaceOrderKeeps ==
  ASSUME IInv, NEW r \in Requests, PlaceOrder(r)
  PROVE  IInv'
<1>1. /\ r \in Threads /\ TypeOK /\ thread[r] \in Frames /\ thread[r].pc = "submit" /\ thread[r].pub = None
      /\ Holder(r) /\ Holding(r) /\ thread[r].leg \in Legs /\ Taken(thread[r].leg) /\ gateway \in Gateways
      /\ queue \subseteq Events /\ Cardinality(queue) <= QueueSize /\ IsFiniteSet(queue)
  BY InThreads DEF IInv, TypeOK, Known, Holder, Holding, PlaceOrder, At, Frames, Stored, QueueOK
<1>2. PICK l \in Legs : l = thread[r].leg
  BY <1>1
<1>3. At(r, "submit") /\ UNCHANGED <<intent, leg, events>>
  BY DEF PlaceOrder
<1>8. order[l].ver = 0
  BY <1>1, <1>2 DEF Holder, IInv, Stored, OrderOK
<1>4. CASE Goto(r, "unknown") /\ NoFault /\ UNCHANGED <<order, queue, gateway>>
  <2> DEFINE frame == [thread[r] EXCEPT !.pc = "unknown"]
  <2>1. frame \in Frames /\ frame.pc = "unknown" /\ frame.pub = None /\ frame.leg = thread[r].leg
    BY <1>1, <1>3, GotoFrame DEF Pcs, RequestPcs
  <2>2. Set(r, frame)
    BY <1>4 DEF Goto
  <2> HIDE DEF frame
  <2>3. thread'[r] = frame
    BY <1>1, <2>1, <2>2, SetThread
  <2>4. Taken(thread[r].leg)' /\ thread'[r].leg # None
    BY <1>1, <1>2, <1>3, <2>1, <2>3, NoneAssumption DEF Taken
  <2>5. Recording(r)'
    BY <2>1, <2>3 DEF Recording
  <2>6. Holder(r)'
    BY <2>1, <2>3, <2>4 DEF Holder
  <2>7. Informed(r)' /\ Holds(r, frame.leg)
    BY <1>1, <2>1, <2>5, <2>6, ThreadsAssumption DEF Informed, Holds
  <2> QED
    BY <1>1, <1>3, <1>4, <2>1, <2>2, <2>7, ThreadStep
<1>5. ASSUME NEW tagged \in Tagged, NEW ev,
             ev = [type |-> "ORDER_CALLBACK", leg |-> l, tagged |-> tagged, ver |-> 1,
                   status |-> "submitted", shares |-> 0],
             Callback(ev), order' = Placed(l, "live", 1),
             NEW pc \in {"read", "unknown"}, Goto(r, pc), Fault \/ NoFault
      PROVE  IInv'
  <2>1. ev \in Events /\ ev.status = "submitted" /\ ev.type = "ORDER_CALLBACK" /\ ev.shares = 0
    BY <1>5, BoundsAssumption DEF Events, EventTypes, EventStatuses
  <2>2. /\ IsFiniteSet(queue') /\ queue' \subseteq Events /\ Cardinality(queue') <= QueueSize
        /\ queue' \subseteq queue \union {ev} /\ gateway' \in Gateways
    BY <1>5, <2>1, CallbackType
  <2>3. \A x \in queue' : x \in queue \/ (x.status # "failed" /\ x.type = "ORDER_CALLBACK" /\ x.shares = 0)
    BY <2>1, <2>2
  <2> QED
    BY <1>2, <1>3, <1>5, <2>2, <2>3, PlacedKeeps
<1>6. CASE /\ order' = Placed(l, "failed", 1)
           /\ Goto(r, "reject") /\ Fault /\ UNCHANGED <<queue, gateway>>
  BY <1>1, <1>2, <1>3, <1>6, PlacedKeeps
<1>7. CASE /\ order' = Placed(l, "sent", order[l].ver)
           /\ Goto(r, "unknown") /\ Fault /\ UNCHANGED <<queue, gateway>>
  BY <1>1, <1>2, <1>3, <1>7, <1>8, PlacedKeeps
<1> QED
  BY <1>2, <1>4, <1>5, <1>6, <1>7 DEF PlaceOrder
-----------------------------------------------------------------------------
LEMMA Initially ==
  ASSUME Init
  PROVE  IInv
<1>1. \A t \in Threads : thread[t] \in Frames /\ thread[t].pub = None /\ thread[t].pc \in {"new", "idle"} /\ thread[t].todo = {}
  <2>1. Idle \in Frames /\ [Idle EXCEPT !.pc = "new"] \in Frames
    BY IdleFrame DEF Frames, Idle, Pcs, RequestPcs
  <2> QED
    BY <2>1 DEF Init, Idle
<1>2. TypeOK
  <2>1. intent \in [Intents -> Statuses] /\ leg \in [Legs -> Rows] /\ order \in [Legs -> Orders]
    BY BoundsAssumption DEF Init, Statuses, Rows, Orders
  <2>2. events \subseteq Entries /\ queue \subseteq Events /\ Cardinality(queue) <= QueueSize
    BY FS_EmptySet, BoundsAssumption DEF Init
  <2>3. gateway \in Gateways /\ faults \in 0 .. MaxFaults
    BY BoundsAssumption DEF Init, Gateways
  <2>4. thread \in [Threads -> Frames]
    BY <1>1 DEF Init
  <2> QED
    BY <2>1, <2>2, <2>3, <2>4 DEF TypeOK
<1>3. Stored
  <2>1. \A l \in Legs : OrderOK(l)
    BY DEF Init, OrderOK
  <2>2. \A l \in Legs : LegOK(l)
    <3> SUFFICES ASSUME NEW l \in Legs PROVE LegOK(l)
      OBVIOUS
    <3>1. Counted(l) = {} /\ Cardinality({}) = 0
      BY FS_EmptySet DEF Init, Counted
    <3> QED
      BY <3>1 DEF Init, LegOK, Within
  <2>3. \A i \in Intents : IntentOK(i)
    BY DEF Init, IntentOK
  <2>4. EventsOK /\ QueueOK
    BY FS_EmptySet DEF Init, EventsOK, QueueOK
  <2> QED
    BY <2>1, <2>2, <2>3, <2>4 DEF Stored
<1>4. Known
  <2>1. \A t \in Threads : Recording(t)
    BY <1>1 DEF Recording
  <2>2. Snapshot
    BY <1>1, InThreads DEF Snapshot
  <2>3. \A r \in Requests : Holder(r) /\ ~Holding(r)
    BY <1>1, InThreads DEF Holder, Holding
  <2> QED
    BY <2>1, <2>2, <2>3 DEF Known, HoldersApart
<1> QED
  BY <1>2, <1>3, <1>4 DEF IInv

LEMMA ServeKeeps ==
  ASSUME IInv, NEW r \in Requests, Serve(r)
  PROVE  IInv'
<1>1. MarkRejected(r) => IInv'
  BY MarkKeeps DEF MarkRejected
<1>2. MarkUnknown(r) => IInv'
  BY MarkKeeps DEF MarkUnknown
<1> QED
  BY <1>1, <1>2, AdmitKeeps, RevalidateKeeps, ReserveKeeps, InsertLegKeeps, ClaimLegKeeps, RecheckKeeps,
     PlaceOrderKeeps, ReadLegKeeps, MarkAckKeeps, AttachKeeps, AttachNextKeeps DEF Serve

LEMMA StutterKeeps ==
  ASSUME IInv, UNCHANGED vars
  PROVE  IInv'
<1>1. thread \in [Threads -> Frames] /\ queue \subseteq Events /\ Cardinality(queue) <= QueueSize /\ gateway \in Gateways
  BY DEF IInv, TypeOK
<1>2. {} \in SUBSET Threads /\ \A t \in {} : FALSE
  OBVIOUS
<1> QED
  BY <1>1, <1>2, CalmStep DEF vars, NoFault

LEMMA Inductive ==
  ASSUME IInv, [Next]_vars
  PROVE  IInv'
<1>1. CASE \E r \in Requests : Serve(r) \/ RequestFails(r)
  BY <1>1, ServeKeeps, RequestFailsKeeps
<1>2. CASE \E t \in Threads : Record(t)
  BY <1>2, PublishKeeps, MatchKeeps, InsertKeeps, ApplyKeeps DEF Record
<1>3. CASE \E l \in Legs : Broker(l)
  BY <1>3, BrokerKeeps
<1>4. CASE Work
  BY <1>4, TakeCallbackKeeps, PollKeeps, PollNextKeeps DEF Work
<1>5. CASE Failure
  BY <1>5, WriterFailsKeeps, PollFailsKeeps, DisconnectKeeps, ResendKeeps, CrashKeeps DEF Failure
<1>6. CASE UNCHANGED vars
  BY <1>6, StutterKeeps
<1> QED
  BY <1>1, <1>2, <1>3, <1>4, <1>5, <1>6 DEF Next

(* Legs, orders, events, callbacks and threads keep their types, and no     *)
(* more callbacks wait than the queue holds.                                *)
THEOREM TypeCorrect == Spec => []TypeOK
<1>1. Init => IInv
  BY Initially
<1>2. IInv /\ [Next]_vars => IInv'
  BY Inductive
<1>3. IInv => TypeOK
  BY DEF IInv
<1> QED
  BY <1>1, <1>2, <1>3, PTL DEF Spec

(* A leg becomes at most one order, however often its packet is delivered   *)
(* and whichever calls, statements and instances fail.                      *)
THEOREM OneOrder == Spec => []OneOrderPerLeg
<1>1. Init => IInv
  BY Initially
<1>2. IInv /\ [Next]_vars => IInv'
  BY Inductive
<1>3. IInv => OneOrderPerLeg
  BY DEF IInv, Stored, OrderOK, OneOrderPerLeg
<1> QED
  BY <1>1, <1>2, <1>3, PTL DEF Spec

(* An intent with an order that fills or may fill is never called rejected, *)
(* whoever writes its status from legs that were read earlier.              *)
THEOREM OpenOrderCounted == Spec => []OpenOrderIsCounted
<1>1. Init => IInv
  BY Initially
<1>2. IInv /\ [Next]_vars => IInv'
  BY Inductive
<1>3. IInv => OpenOrderIsCounted
  <2> SUFFICES ASSUME IInv, NEW l \in Legs, order[l].state \in {"sent", "live", "filled"},
                      intent[IntentOf[l]] = "REJECTED"
               PROVE  FALSE
    BY DEF OpenOrderIsCounted
  <2>1. IntentOf[l] \in Intents /\ OrderOK(l)
    BY IntentsAssumption DEF IInv, Stored
  <2>2. Dead(l)
    BY <2>1 DEF IInv, Stored, IntentOK, AllDead, LegsOf
  <2> QED
    BY <2>1, <2>2 DEF Dead, OrderOK
<1> QED
  BY <1>1, <1>2, <1>3, PTL DEF Spec

(* As many deals of an order are recorded as it has, each once: their       *)
(* versions tell them apart.                                                *)
LEMMA CountedDeals ==
  ASSUME IInv, NEW l \in Legs
  PROVE  Cardinality(Counted(l)) <= order[l].filled
<1> DEFINE n == order[l].filled
           deal == [e \in Counted(l) |-> e.ev.ver - 1]
<1>1. n \in Nat
  BY BoundsAssumption DEF IInv, TypeOK, Orders
<1>2. IsFiniteSet(1 .. n) /\ Cardinality(1 .. n) = n
  <2>1. IsFiniteSet(1 .. n) /\ Cardinality(1 .. n) = IF 1 > n THEN 0 ELSE n - 1 + 1
    BY <1>1, FS_Interval
  <2> QED
    BY <1>1, <2>1
<1>3. \A e \in Counted(l) : /\ Truthful(e.ev) /\ e \in events /\ e.ev.type = "DEAL_CALLBACK" /\ e.ev.leg = l
                            /\ e.ev.ver \in Nat
  BY DEF Counted, IInv, Stored, EventsOK, Truthful, Events
<1>4. deal \in [Counted(l) -> 1 .. n]
  BY <1>3 DEF Truthful
<1>5. \A e, f \in Counted(l) : deal[e] = deal[f] => e = f
  <2> SUFFICES ASSUME NEW e \in Counted(l), NEW f \in Counted(l), e.ev.ver - 1 = f.ev.ver - 1 PROVE e = f
    OBVIOUS
  <2>1. e.ev.ver = f.ev.ver
    BY <1>3
  <2> QED
    BY <1>3, <2>1 DEF IInv, Stored, EventsOK, IdOf
<1>6. deal \in Injection(Counted(l), 1 .. n)
  BY <1>4, <1>5 DEF Injection, IsInjective
<1>7. Cardinality(Counted(l)) <= Cardinality(1 .. n)
  BY <1>2, <1>6, FS_Injection
<1> QED
  BY <1>2, <1>7

(* Until something is polled no deal counts twice, though callbacks are     *)
(* repeated, come before the order id and are applied from rows read        *)
(* earlier.                                                                 *)
THEOREM DealsCountedOnce == Spec => []DealsCountOnce
<1>1. Init => IInv
  BY Initially
<1>2. IInv /\ [Next]_vars => IInv'
  BY Inductive
<1>3. IInv => DealsCountOnce
  <2> SUFFICES ASSUME IInv, NEW l \in Legs, ~Polled(l)
               PROVE  leg[l].filled <= order[l].filled
    BY DEF DealsCountOnce
  <2>1. leg[l].filled <= Cardinality(Counted(l))
    BY DEF IInv, Stored, LegOK, Within
  <2>2. Cardinality(Counted(l)) \in Nat /\ leg[l].filled \in Nat /\ order[l].filled \in Nat
    <3>1. IsFiniteSet(Counted(l))
      BY FS_Subset DEF Counted, IInv, Stored, EventsOK
    <3> QED
      BY <3>1, FS_CardinalityType, BoundsAssumption DEF IInv, TypeOK, Rows, Orders
  <2> QED
    BY <2>1, <2>2, CountedDeals
<1> QED
  BY <1>1, <1>2, <1>3, PTL DEF Spec
=============================================================================
