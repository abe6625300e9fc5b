--------------------------- MODULE BrokerExecution ---------------------------
(***************************************************************************)
(* The live order gateway: signed packets come in as requests and become   *)
(* broker orders (run_finlab_live_submit), while one thread records the    *)
(* broker's callbacks and another polls the broker for outcomes that are   *)
(* not known (PersistentFinlabExecutionGateway).  All three write the same *)
(* rows of broker_execution_intents, _legs and _events, through the        *)
(* procedures of D1BrokerExecutionRepository, each statement of which is a *)
(* call over HTTP: a row is read in one step and written in another.       *)
(*                                                                         *)
(* One instance of the gateway, as deployed.  Shares are counted in deals. *)
(***************************************************************************)
EXTENDS Naturals, FiniteSets

CONSTANTS
  Intents,     \* the intents of one date and side
  Legs,        \* their order legs
  IntentOf,    \* the intent of a leg
  Requests,    \* deliveries of packets to /v1/execute
  IntentFor,   \* the intent of a request's packet
  None,        \* SQL NULL, and no value in general
  Requested,   \* requested_shares of a leg
  Tagged,      \* whether callbacks carry the client tag
  DailyLimit,  \* maxDailyBuyOrders, maxDailySellOrders
  Overlap,     \* requests that run at a time
  QueueSize,   \* LIVE_EXECUTION_CALLBACK_QUEUE_SIZE
  MaxFaults    \* crashes, time-outs, broken calls and connections

ASSUME IntentsAssumption == IntentOf \in [Legs -> Intents] /\ IntentFor \in [Requests -> Intents]
ASSUME NoneAssumption == None \notin Intents \union Legs
ASSUME BoundsAssumption == /\ {DailyLimit, Overlap, QueueSize, MaxFaults} \subseteq Nat
                           /\ Requested \in Nat \ {0}
                           /\ Tagged \subseteq BOOLEAN

VARIABLES
  intent,   \* broker_execution_intents: status
  leg,      \* broker_execution_legs: status, whether broker_order_id is set, filled_shares
  events,   \* broker_execution_events: which, and whether leg_id is set
  order,    \* the broker's order with the client tag of a leg
  queue,    \* callbacks not yet recorded
  gateway,  \* started, connected, and why it is unhealthy
  thread,   \* requests, the event writer and the reconciler
  faults

vars == <<intent, leg, events, order, queue, gateway, thread, faults>>

Writer == "writer"
Poller == "reconciler"
Threads == Requests \union {Writer, Poller}
ASSUME ThreadsAssumption == Writer \notin Requests /\ Poller \notin Requests

Filling  == {"PARTIALLY_FILLED", "FILLED"}
Statuses == {"absent", "RESERVED", "SUBMITTING", "ACKNOWLEDGED", "CANCELLED", "REJECTED", "UNKNOWN"}
            \union Filling
Ambiguous == {"SUBMITTING", "UNKNOWN"}

(* A callback, a polled status or an acknowledgement: what the broker's     *)
(* version of the order was, its status, and the shares it tells of.        *)
EventTypes == {"ORDER_CALLBACK", "DEAL_CALLBACK", "STATUS_RECONCILIATION", "SUBMIT_ACK"}
EventStatuses == {"submitted", "deal", "partly", "filled", "cancelled", "failed", "ack"}
Events  == [type : EventTypes, leg : Legs, tagged : BOOLEAN, ver : Nat, status : EventStatuses, shares : Nat]
Entries == [ev : Events, matched : BOOLEAN]
Event(type, l, tagged, status, shares) ==
  [type |-> type, leg |-> l, tagged |-> tagged, ver |-> order[l].ver, status |-> status, shares |-> shares]
IdOf(ev) == [type |-> ev.type, leg |-> ev.leg, ver |-> ev.ver]

Idle == [pc |-> "idle", leg |-> None, row |-> None, ev |-> None, todo |-> {}, pub |-> None]
RequestPcs == {"new", "admitted", "starting", "checked", "reserved", "legs", "claimed", "submit", "read", "ack",
               "attach", "attaching", "reject", "unknown", "done"}
Pcs == {"idle", "match", "insert", "apply", "polling"} \union RequestPcs
Unhealthy == {"overflow", "persistence", "connection", "reconciliation"}

Rows == [status : Statuses, known : BOOLEAN, filled : Nat]
ASSUME RowsAssumption == None \notin Rows

Orders == [placed : Nat, state : {"none", "sent", "live", "filled", "cancelled", "failed"},
           filled : 0 .. Requested, ver : Nat]
Pubs   == [intent : Intents, status : Statuses \ {"absent"}]
Gateways == [started : BOOLEAN, connected : BOOLEAN, unhealthy : Unhealthy \union {None}]
Frames == [pc : Pcs, leg : Legs \union {None}, row : Rows \union {None}, ev : Events \union {None},
           todo : SUBSET (Events \union Entries), pub : Pubs \union {None}]

TypeOK ==
  /\ intent \in [Intents -> Statuses]
  /\ leg \in [Legs -> Rows]
  /\ events \subseteq Entries
  /\ order \in [Legs -> Orders]
  /\ queue \subseteq Events /\ Cardinality(queue) <= QueueSize
  /\ gateway \in Gateways
  /\ thread \in [Threads -> Frames]
  /\ faults \in 0 .. MaxFaults

Init ==
  /\ intent = [i \in Intents |-> "absent"]
  /\ leg = [l \in Legs |-> [status |-> "absent", known |-> FALSE, filled |-> 0]]
  /\ events = {}
  /\ order = [l \in Legs |-> [placed |-> 0, state |-> "none", filled |-> 0, ver |-> 0]]
  /\ queue = {}
  /\ gateway = [started |-> FALSE, connected |-> FALSE, unhealthy |-> None]
  /\ thread = [t \in Threads |-> IF t \in Requests THEN [Idle EXCEPT !.pc = "new"] ELSE Idle]
  /\ faults = 0
-----------------------------------------------------------------------------
Fault == faults < MaxFaults /\ faults' = faults + 1
NoFault == UNCHANGED faults
At(t, pc) == thread[t].pc = pc /\ thread[t].pub = None
Set(t, changed) == thread' = [thread EXCEPT ![t] = changed]
Goto(t, pc) == Set(t, [thread[t] EXCEPT !.pc = pc])
LegsOf(i) == {l \in Legs : IntentOf[l] = i}
Larger(a, b) == IF a > b THEN a ELSE b
Healthy == gateway.started /\ gateway.connected /\ gateway.unhealthy = None
Locked(r) == thread[r].pc \notin {"new", "admitted", "starting", "checked", "done"} \/ thread[r].pub # None
BrokerLockFree == thread[Poller].pc = "idle"

(* _refresh_intent_status reads the legs and computes; the UPDATE is        *)
(* another statement, and waits in pub.                                     *)
Refreshed(i, rows) ==
  LET statuses == {rows[l].status : l \in LegsOf(i)}
  IN IF statuses = {"FILLED"} THEN "FILLED"
     ELSE IF "UNKNOWN" \in statuses THEN "UNKNOWN"
     ELSE IF statuses \intersect Filling # {} THEN "PARTIALLY_FILLED"
     ELSE IF "SUBMITTING" \in statuses THEN "SUBMITTING"
     ELSE IF statuses = {"REJECTED"} THEN "REJECTED"
     ELSE IF statuses = {"CANCELLED"} THEN "CANCELLED"
     ELSE IF "ACKNOWLEDGED" \in statuses THEN "ACKNOWLEDGED"
     ELSE "RESERVED"
Refresh(l) == [intent |-> IntentOf[l], status |-> Refreshed(IntentOf[l], leg')]

Publish(t) ==
  /\ thread[t].pub # None
  /\ intent' = [intent EXCEPT ![thread[t].pub.intent] = thread[t].pub.status]
  /\ Set(t, [thread[t] EXCEPT !.pub = None])
  /\ NoFault
  /\ UNCHANGED <<leg, events, order, queue, gateway>>
-----------------------------------------------------------------------------
(* run_finlab_live_submit up to the reservation.                            *)
Open(i) == intent[i] \notin {"absent", "REJECTED"}
Admissible(i) ==
  LET count == Cardinality({j \in Intents : Open(j)})
  IN (IF intent[i] = "absent" \/ count = 0 THEN count ELSE count - 1) < DailyLimit

Admit(r) ==
  /\ At(r, "new")
  /\ Cardinality({q \in Requests : thread[q].pc \notin {"new", "done"}}) < Overlap
  /\ Goto(r, IF Admissible(IntentFor[r]) THEN "admitted" ELSE "done")
  /\ NoFault
  /\ UNCHANGED <<intent, leg, events, order, queue, gateway>>

(* revalidate_broker_truth: the first one after a start connects and polls. *)
Snapshots ==
  LET status(o) == IF o.state # "live" THEN o.state ELSE IF o.filled > 0 THEN "partly" ELSE "submitted"
  IN {Event("STATUS_RECONCILIATION", l, TRUE, status(order[l]), order[l].filled) :
        l \in {k \in Legs : order[k].state \notin {"none", "sent"}}}
Polling == [thread[Poller] EXCEPT !.pc = "polling", !.todo = Snapshots]

Revalidate(r) ==
  /\ At(r, "admitted") /\ BrokerLockFree
  /\ IF gateway.started
     THEN Goto(r, IF gateway.unhealthy = None THEN "checked" ELSE "done") /\ UNCHANGED gateway
     ELSE /\ gateway' = [gateway EXCEPT !.started = TRUE, !.connected = TRUE]
          /\ thread' = [thread EXCEPT ![Poller] = Polling, ![r].pc = "starting"]
  /\ NoFault
  /\ UNCHANGED <<intent, leg, events, order, queue>>

(* Under _SUBMIT_LOCK from here on.  An intent that is there is kept; its   *)
(* legs are put in one by one where they are missing.                       *)
Reserve(r) ==
  /\ At(r, "checked") /\ BrokerLockFree /\ ~(\E q \in Requests : Locked(q))
  /\ intent' = IF intent[IntentFor[r]] = "absent" THEN [intent EXCEPT ![IntentFor[r]] = "RESERVED"]
               ELSE intent
  /\ Goto(r, "reserved")
  /\ NoFault
  /\ UNCHANGED <<leg, events, order, queue, gateway>>

InsertLeg(r) ==
  /\ At(r, "reserved")
  /\ LET missing == {l \in LegsOf(IntentFor[r]) : leg[l].status = "absent"}
     IN IF missing = {} THEN Goto(r, "legs") /\ UNCHANGED leg
        ELSE \E l \in missing : leg' = [leg EXCEPT ![l].status = "RESERVED"] /\ UNCHANGED thread
  /\ NoFault
  /\ UNCHANGED <<intent, events, order, queue, gateway>>

(* claim_leg, for the legs whose stored state allows another try.           *)
Claimable_Unknown(l) == leg[l].status \in {"RESERVED", "UNKNOWN"} /\ ~leg[l].known
Claimable(l) == leg[l].status = "RESERVED" /\ ~leg[l].known

ClaimLeg(r) ==
  /\ At(r, "legs")
  /\ \/ \E l \in LegsOf(IntentFor[r]) :
          /\ Claimable(l)
          /\ leg' = [leg EXCEPT ![l].status = "SUBMITTING"]
          /\ Set(r, [thread[r] EXCEPT !.pc = "claimed", !.leg = l,
                                      !.pub = [intent |-> IntentOf[l], status |-> "SUBMITTING"]])
     \/ /\ ~(\E l \in LegsOf(IntentFor[r]) : Claimable(l))
        /\ Goto(r, "done") /\ UNCHANGED leg
  /\ NoFault
  /\ UNCHANGED <<intent, events, order, queue, gateway>>

(* The packet's expiry and the order book are looked at again.              *)
Recheck(r) ==
  /\ At(r, "claimed")
  /\ \/ Goto(r, "submit") /\ NoFault
     \/ Goto(r, "reject") /\ Fault
  /\ UNCHANGED <<intent, leg, events, order, queue, gateway>>
-----------------------------------------------------------------------------
(* A callback reaches the bounded queue of a connected gateway.             *)
Callback_Unbounded(ev) ==
  IF gateway.connected THEN queue' = queue \union {ev} /\ UNCHANGED gateway ELSE UNCHANGED <<queue, gateway>>
Callback(ev) ==
  IF ~gateway.connected THEN UNCHANGED <<queue, gateway>>
  ELSE IF Cardinality(queue) < QueueSize THEN queue' = queue \union {ev} /\ UNCHANGED gateway
  ELSE gateway' = [gateway EXCEPT !.unhealthy = "overflow"] /\ UNCHANGED queue

Moved(l, state, shares) ==
  [order EXCEPT ![l].state = state, ![l].filled = @ + shares, ![l].ver = @ + 1]
(* The broker's order changes and its callback goes out.                    *)
Tell(l, type, state, status, shares) ==
  /\ order' = Moved(l, state, shares)
  /\ \E tagged \in Tagged :
       Callback([type |-> type, leg |-> l, tagged |-> tagged, ver |-> order[l].ver + 1,
                 status |-> status, shares |-> shares])

Placed(l, state, ver) == [order EXCEPT ![l].placed = @ + 1, ![l].state = state, ![l].ver = ver]
PlaceOrder(r) ==
  /\ At(r, "submit") /\ BrokerLockFree
  /\ LET l == thread[r].leg
     IN \/ /\ ~Healthy
           /\ Goto(r, "unknown") /\ NoFault /\ UNCHANGED <<order, queue, gateway>>
        \/ /\ Healthy
           /\ \E tagged \in Tagged :
                LET ev == [type |-> "ORDER_CALLBACK", leg |-> l, tagged |-> tagged, ver |-> 1,
                           status |-> "submitted", shares |-> 0]
                IN Callback(ev)
           /\ order' = Placed(l, "live", 1)
           /\ \/ Goto(r, "read") /\ NoFault
              \/ Goto(r, "unknown") /\ Fault
        \/ /\ Healthy
           /\ order' = Placed(l, "failed", 1)
           /\ Goto(r, "reject") /\ Fault /\ UNCHANGED <<queue, gateway>>
        \/ /\ Healthy
           /\ order' = Placed(l, "sent", order[l].ver)
           /\ Goto(r, "unknown") /\ Fault /\ UNCHANGED <<queue, gateway>>
  /\ UNCHANGED <<intent, leg, events>>

OrderArrives(l) ==
  /\ order[l].state = "sent"
  /\ Tell(l, "ORDER_CALLBACK", "live", "submitted", 0)
  /\ NoFault
  /\ UNCHANGED <<intent, leg, events, thread>>

OrderFills(l) ==
  /\ order[l].state = "live"
  /\ Tell(l, "DEAL_CALLBACK", IF order[l].filled + 1 = Requested THEN "filled" ELSE "live", "deal", 1)
  /\ NoFault
  /\ UNCHANGED <<intent, leg, events, thread>>

OrderEnds(l) ==
  /\ order[l].state = "live"
  /\ \E state \in {"cancelled", "failed"} :
       /\ state = "failed" => order[l].filled = 0
       /\ Tell(l, "ORDER_CALLBACK", state, state, 0)
  /\ Fault
  /\ UNCHANGED <<intent, leg, events, thread>>
-----------------------------------------------------------------------------
(* reduce_leg_state and the sums of _apply_event_to_leg.                    *)
Reduce(status, ev, filled) ==
  IF status = "FILLED" THEN "FILLED"
  ELSE IF ev.status = "cancelled" THEN "CANCELLED"
  ELSE IF ev.status = "failed" THEN "REJECTED"
  ELSE IF ev.status = "filled" THEN "FILLED"
  ELSE IF ev.status = "partly" THEN "PARTIALLY_FILLED"
  ELSE IF ev.type \in {"DEAL_CALLBACK", "STATUS_RECONCILIATION"} /\ filled > 0
       THEN IF filled >= Requested THEN "FILLED" ELSE "PARTIALLY_FILLED"
  ELSE IF status = "PARTIALLY_FILLED" /\ ev.type # "STATUS_RECONCILIATION" THEN status
  ELSE "ACKNOWLEDGED"
FilledBy(row, ev) ==
  IF ev.type = "DEAL_CALLBACK" THEN row.filled + ev.shares ELSE Larger(row.filled, ev.shares)

(* The UPDATE sets the status that follows from the row that was read.      *)
Applied(row, ev) ==
  [leg EXCEPT ![ev.leg].status = Reduce(row.status, ev, FilledBy(row, ev)),
              ![ev.leg].filled = Larger(@, FilledBy(row, ev))]
Updated(row, ev) ==
  [row EXCEPT !.status = Reduce(@, ev, FilledBy(row, ev)), !.filled = Larger(@, FilledBy(row, ev))]

(* record_broker_event: find the leg by order id or tag and give it the     *)
(* order id; stop at an event that is recorded; record it; apply it.        *)
Return(t) ==
  IF t = Writer THEN Idle
  ELSE IF t = Poller THEN [Idle EXCEPT !.pc = "polling", !.todo = thread[t].todo]
  ELSE [thread[t] EXCEPT !.pc = "attach", !.ev = None, !.row = None]

Match(t) ==
  /\ At(t, "match")
  /\ LET ev == thread[t].ev
         found == leg[ev.leg].known \/ ev.tagged
     IN /\ leg' = IF found THEN [leg EXCEPT ![ev.leg].known = TRUE] ELSE leg
        /\ Set(t, [thread[t] EXCEPT !.pc = "insert", !.row = IF found THEN leg[ev.leg] ELSE None])
  /\ NoFault
  /\ UNCHANGED <<intent, events, order, queue, gateway>>

Recorded(ev) == \E e \in events : IdOf(e.ev) = IdOf(ev)
Insert(t) ==
  /\ At(t, "insert")
  /\ LET ev == thread[t].ev
         row == thread[t].row
     IN IF Recorded(ev) THEN Set(t, Return(t)) /\ UNCHANGED events
        ELSE /\ events' = events \union {[ev |-> ev, matched |-> row # None]}
             /\ IF row = None THEN Set(t, Return(t)) ELSE Goto(t, "apply")
  /\ NoFault
  /\ UNCHANGED <<intent, leg, order, queue, gateway>>

Apply(t) ==
  /\ At(t, "apply")
  /\ leg' = Applied(thread[t].row, thread[t].ev)
  /\ Set(t, [Return(t) EXCEPT !.pub = Refresh(thread[t].ev.leg)])
  /\ NoFault
  /\ UNCHANGED <<intent, events, order, queue, gateway>>
-----------------------------------------------------------------------------
(* mark_submit_ack: the row is read, written, the acknowledgement recorded  *)
(* as an event, and the events that came before it are attached.            *)
ReadLeg(r) ==
  /\ At(r, "read")
  /\ Set(r, [thread[r] EXCEPT !.pc = "ack", !.row = leg[thread[r].leg]])
  /\ NoFault
  /\ UNCHANGED <<intent, leg, events, order, queue, gateway>>

MarkAck(r) ==
  /\ At(r, "ack")
  /\ LET l == thread[r].leg
         ev == [Event("SUBMIT_ACK", l, TRUE, "ack", 0) EXCEPT !.ver = order[l].placed]
     IN /\ leg' = [leg EXCEPT ![l].status = Reduce(thread[r].row.status, ev, 0), ![l].known = TRUE]
        /\ Set(r, [thread[r] EXCEPT !.pc = "match", !.ev = ev])
  /\ NoFault
  /\ UNCHANGED <<intent, events, order, queue, gateway>>

Unattached_Any(l) == {e \in events : e.ev.leg = l /\ e.ev.type # "SUBMIT_ACK"}
Unattached(l) == {e \in events : e.ev.leg = l /\ ~e.matched}
Attach(r) ==
  /\ At(r, "attach")
  /\ Set(r, [thread[r] EXCEPT !.pc = "attaching", !.todo = Unattached(thread[r].leg),
                              !.row = leg[thread[r].leg]])
  /\ NoFault
  /\ UNCHANGED <<intent, leg, events, order, queue, gateway>>

AttachNext(r) ==
  /\ At(r, "attaching")
  /\ LET l == thread[r].leg
     IN IF thread[r].todo = {}
        THEN Set(r, [Idle EXCEPT !.pc = "legs"]) /\ UNCHANGED <<leg, events>>
        ELSE \E e \in thread[r].todo :
               /\ leg' = Applied(thread[r].row, e.ev)
               /\ events' = (events \ {e}) \union {[e EXCEPT !.matched = TRUE]}
               /\ Set(r, [thread[r] EXCEPT !.todo = @ \ {e}, !.pub = Refresh(l), !.row = Updated(@, e.ev)])
  /\ NoFault
  /\ UNCHANGED <<intent, order, queue, gateway>>

(* mark_submit_rejected and mark_submit_unknown, and the request is over.   *)
Mark(r, pc, status) ==
  /\ At(r, pc)
  /\ leg' = [leg EXCEPT ![thread[r].leg].status = status]
  /\ Set(r, [Idle EXCEPT !.pc = "done", !.pub = Refresh(thread[r].leg)])
  /\ NoFault
  /\ UNCHANGED <<intent, events, order, queue, gateway>>
MarkRejected(r) == Mark(r, "reject", "REJECTED")
MarkUnknown_Rejects(r) == Mark(r, "unknown", "REJECTED")
MarkUnknown(r) == Mark(r, "unknown", "UNKNOWN")

(* A statement fails while the acknowledgement is written: the outcome is   *)
(* called unknown.  One that fails elsewhere ends the request.              *)
RequestFails(r) ==
  /\ Locked(r)
  /\ IF thread[r].pc \in {"read", "ack", "match", "insert", "apply", "attach", "attaching"}
     THEN Set(r, [Idle EXCEPT !.pc = "unknown", !.leg = thread[r].leg])
     ELSE Set(r, [Idle EXCEPT !.pc = "done"])
  /\ Fault
  /\ UNCHANGED <<intent, leg, events, order, queue, gateway>>
-----------------------------------------------------------------------------
(* The event writer takes a callback; one that it fails to record is gone.  *)
TakeCallback ==
  /\ At(Writer, "idle") /\ gateway.started
  /\ \E ev \in queue :
       queue' = queue \ {ev} /\ Set(Writer, [Idle EXCEPT !.pc = "match", !.ev = ev])
  /\ NoFault
  /\ UNCHANGED <<intent, leg, events, order, gateway>>
WriterFails ==
  /\ thread[Writer].pc # "idle" \/ thread[Writer].pub # None
  /\ Set(Writer, Idle)
  /\ gateway' = [gateway EXCEPT !.unhealthy = "persistence"]
  /\ Fault
  /\ UNCHANGED <<intent, leg, events, order, queue>>

(* _reconcile_loop: a lost connection is restored, ambiguous legs are       *)
(* polled for; reconcile_once records the status of every order.            *)
Unresolved_Submitting(l) == leg[l].status = "SUBMITTING"
Unresolved(l) == leg[l].status \in Ambiguous
Poll ==
  /\ At(Poller, "idle") /\ gateway.started
  /\ \/ /\ ~gateway.connected \/ gateway.unhealthy = "connection"
        /\ gateway' = [gateway EXCEPT !.connected = TRUE, !.unhealthy = None]
     \/ /\ gateway.connected /\ gateway.unhealthy # "connection"
        /\ \E l \in Legs : Unresolved(l)
        /\ UNCHANGED gateway
  /\ thread' = [thread EXCEPT ![Poller] = Polling]
  /\ NoFault
  /\ UNCHANGED <<intent, leg, events, order, queue>>

(* A poll ends; the request that started the gateway by it goes on, or not. *)
Starting == {r \in Requests : thread[r].pc = "starting"}
PollOver(pc) ==
  thread' = [t \in Threads |-> IF t = Poller THEN Idle
                               ELSE IF t \in Starting THEN [thread[t] EXCEPT !.pc = pc] ELSE thread[t]]
PollNext ==
  /\ At(Poller, "polling")
  /\ IF thread[Poller].todo = {}
     THEN /\ gateway' = [gateway EXCEPT !.connected = TRUE, !.unhealthy =
                           IF @ \in {"connection", "reconciliation"} THEN None ELSE @]
          /\ PollOver("checked")
     ELSE /\ \E ev \in thread[Poller].todo :
               Set(Poller, [Idle EXCEPT !.pc = "match", !.ev = ev, !.todo = thread[Poller].todo \ {ev}])
          /\ UNCHANGED gateway
  /\ NoFault
  /\ UNCHANGED <<intent, leg, events, order, queue>>
PollFails ==
  /\ thread[Poller].pc # "idle"
  /\ PollOver("done")
  /\ gateway' = IF Starting = {} THEN [gateway EXCEPT !.unhealthy = "reconciliation"] ELSE gateway
  /\ Fault
  /\ UNCHANGED <<intent, leg, events, order, queue>>

Disconnect ==
  /\ gateway.connected
  /\ gateway' = [gateway EXCEPT !.connected = FALSE, !.unhealthy = "connection"]
  /\ Fault
  /\ UNCHANGED <<intent, leg, events, order, queue, thread>>

(* The broker sends a callback again that was recorded or is being so.      *)
Resend ==
  /\ gateway.connected /\ Cardinality(queue) < QueueSize
  /\ \E e \in events : e.ev.type \in {"ORDER_CALLBACK", "DEAL_CALLBACK"} /\ queue' = queue \union {e.ev}
  /\ Fault
  /\ UNCHANGED <<intent, leg, events, order, gateway, thread>>

(* The instance is replaced: its threads and its queue are gone.            *)
Crash ==
  /\ gateway.started
  /\ gateway' = [started |-> FALSE, connected |-> FALSE, unhealthy |-> None]
  /\ queue' = {}
  /\ thread' = [t \in Threads |->
       IF t \notin Requests THEN Idle
       ELSE IF thread[t].pc = "new" THEN thread[t] ELSE [Idle EXCEPT !.pc = "done"]]
  /\ Fault
  /\ UNCHANGED <<intent, leg, events, order>>
-----------------------------------------------------------------------------
Serve(r) ==
  \/ Admit(r) \/ Revalidate(r) \/ Reserve(r) \/ InsertLeg(r) \/ ClaimLeg(r) \/ Recheck(r)
  \/ PlaceOrder(r) \/ ReadLeg(r) \/ MarkAck(r) \/ Attach(r) \/ AttachNext(r)
  \/ MarkRejected(r) \/ MarkUnknown(r)
Record(t) == Publish(t) \/ Match(t) \/ Insert(t) \/ Apply(t)
Broker(l) == OrderArrives(l) \/ OrderFills(l) \/ OrderEnds(l)
Work == TakeCallback \/ Poll \/ PollNext
Failure == WriterFails \/ PollFails \/ Disconnect \/ Resend \/ Crash

Next ==
  \/ \E r \in Requests : Serve(r) \/ RequestFails(r)
  \/ \E t \in Threads : Record(t)
  \/ \E l \in Legs : Broker(l)
  \/ Work \/ Failure

Spec == Init /\ [][Next]_vars

(* As long as a request, the event writer or the reconciler can go on, one  *)
(* of them does.                                                            *)
Progress == (\E r \in Requests : Serve(r)) \/ (\E t \in Threads : Record(t)) \/ Work
FairSpec == Spec /\ WF_vars(Progress)
-----------------------------------------------------------------------------
(* A leg becomes at most one order, however often its packet is delivered   *)
(* and whatever became of an earlier try: lost answers, crashes, a failed   *)
(* acknowledgement.  (claim_leg, NON_RETRYABLE_LEG_STATES.)                 *)
OneOrderPerLeg == \A l \in Legs : order[l].placed <= 1

(* An intent with an order that fills or may fill is never called rejected, *)
(* though its status is written from legs that were read earlier: it keeps  *)
(* counting toward the daily limit.  (_refresh_intent_status.)              *)
OpenOrderIsCounted ==
  \A l \in Legs : order[l].state \in {"sent", "live", "filled"} => intent[IntentOf[l]] # "REJECTED"

(* As long as nothing was polled, no deal counts twice: not by a repeated   *)
(* callback, nor by one that came before its order id was known.            *)
(* (event ids, the unmatched events of mark_submit_ack.)                    *)
Polled(l) == \E e \in events : e.ev.type = "STATUS_RECONCILIATION" /\ e.ev.leg = l /\ e.ev.shares > 0
DealsCountOnce == \A l \in Legs : Polled(l) \/ leg[l].filled <= order[l].filled

(* A leg whose outcome is not known is resolved, if the broker has the      *)
(* order and the gateway runs; but for an outcome that was recorded before  *)
(* the leg was marked, which no later poll applies.  (_reconcile_loop.)     *)
Swallowed(l) ==
  \E e \in events : e.ev.type = "STATUS_RECONCILIATION" /\ e.ev.leg = l /\ e.ev.ver = order[l].ver
Unsettled(l) == leg[l].status \in Ambiguous /\ order[l].state \notin {"none", "sent"}
AmbiguityEnds == \A l \in Legs : Unsettled(l) ~> (~Unsettled(l) \/ Swallowed(l) \/ ~gateway.started)
=============================================================================
