------------------------------ MODULE EventBus ------------------------------
(* The event bus (pkg/events/bus.go): emitters that never block, a bounded    *)
(* buffer, the pump, one bounded queue and goroutine for each sink, and the   *)
(* webhook dispatcher (internal/serve/webhooks.go) behind one of the sinks.   *)
(* Event e > 0 is the e-th that was emitted, event -n the n-th record of      *)
(* drops (EventsDropped) that the bus emits itself.                           *)
EXTENDS Integers, Sequences, FiniteSets, SequencesExt, FiniteSetsExt

CONSTANTS
  Sinks,         \* sinks added at the start, and subscribers
  Subscribers,   \* those that come and go
  Hook,          \* the sink that is the webhook dispatcher
  RingSize,      \* places in the buffer
  QueueSize,     \* places in each sink's queue, and in the dispatcher's
  MaxEmits,      \* bound: events emitted
  MaxAudits,     \* bound: records of drops
  Cuts           \* may the bus be stopped hard: by the signal, by Close's budget?

ASSUME BusAssumption ==
  /\ RingSize \in Nat \ {0} /\ QueueSize \in Nat \ {0} /\ MaxEmits \in Nat /\ MaxAudits \in Nat
  /\ IsFiniteSet(Sinks) /\ Hook \in Sinks \ Subscribers /\ Subscribers \subseteq Sinks
  /\ Cuts \subseteq {"signal", "budget"}

VARIABLES
  emitted,     \* events emitted so far
  ring,        \* Bus.ring
  pending,     \* Bus.pendingDrops
  total,       \* Bus.totalDrops
  shutBus,     \* Bus.closed
  cut,         \* Bus.ctx is cancelled before every sink has drained
  pump,        \* Bus.run: where it stands, the event in hand, the slots it has yet to push to
  slots,       \* Bus.slots
  slot,        \* each sinkSlot: where run stands, ring, event in hand, stopCh
  closer,      \* where Close stands
  hookq,       \* how many events WebhookDispatcher.queue holds
  hook,        \* where its worker stands: run, gone
  audits,      \* records of drops so far
  fanned,      \* history: how many events the pump took
  owed,        \* history: how many events were pushed to each slot
  given,       \* history: how many events each sink was given
  latest       \* history: the latest event each sink was given

busVars == <<emitted, ring, pending, total, shutBus, cut, pump, slots, slot, closer,
             hookq, hook, audits, fanned, owed, given,
             latest>>

NewSlot == [at |-> "run", queue |-> <<>>, hand |-> 0, stop |-> FALSE]
NoSlot  == [NewSlot EXCEPT !.at = "none"]

BusInit ==
  /\ emitted = 0 /\ ring = <<>> /\ pending = 0 /\ total = 0 /\ shutBus = FALSE /\ cut = FALSE
  /\ pump = [at |-> "top", hand |-> 0, todo |-> {}]
  /\ slots = Sinks \ Subscribers
  /\ slot = [s \in Sinks |-> IF s \in Subscribers THEN NoSlot ELSE NewSlot]
  /\ closer = "open" /\ hookq = 0 /\ hook = "run" /\ audits = 0
  /\ fanned = 0 /\ owed = [s \in Sinks |-> 0]
  /\ given = [s \in Sinks |-> 0] /\ latest = [s \in Sinks |-> 0]

-----------------------------------------------------------------------------
(* Emitting.                                                                 *)

\* Emit on a bus that is closed or cancelled drops the event.
EmitLate ==
  /\ emitted < MaxEmits /\ (shutBus \/ cut)
  /\ emitted' = emitted + 1 /\ total' = total + 1
  /\ UNCHANGED <<ring, pending, shutBus, cut, pump, slots, slot, closer, hookq, hook,
                 audits, fanned, owed, given, latest>>

\* A full buffer drops its oldest event.  The cancellation may fall between Emit's look
\* at the context and the lock.
Emit ==
  LET full == Len(ring) = RingSize  n == IF full THEN 1 ELSE 0 IN
  /\ emitted < MaxEmits /\ ~shutBus
  /\ emitted' = emitted + 1
  /\ ring' = Append(IF full THEN Tail(ring) ELSE ring, emitted + 1)
  /\ pending' = pending + n /\ total' = total + n
  /\ UNCHANGED <<shutBus, cut, pump, slots, slot, closer, hookq, hook, audits, fanned,
                 owed, given, latest>>

-----------------------------------------------------------------------------
(* The pump.                                                                 *)

StopSlots == slot' = [s \in Sinks |-> IF s \in slots THEN [slot[s] EXCEPT !.stop = TRUE]
                                      ELSE slot[s]]

\* What is still buffered at a hard stop is counted.
PumpCut ==
  /\ pump.at \in {"top", "wait"} /\ cut
  /\ shutBus' = TRUE /\ total' = total + Len(ring) /\ ring' = <<>>
  /\ pump' = [pump EXCEPT !.at = "gone"] /\ StopSlots
  /\ UNCHANGED <<emitted, pending, cut, slots, closer, hookq, hook, audits, fanned,
                 owed, given, latest>>

PumpPop ==
  /\ pump.at = "top" /\ ring # <<>>
  /\ pump' = [at |-> "fan", hand |-> Head(ring), todo |-> slots]
  /\ ring' = Tail(ring) /\ fanned' = fanned + 1
  /\ UNCHANGED <<emitted, pending, total, shutBus, cut, slots, slot, closer, hookq,
                 hook, audits, owed, given, latest>>

PushToExited(s) ==
  LET ev == pump.hand  q == slot[s].queue  full == Len(q) = QueueSize
      n == IF full THEN 1 ELSE 0 IN
  /\ pump.at \in {"fan", "last"} /\ s \in pump.todo
  /\ slot' = [slot EXCEPT ![s].queue = Append(IF full THEN Tail(q) ELSE q, ev)]
  /\ pending' = pending + n /\ total' = total + n
  /\ owed' = [owed EXCEPT ![s] = @ + 1]
  /\ pump' = [pump EXCEPT !.todo = @ \ {s}]
  /\ UNCHANGED <<emitted, ring, shutBus, cut, slots, closer, hookq, hook, audits, fanned,
                 given, latest>>

\* fanOut to one slot of the snapshot: a full queue drops its oldest event, a slot that
\* has exited the new one; either is recorded.
Push(s) ==
  LET ev == pump.hand  q == slot[s].queue
      exited == slot[s].at = "gone"  full == Len(q) = QueueSize
      n == IF exited \/ full THEN 1 ELSE 0 IN
  /\ pump.at \in {"fan", "last"} /\ s \in pump.todo
  /\ slot' = IF exited THEN slot
             ELSE [slot EXCEPT ![s].queue = Append(IF full THEN Tail(q) ELSE q, ev)]
  /\ pending' = pending + n /\ total' = total + n
  /\ owed' = [owed EXCEPT ![s] = @ + 1]
  /\ pump' = [pump EXCEPT !.todo = @ \ {s}]
  /\ UNCHANGED <<emitted, ring, shutBus, cut, slots, closer, hookq, hook, audits, fanned,
                 given, latest>>

PumpNext ==
  /\ pump.at = "fan" /\ pump.todo = {}
  /\ pump' = [pump EXCEPT !.at = "top", !.hand = 0]
  /\ UNCHANGED <<emitted, ring, pending, total, shutBus, cut, slots, slot, closer, hookq,
                 hook, audits, fanned, owed, given, latest>>

\* One record stands for every drop since the last one.
Audit(at) ==
  /\ audits < MaxAudits /\ audits' = audits + 1
  /\ pending' = 0
  /\ pump' = [at |-> at, hand |-> -(audits + 1), todo |-> slots]

\* The buffer is empty: the pump of an open bus waits; that of a closed one emits what it
\* owes of records and stops the slots.
PumpWaits ==
  /\ pump.at = "top" /\ ring = <<>> /\ ~shutBus
  /\ pump' = [pump EXCEPT !.at = "wait"]
  /\ UNCHANGED <<emitted, ring, pending, total, shutBus, cut, slots, slot, closer, hookq, hook,
                 audits, fanned, owed, given, latest>>

PumpLast ==
  /\ pump.at = "top" /\ ring = <<>> /\ shutBus /\ pending > 0
  /\ Audit("last")
  /\ UNCHANGED <<emitted, ring, total, shutBus, cut, slots, slot, closer, hookq, hook,
                 fanned, owed, given, latest>>

PumpStops ==
  /\ \/ pump.at = "top" /\ ring = <<>> /\ shutBus /\ pending = 0
     \/ pump.at = "last" /\ pump.todo = {}
  /\ pump' = [pump EXCEPT !.at = "gone", !.hand = 0] /\ StopSlots
  /\ UNCHANGED <<emitted, ring, pending, total, shutBus, cut, slots, closer, hookq, hook,
                 audits, fanned, owed, given, latest>>

PumpWakes ==
  /\ pump.at = "wait" /\ (ring # <<>> \/ shutBus)
  /\ pump' = [pump EXCEPT !.at = "top"]
  /\ UNCHANGED <<emitted, ring, pending, total, shutBus, cut, slots, slot, closer, hookq,
                 hook, audits, fanned, owed, given, latest>>

\* The timer of the coalescing window, which the pump sets when it begins to wait.
PumpFlushes ==
  /\ pump.at = "wait" /\ pending > 0
  /\ Audit("fan")
  /\ UNCHANGED <<emitted, ring, total, shutBus, cut, slots, slot, closer, hookq, hook, fanned,
                 owed, given, latest>>

-----------------------------------------------------------------------------
(* The slots.                                                                *)

SlotPopLatest(s) ==
  /\ slot[s].at \in {"run", "drain"} /\ slot[s].hand = 0 /\ slot[s].queue # <<>>
  /\ slot' = [slot EXCEPT ![s].hand = Last(slot[s].queue), ![s].queue = Front(@)]
  /\ UNCHANGED <<emitted, ring, pending, total, shutBus, cut, pump, slots, closer, hookq,
                 hook, audits, fanned, owed, given, latest>>

SlotPop(s) ==
  /\ slot[s].at \in {"run", "drain"} /\ slot[s].hand = 0 /\ slot[s].queue # <<>>
  /\ slot' = [slot EXCEPT ![s].hand = Head(slot[s].queue), ![s].queue = Tail(@)]
  /\ UNCHANGED <<emitted, ring, pending, total, shutBus, cut, pump, slots, closer, hookq,
                 hook, audits, fanned, owed, given, latest>>

\* The sink has the event.  The dispatcher's queue drops it when full, and so does the
\* channel of a subscriber that is slow.
Deliver(s) ==
  /\ slot[s].hand # 0
  /\ slot' = [slot EXCEPT ![s].hand = 0]
  /\ \/ /\ given' = [given EXCEPT ![s] = @ + 1]
        /\ latest' = [latest EXCEPT ![s] = IF slot[s].hand > 0 THEN slot[s].hand ELSE @]
        /\ hookq' = IF s = Hook /\ hookq < QueueSize THEN hookq + 1 ELSE hookq
        /\ UNCHANGED <<pending, total>>
     \/ /\ s \in Subscribers
        /\ pending' = pending + 1 /\ total' = total + 1
        /\ UNCHANGED <<given, latest, hookq>>
  /\ UNCHANGED <<emitted, ring, shutBus, cut, pump, slots, closer, hook, audits, fanned,
                 owed>>

\* exitHard: what is queued is counted, and what is pushed from now on as well.
SlotCut(s) ==
  /\ slot[s].at \in {"run", "drain"} /\ slot[s].hand = 0 /\ cut
  /\ total' = total + Len(slot[s].queue)
  /\ slot' = [slot EXCEPT ![s].at = "gone", ![s].queue = <<>>]
  /\ UNCHANGED <<emitted, ring, pending, shutBus, cut, pump, slots, closer, hookq, hook,
                 audits, fanned, owed, given, latest>>

SlotDrains(s) ==
  /\ slot[s].at = "run" /\ slot[s].hand = 0 /\ slot[s].queue = <<>> /\ slot[s].stop
  /\ slot' = [slot EXCEPT ![s].at = "drain"]
  /\ UNCHANGED <<emitted, ring, pending, total, shutBus, cut, pump, slots, closer, hookq,
                 hook, audits, fanned, owed, given, latest>>

\* The queue is empty under the lock that sets exited.
SlotExits(s) ==
  /\ slot[s].at = "drain" /\ slot[s].hand = 0 /\ slot[s].queue = <<>>
  /\ slot' = [slot EXCEPT ![s].at = "gone"]
  /\ UNCHANGED <<emitted, ring, pending, total, shutBus, cut, pump, slots, closer, hookq,
                 hook, audits, fanned, owed, given, latest>>

Subscribe(s) ==
  /\ s \in Subscribers /\ slot[s].at = "none" /\ ~shutBus
  /\ slots' = slots \union {s} /\ slot' = [slot EXCEPT ![s] = NewSlot]
  /\ UNCHANGED <<emitted, ring, pending, total, shutBus, cut, pump, closer, hookq, hook,
                 audits, fanned, owed, given, latest>>

\* removeSlot: the pump may still hold the slot in its snapshot.
Unsubscribe(s) ==
  /\ s \in Subscribers /\ s \in slots
  /\ slots' = slots \ {s} /\ slot' = [slot EXCEPT ![s].stop = TRUE]
  /\ UNCHANGED <<emitted, ring, pending, total, shutBus, cut, pump, closer, hookq, hook,
                 audits, fanned, owed, given, latest>>

-----------------------------------------------------------------------------
(* Stopping: the bus first, then the dispatcher.                             *)

Cut(why) ==
  /\ why \in Cuts /\ ~cut
  /\ why = "budget" => closer \in {"pump", "sinks"}
  /\ cut' = TRUE
  /\ UNCHANGED <<emitted, ring, pending, total, shutBus, pump, slots, slot, closer, hookq,
                 hook, audits, fanned, owed, given, latest>>

\* Close of a bus that a hard stop closed returns at once.
Close ==
  /\ closer = "open"
  /\ closer' = IF shutBus THEN "done" ELSE "pump"
  /\ shutBus' = TRUE
  /\ UNCHANGED <<emitted, ring, pending, total, cut, pump, slots, slot, hookq, hook,
                 audits, fanned, owed, given, latest>>

\* Close waits for the pump, then for the slots' goroutines, which it leaves behind when
\* its budget is spent.
CloseWaits ==
  /\ \/ closer = "pump" /\ pump.at = "gone" /\ closer' = "sinks"
     \/ /\ closer = "sinks" /\ (cut \/ \A s \in Sinks : slot[s].at \in {"none", "gone"})
        /\ closer' = "done"
  /\ UNCHANGED <<emitted, ring, pending, total, shutBus, cut, pump, slots, slot, hookq,
                 hook, audits, fanned, owed, given, latest>>

-----------------------------------------------------------------------------
(* The dispatcher's worker.  Its context ends with Stop, or with the signal  *)
(* that cancels the bus.                                                     *)

\* deliver: the event is posted, or goes to the dead letters.
HookSettles ==
  /\ hook = "run" /\ hookq > 0
  /\ hookq' = hookq - 1
  /\ UNCHANGED <<emitted, ring, pending, total, shutBus, cut, pump, slots, slot, closer, hook,
                 audits, fanned, owed, given, latest>>

\* drainResidue: what is queued goes to the dead letters.
HookStops ==
  /\ hook = "run" /\ (closer = "done" \/ cut)
  /\ hook' = "gone" /\ hookq' = 0
  /\ UNCHANGED <<emitted, ring, pending, total, shutBus, cut, pump, slots, slot, closer,
                 audits, fanned, owed, given, latest>>

-----------------------------------------------------------------------------
BusNext ==
  \/ EmitLate \/ Emit
  \/ PumpCut \/ PumpPop \/ PumpNext \/ PumpWaits \/ PumpLast \/ PumpStops \/ PumpWakes
  \/ PumpFlushes
  \/ \E s \in Sinks :
       \/ Push(s) \/ SlotPop(s) \/ Deliver(s) \/ SlotCut(s) \/ SlotDrains(s) \/ SlotExits(s)
       \/ Subscribe(s) \/ Unsubscribe(s)
  \/ \E why \in Cuts : Cut(why)
  \/ Close \/ CloseWaits \/ HookSettles \/ HookStops

BusSpec == BusInit /\ [][BusNext]_busVars

-----------------------------------------------------------------------------
BusTypeOK ==
  /\ emitted \in 0..MaxEmits /\ audits \in 0..MaxAudits
  /\ ring \in Seq(1..MaxEmits) /\ Len(ring) <= RingSize
  /\ pending \in Nat /\ total \in Nat
  /\ shutBus \in BOOLEAN /\ cut \in BOOLEAN
  /\ pump.at \in {"top", "fan", "wait", "last", "gone"} /\ pump.todo \subseteq Sinks
  /\ slots \subseteq Sinks
  /\ \A s \in Sinks :
       /\ slot[s].at \in {"none", "run", "drain", "gone"} /\ slot[s].stop \in BOOLEAN
       /\ Len(slot[s].queue) <= QueueSize
  /\ closer \in {"open", "pump", "sinks", "done"}
  /\ hook \in {"run", "gone"} /\ hookq \in 0..QueueSize

\* How many events never reached the pump and never will; how many that were meant for a
\* sink never reached it and never will.
Lost == emitted - fanned - IF pump.at = "gone" THEN 0 ELSE Len(ring)
LostAt(s) ==
  owed[s] - given[s] - (IF slot[s].hand = 0 THEN 0 ELSE 1)
                     - (IF slot[s].at = "gone" THEN 0 ELSE Len(slot[s].queue))

\* The drop counter is exactly the number of events lost, through overflow, slow
\* subscribers, unsubscription, Close, its budget and a hard stop.
DropsCounted == total = Lost + SumFunction([s \in Sinks |-> LostAt(s)])

\* When the bus was closed and the dispatcher stopped, in that order and within the
\* budget, every event that entered the dispatcher's queue was posted or dead-lettered.
WebhooksSettle == hook = "gone" /\ ~cut => hookq = 0

\* Nothing is lost silently, by the bus or by the dispatcher behind it.
NothingLostSilently == DropsCounted /\ WebhooksSettle

\* Each sink sees the events in the order in which they were emitted.
DeliveredInOrder == [][\A s \in Sinks : latest'[s] >= latest[s]]_busVars
=============================================================================
