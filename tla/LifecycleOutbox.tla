--------------------------- MODULE LifecycleOutbox ---------------------------
(***************************************************************************)
(* rf433::LifecycleOutbox (rf433_scheduler.h): the bounded queue that      *)
(* carries command statuses over broker outages.  A status that cannot be  *)
(* published at once is queued; the 5 ms tick flushes the queue in order   *)
(* until a publish fails.  A status is its command id and its kind; the    *)
(* ages and reasons it carries do not steer the queue.                     *)
(***************************************************************************)
EXTENDS Naturals, SequencesExt

CONSTANTS
    Ids,            \* command ids
    Capacity,       \* LifecycleOutbox::CAPACITY
    MaxDropped      \* bound of the model on dropped_count_

ASSUME OutboxAssumption == Capacity \in Nat \ {0} /\ MaxDropped \in Nat

Kinds == {"ACCEPTED", "REJECTED", "STARTED", "DISPLACED", "DISARMED", "COMPLETED"}

Events == [id : Ids, kind : Kinds]

VARIABLES
    events,         \* events_[0 .. size_)
    droppedCount,   \* dropped_count_
    sent            \* statuses the last call published

outboxVars == <<events, droppedCount, sent>>

Init == events = << >> /\ droppedCount = 0 /\ sent = << >>

-----------------------------------------------------------------------------
(* enqueue_().                                                             *)

LifecycleRank(kind) ==
    CASE kind \in {"ACCEPTED", "REJECTED"} -> 0
      [] kind = "STARTED" -> 1
      [] kind \in {"DISPLACED", "DISARMED"} -> 2
      [] kind = "COMPLETED" -> 3

Before(e, f) == e.id = f.id /\ LifecycleRank(e.kind) < LifecycleRank(f.kind)

(* In front of the first queued status of the command that belongs later,  *)
(* else at the back.                                                       *)
IsInsertion(event, at) ==
    /\ at <= Len(events) => Before(event, events[at])
    /\ \A k \in 1 .. at - 1 : ~ Before(event, events[k])

Insertions(event) == {at \in 1 .. Len(events) + 1 : IsInsertion(event, at)}

Completions == {k \in DOMAIN events : events[k].kind = "COMPLETED"}

(* Faulty variant: the oldest status goes, completions or not.             *)
IsVictimOldest(k) == k = 1

(* The first queued completion, or the oldest status when there is none.   *)
IsVictim(k) ==
    IF Completions = {} THEN k = 1
    ELSE k \in Completions /\ \A other \in Completions : k <= other

(* Faulty variant: coalescing only looks at the newest status.             *)
QueuedLast(event) == events # << >> /\ Last(events) = event

Queued(event) == \E k \in DOMAIN events : events[k] = event

(* A status already queued is overwritten where it is.                     *)
Coalesce(event) ==
    /\ Queued(event)
    /\ UNCHANGED <<events, droppedCount>>

(* Faulty variant: the newest goes to the back.                            *)
InsertAtBack(event) ==
    /\ ~ Queued(event)
    /\ Len(events) < Capacity
    /\ events' = Append(events, event)
    /\ UNCHANGED droppedCount

Insert(event) ==
    /\ ~ Queued(event)
    /\ Len(events) < Capacity
    /\ \E at \in Insertions(event) : events' = InsertAt(events, at, event)
    /\ UNCHANGED droppedCount

(* A completion never evicts anything.                                     *)
DiscardCompletion(event) ==
    /\ ~ Queued(event)
    /\ Len(events) = Capacity
    /\ event.kind = "COMPLETED"
    /\ UNCHANGED <<events, droppedCount>>

(* erase_at_.                                                              *)
Erased(victim) == RemoveAt(events, victim)

(* The full queue gives up a status; what stood behind it moves up, and so *)
(* does the insertion point.                                               *)
InsertEvicting(event) ==
    /\ ~ Queued(event)
    /\ Len(events) = Capacity
    /\ event.kind # "COMPLETED"
    /\ \E at \in Insertions(event), victim \in DOMAIN events :
          /\ IsVictim(victim)
          /\ events' = InsertAt(Erased(victim), IF at > victim THEN at - 1 ELSE at, event)
    /\ IF Completions # {} THEN UNCHANGED droppedCount
       ELSE /\ droppedCount < MaxDropped
            /\ droppedCount' = droppedCount + 1

Enqueue(event) ==
    /\ sent' = << >>
    /\ \/ Coalesce(event)
       \/ Insert(event)
       \/ DiscardCompletion(event)
       \/ InsertEvicting(event)

-----------------------------------------------------------------------------
(* publish_or_enqueue(): past an empty queue a status may go out directly; *)
(* otherwise, or when the publish fails, it is queued.                     *)
PublishNow(event) ==
    /\ events = << >>
    /\ sent' = <<event>>
    /\ UNCHANGED <<events, droppedCount>>

(* flush(): publishes from the front until the queue is empty or a publish *)
(* fails.                                                                  *)
Flush ==
    \E published \in 1 .. Len(events) :
        /\ sent' = SubSeq(events, 1, published)
        /\ events' = SubSeq(events, published + 1, Len(events))
        /\ UNCHANGED droppedCount

Next ==
    \/ \E event \in Events : PublishNow(event) \/ Enqueue(event)
    \/ Flush

Spec == Init /\ [][Next]_outboxVars
-----------------------------------------------------------------------------
(* Properties.                                                             *)

(* Type invariant; the array of CAPACITY entries is never overrun, and a   *)
(* status of a command is queued once: "Repeated callbacks for the same    *)
(* command transition coalesce in place" (LifecycleOutbox).                *)
TypeOK ==
    /\ events \in Seq(Events)
    /\ Len(events) <= Capacity
    /\ \A j, k \in DOMAIN events : events[j] = events[k] => j = k
    /\ droppedCount \in 0 .. MaxDropped
    /\ sent \in Seq(Events)

(* The statuses of one command wait in the order of its life, whatever     *)
(* order they came in and whatever was evicted in between: "transitions    *)
(* retain lifecycle order per command (accepted before started)".          *)
RankOrdered == \A j, k \in DOMAIN events : j < k => ~ Before(events[k], events[j])

Buffer == INSTANCE StatusBuffer WITH
    Statuses <- Events,
    Best <- {e \in Events : e.kind = "COMPLETED"},
    Precedes <- Before,
    Size <- Capacity,
    pending <- {events[k] : k \in DOMAIN events},
    delivered <- {sent[k] : k \in DOMAIN sent},
    lost <- droppedCount

(* The outbox implements StatusBuffer: no status vanishes uncounted, only  *)
(* completions are sacrificed first, and no status reaches the broker      *)
(* while one of its command that belongs before it still waits.            *)
BuffersStatuses == Buffer!Safety
=============================================================================
