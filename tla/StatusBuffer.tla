---------------------------- MODULE StatusBuffer ----------------------------
(***************************************************************************)
(* What the lifecycle outbox promises, whatever array it keeps: a bounded  *)
(* set of statuses waiting for the broker.  Statuses of one command leave  *)
(* in the order of its life; a status is lost only to a full buffer, a     *)
(* completion before anything else, and every other loss is counted.       *)
(***************************************************************************)
EXTENDS Naturals, FiniteSets

CONSTANTS
    Statuses,       \* what may be offered
    Best,           \* the statuses that are best effort: completions
    Precedes(_, _), \* Precedes(s, t): of one command, s belongs before t
    Size            \* how many statuses fit

VARIABLES
    pending,        \* statuses waiting
    delivered,      \* statuses the last step handed to the broker
    lost            \* losses that were counted

buffer == <<pending, delivered, lost>>

Init == pending = {} /\ delivered = {} /\ lost = 0

PassThrough(s) ==
    /\ pending = {}
    /\ delivered' = {s}
    /\ UNCHANGED <<pending, lost>>

Keep(s) ==
    /\ s \in pending \/ Cardinality(pending) < Size
    /\ pending' = pending \cup {s}
    /\ delivered' = {}
    /\ UNCHANGED lost

(* The buffer is full and s is new to it.                                  *)
NoRoom(s) == s \notin pending /\ Cardinality(pending) = Size

TurnAway(s) ==
    /\ NoRoom(s)
    /\ s \in Best
    /\ delivered' = {}
    /\ UNCHANGED <<pending, lost>>

SacrificeBest(s) ==
    /\ NoRoom(s)
    /\ s \notin Best
    /\ \E d \in pending \cap Best : pending' = (pending \ {d}) \cup {s}
    /\ delivered' = {}
    /\ UNCHANGED lost

LoseOne(s) ==
    /\ NoRoom(s)
    /\ s \notin Best
    /\ pending \cap Best = {}
    /\ \E d \in pending : pending' = (pending \ {d}) \cup {s}
    /\ lost' = lost + 1
    /\ delivered' = {}

(* Some statuses reach the broker, none before one that precedes it.       *)
Deliver ==
    /\ delivered' \in SUBSET pending
    /\ \A d \in delivered', p \in pending \ delivered' : ~ Precedes(p, d)
    /\ pending' = pending \ delivered'
    /\ UNCHANGED lost

Next ==
    \/ \E s \in Statuses :
          PassThrough(s) \/ Keep(s) \/ TurnAway(s) \/ SacrificeBest(s) \/ LoseOne(s)
    \/ Deliver

Safety == Init /\ [][Next]_buffer
=============================================================================
