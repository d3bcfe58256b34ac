---------------------------- MODULE FailSafeStop ----------------------------
(***************************************************************************)
(* What the scheduler promises about fail-safe STOPs, whatever it does     *)
(* with queues, displacement and pacing: the first ACTION copy of a timed  *)
(* command opens a debt of so many STOP copies, and a debt only ever       *)
(* shrinks by a copy handed to the radio, or is waived in the open: by a   *)
(* disarm of that command, or by an update that takes the STOPs over.      *)
(***************************************************************************)
EXTENDS Naturals

CONSTANTS
    Owners,         \* command ids
    MaxCopies       \* most copies one STOP train can have

VARIABLES
    debts,          \* set of [id, copies]: STOP copies still owed to a motor
    waived          \* owners whose debt the last step waived

promise == <<debts, waived>>

Debt == [id : Owners, copies : 1 .. MaxCopies]

Init == debts = {} /\ waived = {}

Open(id, copies) ==
    /\ \A d \in debts : d.id # id
    /\ debts' = debts \cup {[id |-> id, copies |-> copies]}
    /\ waived' = {}

Pay(id) ==
    \E d \in debts :
        /\ d.id = id
        /\ debts' = (debts \ {d})
                        \cup (IF d.copies > 1 THEN {[id |-> id, copies |-> d.copies - 1]} ELSE {})
    /\ waived' = {}

Waive(ids) ==
    /\ debts' = {d \in debts : d.id \notin ids}
    /\ waived' = ids

(* Anything else leaves every debt as it is.                               *)
Quiet == waived' = {} /\ UNCHANGED debts

Next ==
    \/ \E id \in Owners :
          \/ \E copies \in 1 .. MaxCopies : Open(id, copies)
          \/ Pay(id)
    \/ \E ids \in SUBSET Owners : Waive(ids)
    \/ Quiet

Safety == Init /\ [][Next]_promise

(* A debt is paid: its copies keep going out as long as it stands.         *)
Fairness == \A id \in Owners : WF_promise(Pay(id))

Spec == Safety /\ Fairness
=============================================================================
