-------------------------- MODULE MCTargetScheduler --------------------------
(***************************************************************************)
(* Constant values for TargetScheduler: one remote with two channels, plus *)
(* a second remote, and frames of one to three clock units.                *)
(***************************************************************************)
EXTENDS TargetScheduler

Frame(bytes, uart, air) == [bytes |-> bytes, uart |-> uart, air |-> air]
Target(key, identity, mask) == [key |-> key, identity |-> identity, mask |-> mask]

TimedRequest(id, target, repeats, stopAfter) ==
    [id |-> id, target |-> target, raw |-> Frame(2, 0, 1), trailer |-> NoFrame,
     stop |-> Frame(1, 0, 1), repeats |-> repeats, stopAfter |-> stopAfter]
PlainRequest(id, target, repeats) ==
    [id |-> id, target |-> target, raw |-> Frame(2, 0, 1), trailer |-> NoFrame,
     stop |-> NoFrame, repeats |-> repeats, stopAfter |-> 0]
WithTrailer(r) == [r EXCEPT !.trailer = Frame(2, 1, 1)]

Left == Target(1, "A", {1})
Right == Target(2, "A", {2})
Both == Target(3, "A", {1, 2})
Other == Target(4, "B", {1})

(* Two timed commands for single channels and one for both, which displaces *)
(* them wherever they have got to and is itself timed.                     *)
CoreRequests ==
    {TimedRequest("a", Left, 2, 5),
     WithTrailer(TimedRequest("b", Right, 1, 3)),
     TimedRequest("c", Both, 1, 2)}

(* One place and more ids than the ring has slots, which are forgotten and *)
(* come back: two timed commands of different remotes, of whose STOPs one  *)
(* fits in the reservation, one that displaces the first and leaves its    *)
(* STOP waiting, and one with a bulky frame, which fits in memory only     *)
(* beside no displaced STOP.                                               *)
LimitRequests ==
    {TimedRequest("a", Left, 1, 1),
     [PlainRequest("b", Both, 1) EXCEPT !.raw = Frame(4, 0, 1)],
     TimedRequest("d", Other, 1, 1),
     PlainRequest("e", Left, 1)}

(* One command, to watch the clock go round.                               *)
IdleRequests == {PlainRequest("d", Other, 1)}

HeavyTimed(id, target, repeats, air) ==
    [TimedRequest(id, target, repeats, 3) EXCEPT !.raw = Frame(2, 0, air), !.stop = Frame(1, 0, air)]

(* Two STOPs that fall due while the last ACTION copy of one is out; the   *)
(* other, of three copies, goes first, and is then displaced to the flush  *)
(* queue by a command with a trailer.  Three ids for a ring of two slots,  *)
(* so that each of them comes again without end.                           *)
LatencyRequests ==
    {TimedRequest("s", Other, 1, 1),
     TimedRequest("f", Left, 3, 4),
     [PlainRequest("g", Both, 1) EXCEPT !.trailer = Frame(2, 0, 1)]}

(* The same with two light STOPs, and two copies of a still heavier one.   *)
Third == Target(5, "C", {1})
ReserveRequests ==
    {TimedRequest("s", Other, 1, 3),
     TimedRequest("t", Third, 1, 2),
     HeavyTimed("f", Left, 2, 3),
     PlainRequest("g", Both, 1)}

(* A controller that only sends commands: no disarm and no update, so that *)
(* a command has to get out by its own train or by displacement.           *)
SendsOnly ==
    \/ \E r \in Requests : Admit(r) \/ Refuse(r)
    \/ Poll
    \/ Elapse

SendsOnlySpec == Init /\ [][SendsOnly]_vars /\ Fairness
=============================================================================
