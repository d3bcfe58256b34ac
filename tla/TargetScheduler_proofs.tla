----------------------- MODULE TargetScheduler_proofs -----------------------
(***************************************************************************)
(* Theorems about TargetScheduler, for every set of requests, every clock  *)
(* width and every limit its assumptions allow.                            *)
(***************************************************************************)
EXTENDS TargetScheduler, Counting_proofs

(* Lemmas about the clock and about erasing from order_.                   *)

LEMMA LaterType ==
    ASSUME NEW x \in Instants, NEW d \in Nat
    PROVE  Later(x, d) \in Instants
<1>1. Wheel \in Nat /\ Wheel > 0  BY WheelAssumption
<1>. QED  BY <1>1 DEF Later, Instants

LEMMA RequestType ==
    ASSUME NEW r \in Requests
    PROVE  /\ r.id \in Ids
           /\ r.target \in Targets
           /\ {r.raw, r.trailer, r.stop} \subseteq Frames
           /\ r.repeats \in 1 .. 20
           /\ r.stopAfter \in Nat
BY RequestAssumption DEF Ids, Targets, Frames

LEMMA FrameType ==
    ASSUME NEW f \in Frames
    PROVE  f \in [bytes : Nat, uart : Nat, air : Nat]
BY RequestAssumption DEF Frames, NoFrame

LEMMA OccupancyType ==
    ASSUME NEW f \in Frames
    PROVE  Occupancy(f) \in Nat /\ PhysicalHold(f) \in Nat
BY FrameType, LimitAssumption DEF Occupancy, PhysicalHold

LEMMA FunctionIsSeq ==
    ASSUME NEW T, NEW n \in Nat, NEW f \in [1 .. n -> T]
    PROVE  f \in Seq(T)
OBVIOUS

LEMMA HeadTailType ==
    ASSUME NEW T, NEW q \in Seq(T), q # << >>
    PROVE  Head(q) \in T /\ Tail(q) \in Seq(T)
OBVIOUS

(* The positions of a sequence are finite in number.                       *)
LEMMA PositionsFinite ==
    ASSUME NEW T, NEW q \in Seq(T), NEW S \in SUBSET (DOMAIN q)
    PROVE  IsFiniteSet(S) /\ Cardinality(S) \in Nat
<1>1. DOMAIN q = 1 .. Len(q) /\ Len(q) \in Nat  OBVIOUS
<1>2. IsFiniteSet(1 .. Len(q))  BY <1>1, FS_Interval
<1>3. IsFiniteSet(S)  BY <1>1, <1>2, FS_Subset
<1>. QED  BY <1>3, FS_CardinalityType

(* So are its values.                                                      *)
LEMMA ValuesFinite ==
    ASSUME NEW T, NEW q \in Seq(T)
    PROVE  IsFiniteSet({q[i] : i \in DOMAIN q})
<1>. DEFINE V == {q[i] : i \in DOMAIN q}
<1>1. q \in Surjection(DOMAIN q, V)
  BY DEF Surjection
<1>2. IsFiniteSet(DOMAIN q)  BY PositionsFinite
<1>. QED  BY <1>1, <1>2, FS_Surjection

(* A listing of some positions of a sequence selects a subsequence.        *)
LEMMA SelectionType ==
    ASSUME NEW T, NEW q \in Seq(T), NEW S \in SUBSET (DOMAIN q),
           NEW s \in Listings(S, LAMBDA i : i)
    PROVE  [k \in DOMAIN s |-> q[s[k]]] \in Seq(T)
<1>1. Cardinality(S) \in Nat  BY PositionsFinite
<1>2. s \in [1 .. Cardinality(S) -> S]  BY DEF Listings
<1>3. \A i \in S : q[i] \in T  OBVIOUS
<1>4. DOMAIN s = 1 .. Cardinality(S)  BY <1>2
<1>5. [k \in 1 .. Cardinality(S) |-> q[s[k]]] \in [1 .. Cardinality(S) -> T]
  BY <1>2, <1>3
<1>. QED  BY <1>1, <1>4, <1>5

(* What survives an erase is listed in its old order.                      *)
LEMMA SurvivorsShape ==
    ASSUME order \in Seq(Targets), NEW D, NEW kept \in Survivors(D)
    PROVE  /\ \E n \in Nat : kept \in [1 .. n -> {i \in DOMAIN order : order[i] \notin D}]
           /\ \A i \in DOMAIN order : order[i] \notin D => \E k \in DOMAIN kept : kept[k] = i
           /\ \A j, k \in DOMAIN kept : j < k => kept[j] < kept[k]
<1>. DEFINE S == {i \in DOMAIN order : order[i] \notin D}
<1>1. IsFiniteSet(S) /\ Cardinality(S) \in Nat
  <2>1. DOMAIN order = 1 .. Len(order) /\ Len(order) \in Nat  OBVIOUS
  <2>2. IsFiniteSet(1 .. Len(order))  BY <2>1, FS_Interval
  <2>. QED  BY <2>1, <2>2, FS_Subset, FS_CardinalityType
<1>2. kept \in [1 .. Cardinality(S) -> S]  BY DEF Survivors, Listings
<1>. QED  BY <1>1, <1>2 DEF Survivors, Listings

LEMMA OrderAfterType ==
    ASSUME order \in Seq(Targets), NEW D, NEW kept \in Survivors(D), NEW from \in Nat
    PROVE  /\ OrderAfter(kept) \in Seq(Targets)
           /\ CursorAfter(kept, from) \in Nat
<1>1. PICK n \in Nat : kept \in [1 .. n -> {i \in DOMAIN order : order[i] \notin D}]
  BY SurvivorsShape
<1>2. OrderAfter(kept) \in [1 .. n -> Targets]
  BY <1>1 DEF OrderAfter
<1>3. kept \in Seq(Int) /\ Len(kept) = n
  BY <1>1
<1>4. CursorAfter(kept, from) \in Nat
  <2>. DEFINE before == {k \in DOMAIN kept : kept[k] - 1 < from}
  <2>1. CASE kept = << >>  BY <2>1 DEF CursorAfter
  <2>2. CASE kept # << >>
    <3>1. n > 0  BY <1>1, <1>3, <2>2
    <3>2. Cardinality(before) \in Nat
      <4>1. IsFiniteSet(1 .. n)  BY FS_Interval
      <4>2. before \subseteq 1 .. n  BY <1>1
      <4>. QED  BY <4>1, <4>2, FS_Subset, FS_CardinalityType
    <3>3. Cardinality(before) % n \in Nat  BY <3>1, <3>2
    <3>. QED  BY <3>3, <1>3, <2>2 DEF CursorAfter
  <2>. QED  BY <2>1, <2>2
<1>. QED  BY <1>2, <1>4

(* The vector after an erase: the remaining targets, each still once, with *)
(* the cursor inside.                                                      *)
LEMMA OrderAfterShape ==
    ASSUME order \in Seq(Targets), NEW D, NEW kept \in Survivors(D), NEW from \in Nat,
           \A i, j \in DOMAIN order : order[i] = order[j] => i = j
    PROVE  LET after == OrderAfter(kept) IN
           /\ {after[k] : k \in DOMAIN after} = {order[i] : i \in DOMAIN order} \ D
           /\ \A j, k \in DOMAIN after : after[j] = after[k] => j = k
           /\ Len(after) \in Nat
           /\ IF after = << >> THEN CursorAfter(kept, from) = 0
              ELSE CursorAfter(kept, from) < Len(after)
<1>. DEFINE after == OrderAfter(kept)
            S == {i \in DOMAIN order : order[i] \notin D}
<1>1. PICK n \in Nat : kept \in [1 .. n -> S]
  BY SurvivorsShape
<1>2. /\ \A i \in S : \E k \in 1 .. n : kept[k] = i
      /\ \A j, k \in 1 .. n : j < k => kept[j] < kept[k]
  <2>1. DOMAIN kept = 1 .. n  BY <1>1
  <2>2. /\ \A i \in S : \E k \in DOMAIN kept : kept[k] = i
        /\ \A j, k \in DOMAIN kept : j < k => kept[j] < kept[k]
    BY SurvivorsShape
  <2>. QED  BY <2>1, <2>2
<1>3. after \in [1 .. n -> Targets] /\ \A k \in 1 .. n : after[k] = order[kept[k]]
  BY <1>1 DEF OrderAfter
<1>4. {after[k] : k \in 1 .. n} = {order[i] : i \in DOMAIN order} \ D
  BY <1>1, <1>2, <1>3
<1>5. \A j, k \in 1 .. n : after[j] = after[k] => j = k
  <2>. SUFFICES ASSUME NEW j \in 1 .. n, NEW k \in 1 .. n, after[j] = after[k], j # k
                PROVE  FALSE
    OBVIOUS
  <2>1. kept[j] = kept[k]  BY <1>1, <1>3
  <2>2. kept[j] \in Int /\ kept[k] \in Int  BY <1>1
  <2>3. j < k \/ k < j  OBVIOUS
  <2>. QED  BY <1>2, <2>1, <2>2, <2>3
<1>6. Len(after) = n /\ Len(kept) = n /\ DOMAIN after = 1 .. n
  BY <1>1, <1>3
<1>7. IF n = 0 THEN CursorAfter(kept, from) = 0 ELSE CursorAfter(kept, from) < n
  <2>. DEFINE before == {k \in DOMAIN kept : kept[k] - 1 < from}
  <2>1. Cardinality(before) \in Nat
    <3>1. IsFiniteSet(1 .. n)  BY FS_Interval
    <3>2. before \subseteq 1 .. n  BY <1>1
    <3>. QED  BY <3>1, <3>2, FS_Subset, FS_CardinalityType
  <2>2. CASE n = 0
    <3>1. kept = << >>  BY <1>1, <2>2
    <3>. QED  BY <3>1, <2>2 DEF CursorAfter
  <2>3. CASE n # 0
    <3>1. kept # << >>  BY <1>6, <2>3
    <3>2. CursorAfter(kept, from) = Cardinality(before) % n
      BY <3>1, <1>6 DEF CursorAfter
    <3>3. Cardinality(before) % n < n  BY <2>1, <2>3
    <3>. QED  BY <3>2, <3>3, <2>3
  <2>. QED  BY <2>2, <2>3
<1>8. after = << >> <=> n = 0
  BY <1>3
<1>. QED  BY <1>4, <1>5, <1>6, <1>7, <1>8
-----------------------------------------------------------------------------
(* Lemmas about one command.                                               *)

(* What the invariant says of a single command.                            *)
CommandOk(c) ==
    /\ c \in Command
    /\ c.delivered <= c.req.repeats
    /\ c.phase = "ACTION" => c.delivered + c.remaining = c.req.repeats

LEMMA NewCommandOk ==
    ASSUME NEW r \in Requests, now \in Instants
    PROVE  CommandOk(NewCommand(r)) /\ ~ OwnsAir(NewCommand(r))
<1>1. 0 \in Instants  BY WheelAssumption DEF Instants
<1>. QED  BY <1>1, RequestType DEF CommandOk, NewCommand, Command, Phases, OwnsAir

(* Arming turns a due command to its whole STOP train and makes no owner.  *)
LEMMA ArmedOk ==
    ASSUME now \in Instants, \A t \in DOMAIN commands : CommandOk(commands[t])
    PROVE  /\ DOMAIN Armed = DOMAIN commands
           /\ \A t \in DOMAIN commands :
                 /\ CommandOk(Armed[t])
                 /\ OwnsAir(Armed[t]) => OwnsAir(commands[t])
<1>1. DOMAIN Armed = DOMAIN commands  BY DEF Armed
<1>2. ASSUME NEW t \in DOMAIN commands
      PROVE  CommandOk(Armed[t]) /\ (OwnsAir(Armed[t]) => OwnsAir(commands[t]))
  <2>. DEFINE c == commands[t]
              stopping == [c EXCEPT !.phase = "STOP", !.remaining = c.req.repeats, !.nextAt = now]
  <2>1. CommandOk(c) /\ c.req.repeats \in 1 .. 20
    BY RequestType DEF CommandOk, Command
  <2>2. CommandOk(stopping) /\ ~ OwnsAir(stopping)
    BY <2>1 DEF CommandOk, Command, Phases, OwnsAir
  <2>3. Armed[t] = c \/ Armed[t] = stopping
    BY DEF Armed
  <2>. QED  BY <2>1, <2>2, <2>3
<1>. QED  BY <1>1, <1>2

(* One more copy handed over: the command as advance_ finds it.            *)
Copied ==
    [req : Requests, phase : Phases, remaining : 0 .. 20, delivered : 0 .. 20,
     started : BOOLEAN, deadlineArmed : BOOLEAN, deadlineAt : Instants, nextAt : Instants]

CountOk(c) ==
    /\ c.delivered <= c.req.repeats
    /\ c.phase = "ACTION" => c.delivered + c.remaining = c.req.repeats

LEMMA WithStartOk ==
    ASSUME NEW c, CommandOk(c), now \in Instants
    PROVE  CommandOk(WithStart(c)) /\ WithStart(c).phase = c.phase
<1>1. c.req \in Requests  BY DEF CommandOk, Command
<1>2. Later(now, c.req.stopAfter) \in Instants
  <2>1. c.req.stopAfter \in Nat  BY <1>1, RequestType
  <2>. QED  BY <2>1, LaterType
<1>. QED  BY <1>2 DEF WithStart, CommandOk, Command

LEMMA WithCopyOk ==
    ASSUME NEW c, CommandOk(c)
    PROVE  WithCopy(c) \in Copied /\ CountOk(WithCopy(c)) /\ WithCopy(c).phase = c.phase
<1>1. /\ c \in Command
      /\ c.delivered <= c.req.repeats
      /\ c.phase = "ACTION" => c.delivered + c.remaining = c.req.repeats
      /\ c.req.repeats \in 1 .. 20
  BY RequestType DEF CommandOk, Command
<1>2. CASE c.phase = "ACTION"
  <2>1. PICK x : x = [c EXCEPT !.remaining = c.remaining - 1]  OBVIOUS
  <2>2. WithCopy(c) = [x EXCEPT !.delivered = c.delivered + 1]
    BY <1>2, <2>1 DEF WithCopy
  <2>3. c.delivered + 1 <= c.req.repeats  BY <1>1, <1>2 DEF Command
  <2>4. /\ x \in Copied /\ x.req = c.req /\ x.phase = c.phase
        /\ x.remaining = c.remaining - 1
    BY <1>1, <2>1 DEF Command, Copied
  <2>5. c.delivered + 1 \in 0 .. 20  BY <1>1, <2>3 DEF Command
  <2>6. WithCopy(c) \in Copied  BY <2>2, <2>4, <2>5 DEF Copied
  <2>7. /\ WithCopy(c).req = c.req /\ WithCopy(c).phase = c.phase
        /\ WithCopy(c).remaining = c.remaining - 1
        /\ WithCopy(c).delivered = c.delivered + 1
    BY <2>2, <2>4 DEF Copied
  <2>. QED  BY <1>1, <1>2, <2>3, <2>6, <2>7 DEF Command, CountOk
<1>3. CASE c.phase # "ACTION"
  <2>1. WithCopy(c) = [c EXCEPT !.remaining = c.remaining - 1]
    BY <1>1, <1>3 DEF WithCopy, Command
  <2>2. WithCopy(c) \in Copied  BY <1>1, <1>3, <2>1 DEF Command, Copied
  <2>. QED  BY <1>1, <1>3, <2>1, <2>2 DEF Command, CountOk
<1>. QED  BY <1>2, <1>3

LEMMA WithAdvanceOk ==
    ASSUME NEW c \in Copied, CountOk(c)
    PROVE  /\ WithAdvance(c) \in Copied
           /\ CountOk(WithAdvance(c))
           /\ WithAdvance(c).phase \in {"ACTION", "TRAILER"} => c.phase \in {"ACTION", "TRAILER"}
<1>1. c.req.repeats \in 1 .. 20  BY RequestType DEF Copied
<1>2. CASE c.remaining > 0  BY <1>2 DEF WithAdvance
<1>3. ASSUME NEW ph \in {"TRAILER", "WAIT_STOP"},
             WithAdvance(c) = [c EXCEPT !.phase = ph, !.remaining = c.req.repeats]
      PROVE  /\ WithAdvance(c) \in Copied /\ CountOk(WithAdvance(c))
             /\ WithAdvance(c).phase = ph
  <2>1. PICK x : x = [c EXCEPT !.phase = ph]  OBVIOUS
  <2>2. WithAdvance(c) = [x EXCEPT !.remaining = c.req.repeats]
    BY <1>3, <2>1
  <2>3. /\ x \in Copied /\ x.req = c.req /\ x.phase = ph
        /\ x.delivered = c.delivered
    BY <2>1 DEF Copied, Phases
  <2>4. WithAdvance(c) \in Copied  BY <2>2, <2>3, <1>1 DEF Copied
  <2>5. /\ WithAdvance(c).req = c.req /\ WithAdvance(c).phase = ph
        /\ WithAdvance(c).delivered = c.delivered
    BY <2>2, <2>3 DEF Copied
  <2>. QED  BY <2>4, <2>5 DEF CountOk
<1>4. CASE c.remaining = 0 /\ HasTrailerNext(c)
  BY <1>4, <1>3 DEF WithAdvance, HasTrailerNext
<1>5. CASE c.remaining = 0 /\ ~ HasTrailerNext(c) /\ HasStopNext(c)
  <2>1. WithAdvance(c) = [c EXCEPT !.phase = "WAIT_STOP", !.remaining = c.req.repeats]
    BY <1>5 DEF WithAdvance
  <2>. QED  BY <2>1, <1>3
<1>6. CASE c.remaining = 0 /\ ~ HasTrailerNext(c) /\ ~ HasStopNext(c)
  BY <1>6 DEF WithAdvance
<1>7. c.remaining > 0 \/ c.remaining = 0  BY DEF Copied
<1>. QED  BY <1>2, <1>4, <1>5, <1>6, <1>7

(* Handing over a copy leaves a well-formed command unless it completes it; *)
(* only a command in ACTION or TRAILER can own the air afterwards.         *)
LEMMA HandedOk ==
    ASSUME NEW c, CommandOk(c), now \in Instants, ~ Completes(c)
    PROVE  /\ CommandOk(Handed(c))
           /\ OwnsAir(Handed(c)) => c.phase \in {"ACTION", "TRAILER"}
<1>1. PICK d : d = WithAdvance(WithCopy(WithStart(c)))
  OBVIOUS
<1>2. /\ d \in Copied /\ CountOk(d)
      /\ d.phase \in {"ACTION", "TRAILER"} => c.phase \in {"ACTION", "TRAILER"}
  BY <1>1, WithStartOk, WithCopyOk, WithAdvanceOk
<1>3. d.remaining # 0
  BY <1>1 DEF Completes, Handed, WithPacing
<1>4. Handed(c) = [d EXCEPT !.nextAt = IF d.phase = "STOP" THEN now ELSE Later(now, RepeatGap)]
  BY <1>1, <1>3 DEF Handed, WithPacing
<1>5. Later(now, RepeatGap) \in Instants
  BY LaterType, LimitAssumption
<1>. QED  BY <1>2, <1>3, <1>4, <1>5 DEF CommandOk, Command, Copied, CountOk, OwnsAir
-----------------------------------------------------------------------------
(* Lemmas about the ring, the floors and the record of a hand-off.         *)

Ring == [Slots -> [id : Ids \cup {NoId}, state : 0 .. 4]]

LEMMA MarkedType ==
    ASSUME NEW ring \in Ring, NEW ids, NEW state \in 0 .. 4
    PROVE  Marked(ring, ids, state) \in Ring
BY DEF Marked, Ring

LEMMA RememberType ==
    ASSUME NEW ring \in Ring, NEW id \in Ids, NEW state \in 0 .. 4, NEW active,
           recentCursor \in Slots, Remember(ring, id, state, active)
    PROVE  recent' \in Ring /\ recentCursor' \in Slots
<1>1. CASE \E s \in Slots : ring[s].id = id
  BY <1>1, MarkedType DEF Remember
<1>2. CASE ~ \E s \in Slots : ring[s].id = id
  <2>1. PICK s \in Slots : /\ recent' = [ring EXCEPT ![s] = [id |-> id, state |-> state]]
                           /\ recentCursor' = (s + 1) % RingSize
    BY <1>2 DEF Remember
  <2>2. recentCursor' \in Slots
    <3>1. RingSize \in Nat /\ RingSize > 0 /\ s \in Nat  BY LimitAssumption DEF Slots
    <3>. QED  BY <2>1, <3>1 DEF Slots
  <2>. QED  BY <2>1, <2>2 DEF Ring
<1>. QED  BY <1>1, <1>2

LEMMA LiveFloorType ==
    ASSUME nextUserAt \in Instants \cup {NoTime}
    PROVE  LiveFloor \in Instants \cup {NoTime}
BY DEF LiveFloor

LEMMA RecordDispatchType ==
    ASSUME NEW f \in Frames, now \in Instants, RecordDispatch(f)
    PROVE  /\ rfBusyUntil' \in Instants
           /\ rfDispatched' \in BOOLEAN
           /\ nextUserAt' \in Instants \cup {NoTime}
           /\ airLeft' \in Nat
           /\ gapLeft' \in Nat
BY LaterType, OccupancyType, LimitAssumption DEF RecordDispatch

-----------------------------------------------------------------------------
(* The inductive invariant.  Typing a counter of copies needs CopiesCounted *)
(* (the delivered count stays below the train's length only because it     *)
(* complements the remaining one); indexing the map by order_ needs        *)
(* OrderMatchesCommands; and that a second timed train cannot start needs  *)
(* both, because next() looks for an owner through order_.                 *)
IInv ==
    /\ TypeOK
    /\ CopiesCounted
    /\ OrderMatchesCommands
    /\ OneAirOwner
    /\ ChannelsExclusive

LEMMA CommandsOk ==
    ASSUME TypeOK, CopiesCounted
    PROVE  \A t \in DOMAIN commands : CommandOk(commands[t])
BY DEF TypeOK, CopiesCounted, CommandOk

LEMMA InitIInv == Init => IInv
<1>. SUFFICES ASSUME Init PROVE IInv  OBVIOUS
<1>1. DOMAIN commands = {}  BY DEF Init
<1>2. TypeOK
  <2>1. 0 \in Instants  BY WheelAssumption DEF Instants
  <2>2. 0 \in Slots  BY LimitAssumption DEF Slots
  <2>. QED  BY <1>1, <2>1, <2>2 DEF Init, TypeOK
<1>3. OrderMatchesCommands  BY <1>1 DEF Init, OrderMatchesCommands
<1>. QED  BY <1>1, <1>2, <1>3 DEF IInv, CopiesCounted, OneAirOwner, ChannelsExclusive

-----------------------------------------------------------------------------
(* One step lemma per action.                                              *)

LEMMA RefuseIInv ==
    ASSUME IInv, NEW r \in Requests, Refuse(r)
    PROVE  IInv'
<1>. USE DEF IInv
<1>1. UNCHANGED <<commands, order, cursor, flushStops, flushLast, nextUserAt,
                  rfDispatched, rfBusyUntil, now, polled, airLeft, gapLeft>>
  BY DEF Refuse, clockVars
<1>2. recent' \in Ring /\ recentCursor' \in Slots
  <2>1. recent \in Ring /\ recentCursor \in Slots  BY DEF TypeOK, Ring
  <2>2. r.id \in Ids  BY RequestType
  <2>. QED  BY <2>1, <2>2, RememberType DEF Refuse
<1>3. TypeOK'  BY <1>1, <1>2 DEF TypeOK, Command, Ring
<1>4. CopiesCounted'  BY <1>1 DEF CopiesCounted
<1>5. OrderMatchesCommands'  BY <1>1 DEF OrderMatchesCommands
<1>6. OneAirOwner' /\ ChannelsExclusive'
  BY <1>1 DEF OneAirOwner, ChannelsExclusive, OwnsAir
<1>. QED  BY <1>3, <1>4, <1>5, <1>6

LEMMA DrainIInv ==
    ASSUME IInv, DrainArmedStops
    PROVE  IInv'
<1>. USE DEF IInv
<1>1. DOMAIN commands' = {} /\ order' = << >> /\ cursor' = 0  BY DEF DrainArmedStops
<1>2. TypeOK'
  <2>1. /\ flushStops' = << >> /\ flushLast' = FALSE /\ nextUserAt' = NoTime /\ gapLeft' = 0
        /\ UNCHANGED <<rfDispatched, rfBusyUntil, recent, recentCursor, now, polled, airLeft>>
    BY DEF DrainArmedStops
  <2>2. /\ rfDispatched' \in BOOLEAN /\ rfBusyUntil' \in Instants
        /\ recent' \in [Slots -> [id : Ids \cup {NoId}, state : 0 .. 4]]
        /\ recentCursor' \in Slots /\ now' \in Instants /\ polled' \in BOOLEAN
        /\ airLeft' \in Nat
    BY <2>1 DEF TypeOK
  <2>3. order' \in Seq(Targets) /\ flushStops' \in Seq([id : Ids, stop : Frames, remaining : 1 .. 20])
    BY <1>1, <2>1
  <2>. QED  BY <1>1, <2>1, <2>2, <2>3 DEF TypeOK
<1>3. OrderMatchesCommands'  BY <1>1 DEF OrderMatchesCommands
<1>. QED  BY <1>1, <1>2, <1>3 DEF CopiesCounted, OneAirOwner, ChannelsExclusive

LEMMA ElapseIInv ==
    ASSUME IInv, Elapse
    PROVE  IInv'
<1>. USE DEF IInv
<1>1. PICK delay \in 1 .. MaxStall :
         /\ polled' = FALSE
         /\ now' = Later(now, delay)
         /\ airLeft' = IF airLeft > delay THEN airLeft - delay ELSE 0
         /\ gapLeft' = IF gapLeft > delay THEN gapLeft - delay ELSE 0
         /\ UNCHANGED schedulerVars
  BY DEF Elapse
<1>2. UNCHANGED <<commands, order, cursor, flushStops, flushLast, nextUserAt,
                  rfDispatched, rfBusyUntil, recent, recentCursor>>
  BY <1>1 DEF schedulerVars
<1>3. now' \in Instants /\ airLeft' \in Nat /\ gapLeft' \in Nat
  BY <1>1, LaterType, LimitAssumption DEF TypeOK
<1>4. TypeOK'  BY <1>1, <1>2, <1>3 DEF TypeOK, Command
<1>5. CopiesCounted' /\ OrderMatchesCommands'
  BY <1>2 DEF CopiesCounted, OrderMatchesCommands
<1>6. OneAirOwner' /\ ChannelsExclusive'
  BY <1>2 DEF OneAirOwner, ChannelsExclusive, OwnsAir
<1>. QED  BY <1>4, <1>5, <1>6

(* The clauses that speak of commands survive when commands only go away.  *)
LEMMA WithoutOk ==
    ASSUME IInv, NEW D, commands' = Without(commands, D),
           NEW kept \in Survivors(D), NEW from \in Nat,
           order' = OrderAfter(kept), cursor' = CursorAfter(kept, from)
    PROVE  /\ DOMAIN commands' \subseteq Targets
           /\ \A t \in DOMAIN commands' : CommandOk(commands'[t])
           /\ order' \in Seq(Targets) /\ cursor' \in Nat
           /\ OrderMatchesCommands' /\ OneAirOwner' /\ ChannelsExclusive'
<1>1. /\ DOMAIN commands' = DOMAIN commands \ D
      /\ \A t \in DOMAIN commands' : commands'[t] = commands[t]
  BY DEF Without
<1>2. \A t \in DOMAIN commands : CommandOk(commands[t])
  BY CommandsOk DEF IInv
<1>3. order \in Seq(Targets) /\ DOMAIN commands \subseteq Targets
  BY DEF IInv, TypeOK
<1>4. OrderMatchesCommands'
  <2>1. \A i, j \in DOMAIN order : order[i] = order[j] => i = j
    BY DEF IInv, OrderMatchesCommands
  <2>2. {order[i] : i \in DOMAIN order} = DOMAIN commands
    BY DEF IInv, OrderMatchesCommands
  <2>3. /\ {order'[k] : k \in DOMAIN order'} = {order[i] : i \in DOMAIN order} \ D
        /\ \A j, k \in DOMAIN order' : order'[j] = order'[k] => j = k
        /\ IF order' = << >> THEN cursor' = 0 ELSE cursor' < Len(order')
    BY <1>3, <2>1, OrderAfterShape
  <2>. QED  BY <1>1, <2>2, <2>3 DEF OrderMatchesCommands
<1>5. OneAirOwner' /\ ChannelsExclusive'
  BY <1>1 DEF IInv, OneAirOwner, ChannelsExclusive, OwnsAir
<1>6. order' \in Seq(Targets) /\ cursor' \in Nat
  BY <1>3, OrderAfterType
<1>. QED  BY <1>1, <1>2, <1>3, <1>4, <1>5, <1>6

LEMMA DisarmIInv ==
    ASSUME IInv, NEW id \in Ids, Disarm(id)
    PROVE  IInv'
<1>. DEFINE D == {t \in DOMAIN commands : commands[t].req.id = id}
            spared == {i \in DOMAIN flushStops : flushStops[i].id # id}
<1>1. PICK kept \in Survivors(D) :
         order' = OrderAfter(kept) /\ cursor' = CursorAfter(kept, cursor)
  BY DEF Disarm
<1>2. /\ commands' = Without(commands, D)
      /\ UNCHANGED <<flushLast, nextUserAt, rfDispatched, rfBusyUntil,
                     now, polled, airLeft, gapLeft>>
  BY DEF Disarm, clockVars
<1>3. /\ DOMAIN commands' \subseteq Targets
      /\ \A t \in DOMAIN commands' : CommandOk(commands'[t])
      /\ order' \in Seq(Targets) /\ cursor' \in Nat
      /\ OrderMatchesCommands' /\ OneAirOwner' /\ ChannelsExclusive'
  BY <1>1, <1>2, WithoutOk DEF IInv, TypeOK
<1>4. flushStops' \in Seq([id : Ids, stop : Frames, remaining : 1 .. 20])
  <2>1. PICK s \in Listings(spared, LAMBDA i : i) :
           flushStops' = [k \in DOMAIN s |-> flushStops[s[k]]]
    BY DEF Disarm
  <2>2. flushStops \in Seq([id : Ids, stop : Frames, remaining : 1 .. 20])
    BY DEF IInv, TypeOK
  <2>3. spared \in SUBSET (DOMAIN flushStops)  OBVIOUS
  <2>. QED  BY <2>1, <2>2, <2>3, SelectionType
<1>5. recent' \in Ring /\ recentCursor' \in Slots
  <2>1. recent \in Ring /\ recentCursor \in Slots  BY DEF IInv, TypeOK, Ring
  <2>2. Remember(recent, id, 4, ActiveIds(commands', flushStops'))  BY DEF Disarm
  <2>. QED  BY <2>1, <2>2, RememberType
<1>6. TypeOK'  BY <1>2, <1>3, <1>4, <1>5 DEF IInv, TypeOK, Ring, CommandOk, Command
<1>7. CopiesCounted'  BY <1>3 DEF CopiesCounted, CommandOk
<1>. QED  BY <1>3, <1>6, <1>7 DEF IInv

LEMMA AdmitIInv ==
    ASSUME IInv, NEW r \in Requests, Admit(r)
    PROVE  IInv'
<1>. DEFINE D == Overlapped(r.target)
            cmds == Without(commands, D)
            c == NewCommand(r)
            Entry3 == [id : Ids, stop : Frames, remaining : 1 .. 20]
<1>1. PICK debtors \in InMapOrder(Owing(D)), kept \in Survivors(D) :
         /\ flushStops' = flushStops \o [k \in DOMAIN debtors |-> FlushStop(commands[debtors[k]])]
         /\ commands' = With(cmds, r.target, c)
         /\ order' = Append(OrderAfter(kept), r.target)
         /\ cursor' = CursorAfter(kept, cursor)
         /\ Remember(Marked(recent, {commands[t].req.id : t \in D}, 4), r.id, 1,
                     ActiveIds(commands', flushStops'))
  BY DEF Admit
<1>2. UNCHANGED <<flushLast, nextUserAt, rfDispatched, rfBusyUntil, now, polled, airLeft, gapLeft>>
  BY DEF Admit, clockVars
<1>3. r.target \in Targets /\ r.id \in Ids  BY RequestType
<1>4. CommandOk(c) /\ ~ OwnsAir(c)  BY NewCommandOk DEF IInv, TypeOK
<1>5. \A t \in DOMAIN commands : CommandOk(commands[t])  BY CommandsOk DEF IInv
<1>6. /\ DOMAIN commands \subseteq Targets /\ order \in Seq(Targets) /\ cursor \in Nat
      /\ flushStops \in Seq(Entry3)
  BY DEF IInv, TypeOK
<1>7. /\ D \subseteq DOMAIN commands
      /\ DOMAIN commands' = (DOMAIN commands \ D) \cup {r.target}
      /\ commands'[r.target] = c
      /\ \A t \in DOMAIN commands' : t # r.target => t \in DOMAIN commands \ D /\ commands'[t] = commands[t]
  BY <1>1 DEF Overlapped, Without, With
<1>8. /\ DOMAIN commands' \subseteq Targets
      /\ \A t \in DOMAIN commands' : CommandOk(commands'[t])
  BY <1>3, <1>4, <1>5, <1>6, <1>7
<1>9. order' \in Seq(Targets) /\ cursor' \in Nat
  BY <1>1, <1>3, <1>6, OrderAfterType
<1>10. flushStops' \in Seq(Entry3)
  <2>1. \A t \in Owing(D) : FlushStop(commands[t]) \in Entry3
    <3>. SUFFICES ASSUME NEW t \in Owing(D) PROVE FlushStop(commands[t]) \in Entry3  OBVIOUS
    <3>1. commands[t] \in Command  BY <1>5, <1>7 DEF Owing, CommandOk
    <3>2. /\ commands[t].req.id \in Ids /\ commands[t].req.stop \in Frames
          /\ commands[t].req.repeats \in 1 .. 20 /\ commands[t].remaining \in 1 .. 20
      BY <3>1, RequestType DEF Command
    <3>. QED  BY <3>2 DEF FlushStop, CopiesOwed
  <2>2. IsFiniteSet(Owing(D))
    <3>1. IsFiniteSet(DOMAIN commands)
      <4>1. {order[i] : i \in DOMAIN order} = DOMAIN commands  BY DEF IInv, OrderMatchesCommands
      <4>. QED  BY <4>1, <1>6, ValuesFinite
    <3>. QED  BY <3>1, <1>7, FS_Subset DEF Owing
  <2>3. Cardinality(Owing(D)) \in Nat  BY <2>2, FS_CardinalityType
  <2>4. debtors \in [1 .. Cardinality(Owing(D)) -> Owing(D)]
    BY DEF InMapOrder, Listings
  <2>5. DOMAIN debtors = 1 .. Cardinality(Owing(D))  BY <2>4
  <2>6. PICK moved : moved = [k \in DOMAIN debtors |-> FlushStop(commands[debtors[k]])]
    OBVIOUS
  <2>7. moved \in [1 .. Cardinality(Owing(D)) -> Entry3]
    BY <2>1, <2>4, <2>5, <2>6
  <2>8. moved \in Seq(Entry3)  BY <2>3, <2>7, FunctionIsSeq
  <2>. QED  BY <1>1, <1>6, <2>6, <2>8
<1>11. recent' \in Ring /\ recentCursor' \in Slots
  <2>1. recent \in Ring /\ recentCursor \in Slots  BY DEF IInv, TypeOK, Ring
  <2>2. Marked(recent, {commands[t].req.id : t \in D}, 4) \in Ring
    BY <2>1, MarkedType
  <2>. QED  BY <1>1, <1>3, <2>1, <2>2, RememberType
<1>12. OrderMatchesCommands'
  <2>. DEFINE after == OrderAfter(kept)
  <2>1. /\ {after[k] : k \in DOMAIN after} = DOMAIN commands \ D
        /\ \A j, k \in DOMAIN after : after[j] = after[k] => j = k
        /\ IF after = << >> THEN cursor' = 0 ELSE cursor' < Len(after)
    BY <1>1, <1>6, OrderAfterShape DEF IInv, OrderMatchesCommands
  <2>2. after \in Seq(Targets)  BY <1>6, OrderAfterType
  <2>3. r.target \notin DOMAIN commands \ D
    <3>1. r.target.mask # {}  BY RequestAssumption
    <3>. QED  BY <3>1 DEF Overlapped
  <2>4. /\ Len(order') = Len(after) + 1 /\ Len(after) \in Nat
        /\ DOMAIN order' = 1 .. Len(after) + 1 /\ DOMAIN after = 1 .. Len(after)
        /\ order'[Len(after) + 1] = r.target
        /\ \A k \in DOMAIN after : order'[k] = after[k]
    BY <1>1, <1>3, <2>2
  <2>5. {order'[i] : i \in DOMAIN order'} = DOMAIN commands'
    BY <1>7, <2>1, <2>4
  <2>6. \A i, j \in DOMAIN order' : order'[i] = order'[j] => i = j
    BY <2>1, <2>3, <2>4
  <2>7. order' # << >> /\ cursor' < Len(order')
    BY <2>1, <2>4, <1>9
  <2>. QED  BY <2>5, <2>6, <2>7 DEF OrderMatchesCommands
<1>13. OneAirOwner'
  BY <1>4, <1>7 DEF IInv, OneAirOwner, OwnsAir
<1>14. ChannelsExclusive'
  BY <1>7 DEF IInv, ChannelsExclusive, Overlapped
<1>15. TypeOK'
  BY <1>2, <1>8, <1>9, <1>10, <1>11 DEF IInv, TypeOK, Ring, CommandOk, Command
<1>16. CopiesCounted'  BY <1>8 DEF CopiesCounted, CommandOk
<1>. QED  BY <1>12, <1>13, <1>14, <1>15, <1>16 DEF IInv

(* A copy handed over from the entry at position i.                        *)
LEMMA DispatchIInv ==
    ASSUME IInv, NEW i \in Entries, Dispatch(i),
           UNCHANGED now, polled' \in BOOLEAN,
           \/ Armed[order[i + 1]].phase = "STOP"
           \/ \A t \in DOMAIN commands : OwnsAir(Armed[t]) => t = order[i + 1]
    PROVE  IInv'
<1>. DEFINE target == order[i + 1]
            c == Armed[target]
            following == (i + 1) % Len(order)
<1>1. /\ DOMAIN commands \subseteq Targets /\ order \in Seq(Targets)
      /\ now \in Instants /\ recent \in Ring /\ recentCursor \in Slots
      /\ flushStops \in Seq([id : Ids, stop : Frames, remaining : 1 .. 20])
  BY DEF IInv, TypeOK, Ring
<1>2. /\ DOMAIN Armed = DOMAIN commands
      /\ \A t \in DOMAIN commands : CommandOk(Armed[t]) /\ (OwnsAir(Armed[t]) => OwnsAir(commands[t]))
  BY <1>1, CommandsOk, ArmedOk DEF IInv
<1>3. /\ {order[k] : k \in DOMAIN order} = DOMAIN commands
      /\ \A j, k \in DOMAIN order : order[j] = order[k] => j = k
  BY DEF IInv, OrderMatchesCommands
<1>4. /\ Len(order) \in Nat /\ Len(order) > 0 /\ i \in Nat
      /\ i + 1 \in DOMAIN order /\ target \in DOMAIN commands
  BY <1>1, <1>3 DEF Entries
<1>5. following \in Nat /\ following < Len(order)
  BY <1>4
<1>6. CommandOk(c)  BY <1>2, <1>4
<1>7. /\ recent' \in Ring /\ recentCursor' \in Slots
      /\ flushStops' \in Seq([id : Ids, stop : Frames, remaining : 1 .. 20])
      /\ flushLast' \in BOOLEAN
  <2>1. /\ recent' = recent \/ recent' = Marked(recent, {c.req.id}, 2)
        /\ flushLast' = FALSE /\ UNCHANGED <<flushStops, recentCursor>>
    BY DEF Dispatch
  <2>2. Marked(recent, {c.req.id}, 2) \in Ring  BY <1>1, MarkedType
  <2>. QED  BY <1>1, <2>1, <2>2
<1>8. /\ rfBusyUntil' \in Instants /\ rfDispatched' \in BOOLEAN
      /\ nextUserAt' \in Instants \cup {NoTime}
      /\ airLeft' \in Nat /\ gapLeft' \in Nat
  <2>1. PhaseFrame(c) \in Frames
    <3>1. c.req \in Requests  BY <1>6 DEF CommandOk, Command
    <3>. QED  BY <3>1, RequestType DEF PhaseFrame
  <2>2. RecordDispatch(PhaseFrame(c))  BY DEF Dispatch
  <2>. QED  BY <1>1, <2>1, <2>2, RecordDispatchType
<1>9. /\ DOMAIN commands' \subseteq Targets
      /\ \A t \in DOMAIN commands' : CommandOk(commands'[t])
      /\ order' \in Seq(Targets) /\ cursor' \in Nat
      /\ OrderMatchesCommands' /\ OneAirOwner' /\ ChannelsExclusive'
  <2>1. CASE Completes(c)
    <3>1. PICK kept \in Survivors({target}) :
             order' = OrderAfter(kept) /\ cursor' = CursorAfter(kept, following)
      BY <2>1 DEF Dispatch
    <3>2. commands' = Without(Armed, {target})  BY <2>1 DEF Dispatch
    <3>3. /\ DOMAIN commands' = DOMAIN commands \ {target}
          /\ \A t \in DOMAIN commands' : commands'[t] = Armed[t]
      BY <1>2, <3>2 DEF Without
    <3>4. /\ {order'[k] : k \in DOMAIN order'} = {order[k] : k \in DOMAIN order} \ {target}
          /\ \A j, k \in DOMAIN order' : order'[j] = order'[k] => j = k
          /\ IF order' = << >> THEN cursor' = 0 ELSE cursor' < Len(order')
      <4>1. /\ {OrderAfter(kept)[k] : k \in DOMAIN OrderAfter(kept)}
                  = {order[k] : k \in DOMAIN order} \ {target}
            /\ \A j, k \in DOMAIN OrderAfter(kept) :
                  OrderAfter(kept)[j] = OrderAfter(kept)[k] => j = k
            /\ IF OrderAfter(kept) = << >> THEN CursorAfter(kept, following) = 0
               ELSE CursorAfter(kept, following) < Len(OrderAfter(kept))
        BY <1>1, <1>3, <1>5, OrderAfterShape
      <4>. QED  BY <3>1, <4>1
    <3>5. order' \in Seq(Targets) /\ cursor' \in Nat
      BY <1>1, <1>5, <3>1, OrderAfterType
    <3>6. OrderMatchesCommands'  BY <1>3, <3>3, <3>4 DEF OrderMatchesCommands
    <3>7. OneAirOwner'
      BY <1>2, <3>3 DEF IInv, OneAirOwner, OwnsAir
    <3>8. ChannelsExclusive'  BY <3>3 DEF IInv, ChannelsExclusive
    <3>. QED  BY <1>1, <1>2, <3>3, <3>5, <3>6, <3>7, <3>8
  <2>2. CASE ~ Completes(c)
    <3>1. /\ commands' = [Armed EXCEPT ![target] = Handed(c)]
          /\ cursor' = following /\ UNCHANGED order
      BY <2>2 DEF Dispatch
    <3>2. CommandOk(Handed(c)) /\ (OwnsAir(Handed(c)) => c.phase \in {"ACTION", "TRAILER"})
      BY <1>1, <1>6, <2>2, HandedOk
    <3>3. /\ DOMAIN commands' = DOMAIN commands
          /\ commands'[target] = Handed(c)
          /\ \A t \in DOMAIN commands : t # target => commands'[t] = Armed[t]
      BY <1>2, <1>4, <3>1
    <3>4. OrderMatchesCommands'
      BY <1>3, <1>4, <1>5, <3>1, <3>3 DEF OrderMatchesCommands
    <3>5. OneAirOwner'
      <4>1. CASE c.phase = "STOP"
        <5>1. ~ OwnsAir(commands'[target])  BY <3>2, <3>3, <4>1
        <5>. QED  BY <1>2, <3>3, <5>1 DEF IInv, OneAirOwner, OwnsAir
      <4>2. CASE \A t \in DOMAIN commands : OwnsAir(Armed[t]) => t = target
        BY <3>3, <4>2 DEF OneAirOwner, OwnsAir
      <4>. QED  BY <4>1, <4>2
    <3>6. ChannelsExclusive'  BY <3>3 DEF IInv, ChannelsExclusive
    <3>. QED  BY <1>1, <1>2, <1>5, <3>1, <3>2, <3>3, <3>4, <3>5, <3>6
  <2>. QED  BY <2>1, <2>2
<1>10. TypeOK'
  BY <1>1, <1>7, <1>8, <1>9 DEF TypeOK, Ring, CommandOk, Command
<1>11. CopiesCounted'  BY <1>9 DEF CopiesCounted, CommandOk
<1>. QED  BY <1>9, <1>10, <1>11 DEF IInv

(* A call that hands nothing over from the order only arms deadlines.      *)
LEMMA ArmedClauses ==
    ASSUME IInv, commands' = Armed, UNCHANGED <<order, cursor>>
    PROVE  /\ DOMAIN commands' \subseteq Targets
           /\ \A t \in DOMAIN commands' : CommandOk(commands'[t])
           /\ order' \in Seq(Targets) /\ cursor' \in Nat
           /\ OrderMatchesCommands' /\ OneAirOwner' /\ ChannelsExclusive'
<1>1. /\ DOMAIN commands' = DOMAIN commands
      /\ \A t \in DOMAIN commands :
            CommandOk(commands'[t]) /\ (OwnsAir(commands'[t]) => OwnsAir(commands[t]))
  BY CommandsOk, ArmedOk DEF IInv, TypeOK
<1>2. OrderMatchesCommands'  BY <1>1 DEF IInv, OrderMatchesCommands
<1>3. OneAirOwner'  BY <1>1 DEF IInv, OneAirOwner, OwnsAir
<1>4. ChannelsExclusive'  BY <1>1 DEF IInv, ChannelsExclusive
<1>. QED  BY <1>1, <1>2, <1>3, <1>4 DEF IInv, TypeOK

LEMMA PollQuietIInv ==
    ASSUME IInv, PollIdle \/ PollAirBusy \/ PollNothingDue, UNCHANGED now, polled' \in BOOLEAN
    PROVE  IInv'
<1>1. /\ UNCHANGED <<order, cursor, flushStops, rfDispatched, rfBusyUntil,
                     recent, recentCursor, airLeft, gapLeft>>
      /\ nextUserAt' = LiveFloor
      /\ flushLast' \in BOOLEAN
  BY DEF PollIdle, PollAirBusy, PollNothingDue, IInv, TypeOK
<1>2. /\ DOMAIN commands' \subseteq Targets
      /\ \A t \in DOMAIN commands' : CommandOk(commands'[t])
      /\ order' \in Seq(Targets) /\ cursor' \in Nat
      /\ OrderMatchesCommands' /\ OneAirOwner' /\ ChannelsExclusive'
  <2>1. CASE PollIdle
    <3>1. UNCHANGED commands  BY <2>1 DEF PollIdle
    <3>. QED  BY <1>1, <3>1, CommandsOk
         DEF IInv, TypeOK, OrderMatchesCommands, OneAirOwner, ChannelsExclusive, OwnsAir
  <2>2. CASE PollAirBusy \/ PollNothingDue
    <3>1. commands' = Armed  BY <2>2 DEF PollAirBusy, PollNothingDue
    <3>. QED  BY <1>1, <3>1, ArmedClauses
  <2>. QED  BY <2>1, <2>2
<1>3. nextUserAt' \in Instants \cup {NoTime}  BY <1>1, LiveFloorType DEF IInv, TypeOK
<1>4. TypeOK'  BY <1>1, <1>2, <1>3 DEF IInv, TypeOK, CommandOk, Command
<1>5. CopiesCounted'  BY <1>2 DEF CopiesCounted, CommandOk
<1>. QED  BY <1>2, <1>4, <1>5 DEF IInv

LEMMA SendFlushStopIInv ==
    ASSUME IInv, SendFlushStop, UNCHANGED now, polled' \in BOOLEAN
    PROVE  IInv'
<1>. DEFINE QueuedStop == [id : Ids, stop : Frames, remaining : 1 .. 20]
            entry == Head(flushStops)
            rest == Tail(flushStops)
<1>1. /\ commands' = Armed /\ flushLast' = TRUE
      /\ UNCHANGED <<order, cursor, recent, recentCursor>>
      /\ RecordDispatch(entry.stop)
      /\ flushStops' = IF entry.remaining > 1
                       THEN Append(rest, [entry EXCEPT !.remaining = entry.remaining - 1]) ELSE rest
      /\ flushStops # << >>
  BY DEF SendFlushStop, FlushTurn
<1>2. entry \in QueuedStop /\ rest \in Seq(QueuedStop)
  <2>1. flushStops \in Seq(QueuedStop)  BY DEF IInv, TypeOK
  <2>. QED  BY <1>1, <2>1, HeadTailType
<1>3. flushStops' \in Seq(QueuedStop)
  <2>1. CASE entry.remaining > 1
    <3>1. [entry EXCEPT !.remaining = entry.remaining - 1] \in QueuedStop  BY <1>2, <2>1
    <3>. QED  BY <1>1, <1>2, <2>1, <3>1
  <2>2. CASE ~ entry.remaining > 1  BY <1>1, <1>2, <2>2
  <2>. QED  BY <2>1, <2>2
<1>4. /\ rfBusyUntil' \in Instants /\ rfDispatched' \in BOOLEAN
      /\ nextUserAt' \in Instants \cup {NoTime}
      /\ airLeft' \in Nat /\ gapLeft' \in Nat
  <2>1. entry.stop \in Frames /\ now \in Instants  BY <1>2 DEF IInv, TypeOK
  <2>. QED  BY <1>1, <2>1, RecordDispatchType
<1>5. /\ DOMAIN commands' \subseteq Targets
      /\ \A t \in DOMAIN commands' : CommandOk(commands'[t])
      /\ order' \in Seq(Targets) /\ cursor' \in Nat
      /\ OrderMatchesCommands' /\ OneAirOwner' /\ ChannelsExclusive'
  BY <1>1, ArmedClauses
<1>6. TypeOK'  BY <1>1, <1>3, <1>4, <1>5 DEF IInv, TypeOK, CommandOk, Command
<1>7. CopiesCounted'  BY <1>5 DEF CopiesCounted, CommandOk
<1>. QED  BY <1>5, <1>6, <1>7 DEF IInv

LEMMA SendScheduledStopIInv ==
    ASSUME IInv, SendScheduledStop, UNCHANGED now, polled' \in BOOLEAN
    PROVE  IInv'
<1>1. PICK i \in FirstFromCursor(StopReady(Armed)) : Dispatch(i)
  BY DEF SendScheduledStop
<1>2. i \in Entries /\ Armed[order[i + 1]].phase = "STOP"
  BY <1>1 DEF FirstFromCursor, StopReady, Entry
<1>. QED  BY <1>1, <1>2, DispatchIInv

(* An ACTION or TRAILER copy goes to the owner of the air, or, when there  *)
(* is none, to a command that may become it.                               *)
LEMMA SendActionIInv ==
    ASSUME IInv, SendAction, UNCHANGED now, polled' \in BOOLEAN
    PROVE  IInv'
<1>1. PICK i \in ActionCandidates(Armed) : Dispatch(i)
  BY DEF SendAction
<1>2. i \in Entries
  BY <1>1 DEF ActionCandidates, FirstFromCursor, ActionReady
<1>3. /\ DOMAIN Armed = DOMAIN commands
      /\ \A t \in DOMAIN commands : OwnsAir(Armed[t]) => OwnsAir(commands[t])
  BY CommandsOk, ArmedOk DEF IInv, TypeOK
<1>4. order \in Seq(Targets) /\ {order[k] : k \in DOMAIN order} = DOMAIN commands
  BY DEF IInv, TypeOK, OrderMatchesCommands
<1>5. ASSUME NEW t \in DOMAIN commands, OwnsAir(Armed[t])
      PROVE  t = order[i + 1]
  <2>1. PICK k \in DOMAIN order : t = order[k]  BY <1>4
  <2>2. k - 1 \in AirOwners(Armed)
    <3>1. k - 1 \in Entries /\ (k - 1) + 1 = k  BY <1>4 DEF Entries
    <3>. QED  BY <1>5, <2>1, <3>1 DEF AirOwners, Entry
  <2>3. i \in AirOwners(Armed)
    BY <1>1, <2>2 DEF ActionCandidates, FirstFromCursor
  <2>4. OwnsAir(Armed[order[i + 1]]) /\ order[i + 1] \in DOMAIN commands
    BY <1>2, <1>4, <2>3 DEF AirOwners, Entry, Entries
  <2>. QED  BY <1>3, <1>5, <2>4 DEF IInv, OneAirOwner
<1>. QED  BY <1>1, <1>2, <1>5, DispatchIInv

LEMMA StutterIInv ==
    ASSUME IInv, UNCHANGED vars
    PROVE  IInv'
<1>1. UNCHANGED <<commands, order, cursor, flushStops, flushLast, nextUserAt, rfDispatched,
                  rfBusyUntil, recent, recentCursor, now, polled, airLeft, gapLeft>>
  BY DEF vars
<1>2. TypeOK'  BY <1>1 DEF IInv, TypeOK, Command
<1>. QED  BY <1>1, <1>2
     DEF IInv, CopiesCounted, OrderMatchesCommands, OneAirOwner, ChannelsExclusive, OwnsAir

LEMMA NextIInv == IInv /\ [Next]_vars => IInv'
<1>. SUFFICES ASSUME IInv, [Next]_vars PROVE IInv'  OBVIOUS
<1>1. CASE \E r \in Requests : Admit(r) \/ Refuse(r)
  BY <1>1, AdmitIInv, RefuseIInv
<1>2. CASE \E id \in Ids : Disarm(id)  BY <1>2, DisarmIInv
<1>3. CASE DrainArmedStops  BY <1>3, DrainIInv
<1>4. CASE Poll
  <2>1. UNCHANGED now /\ polled' \in BOOLEAN /\ NextCall  BY <1>4 DEF Poll
  <2>. QED  BY <2>1, PollQuietIInv, SendFlushStopIInv, SendScheduledStopIInv, SendActionIInv
       DEF NextCall
<1>5. CASE Elapse  BY <1>5, ElapseIInv
<1>6. CASE UNCHANGED vars  BY <1>6, StutterIInv
<1>. QED  BY <1>1, <1>2, <1>3, <1>4, <1>5, <1>6 DEF Next

(* The inductive invariant holds in every reachable state.                 *)
THEOREM Inductive == Spec => []IInv
BY InitIInv, NextIInv, PTL DEF Spec

(* Every value the scheduler keeps has its type: no command and no queued  *)
(* STOP is ever kept with nothing left to send (next, erase_).             *)
THEOREM TypeCorrect == Spec => []TypeOK
<1>1. IInv => TypeOK  BY DEF IInv
<1>. QED  BY Inductive, <1>1, PTL

(* A completed status never reports more ACTION copies than the train had, *)
(* and while the train runs the two counters add up (next, advance_).      *)
THEOREM CopiesAlwaysCounted == Spec => []CopiesCounted
<1>1. IInv => CopiesCounted  BY DEF IInv
<1>. QED  BY Inductive, <1>1, PTL

(* The map and the vector of targets always describe the same commands and *)
(* the cursor is inside the vector: next() indexes them without a check    *)
(* (schedule, erase_, next).                                               *)
THEOREM OrderAlwaysMatches == Spec => []OrderMatchesCommands
<1>1. IInv => OrderMatchesCommands  BY DEF IInv
<1>. QED  BY Inductive, <1>1, PTL

(* At most one started timed train is ever on the air (next).              *)
THEOREM AirHasOneOwner == Spec => []OneAirOwner
<1>1. IInv => OneAirOwner  BY DEF IInv
<1>. QED  BY Inductive, <1>1, PTL

(* No channel of a remote ever has two live commands                       *)
(* (displace_overlapping_).                                                *)
THEOREM ChannelsAlwaysExclusive == Spec => []ChannelsExclusive
<1>1. IInv => ChannelsExclusive  BY DEF IInv
<1>. QED  BY Inductive, <1>1, PTL
-----------------------------------------------------------------------------
(* The scheduler never owes more STOP trains than it has places.  The      *)
(* argument is not local: displacing moves a debt from the map to the      *)
(* flush queue and frees a place a new command takes, so the sum could     *)
(* grow by one with every displaced command, if a command could start      *)
(* while the queue holds anything.  It cannot, because a call that gets    *)
(* past the flush queue has found a STOP of the order due.                 *)

LiveBounded == Cardinality(DOMAIN commands) <= MaxTargets

BInv == IInv /\ LiveBounded /\ ObligationsBounded

(* The counts of the bound are counts of finite sets.                      *)
LEMMA CountsFinite ==
    ASSUME IInv, NEW D \in SUBSET (DOMAIN commands)
    PROVE  /\ IsFiniteSet(D) /\ Cardinality(D) \in Nat
           /\ Cardinality(D) <= Cardinality(DOMAIN commands)
           /\ Cardinality(DOMAIN commands) \in Nat
           /\ Len(flushStops) \in Nat
<1>1. order \in Seq(Targets) /\ {order[i] : i \in DOMAIN order} = DOMAIN commands
  BY DEF IInv, TypeOK, OrderMatchesCommands
<1>2. IsFiniteSet(DOMAIN commands)  BY <1>1, ValuesFinite
<1>3. IsFiniteSet(D) /\ Cardinality(D) <= Cardinality(DOMAIN commands)
  BY <1>2, FS_Subset
<1>4. Len(flushStops) \in Nat
  <2>1. flushStops \in Seq([id : Ids, stop : Frames, remaining : 1 .. 20])
    BY DEF IInv, TypeOK
  <2>. QED  BY <2>1
<1>. QED  BY <1>2, <1>3, <1>4, FS_CardinalityType

(* Arming neither opens nor settles an obligation.                         *)
LEMMA ArmedOwes ==
    ASSUME IInv, NEW t \in DOMAIN commands
    PROVE  OwesStop(Armed[t]) => OwesStop(commands[t])
<1>1. commands[t] \in Command  BY DEF IInv, TypeOK
<1>. QED  BY <1>1 DEF Armed, OwesStop, Timed, Command

(* A step that adds no live command, no debtor and no queue entry.         *)
LEMMA ShrinkingStep ==
    ASSUME BInv, IInv',
           DOMAIN commands' \subseteq DOMAIN commands,
           \A t \in DOMAIN commands' : OwesStop(commands'[t]) => OwesStop(commands[t]),
           Len(flushStops') <= Len(flushStops)
    PROVE  BInv'
<1>. DEFINE before == Owing(DOMAIN commands)
            after == {t \in DOMAIN commands' : OwesStop(commands'[t])}
<1>1. /\ IsFiniteSet(before) /\ Cardinality(before) \in Nat
      /\ IsFiniteSet(DOMAIN commands) /\ Cardinality(DOMAIN commands) \in Nat
      /\ Len(flushStops) \in Nat
  BY CountsFinite DEF BInv, Owing
<1>2. after \subseteq before  BY DEF Owing
<1>3. Cardinality(after) <= Cardinality(before) /\ Cardinality(after) \in Nat
  BY <1>1, <1>2, FS_Subset, FS_CardinalityType
<1>4. /\ Cardinality(DOMAIN commands') <= Cardinality(DOMAIN commands)
      /\ Cardinality(DOMAIN commands') \in Nat
  BY <1>1, FS_Subset, FS_CardinalityType
<1>5. Len(flushStops') \in Nat
  <2>1. flushStops' \in Seq([id : Ids, stop : Frames, remaining : 1 .. 20])
    BY DEF IInv, TypeOK
  <2>. QED  BY <2>1
<1>6. MaxTargets \in Nat  BY LimitAssumption
<1>7. Len(flushStops') + Cardinality(after) <= MaxTargets
  BY <1>1, <1>3, <1>5, <1>6 DEF BInv, ObligationsBounded
<1>8. after = Owing(DOMAIN commands)'  BY DEF Owing, OwesStop, Timed
<1>9. ObligationsBounded'
  <2>1. Cardinality(after) = Cardinality(Owing(DOMAIN commands))'  BY <1>8
  <2>. QED  BY <1>7, <2>1 DEF ObligationsBounded
<1>10. LiveBounded'  BY <1>1, <1>4, <1>6 DEF BInv, LiveBounded
<1>. QED  BY <1>9, <1>10 DEF BInv

(* The length of a listing of positions is the size of the set listed.     *)
LEMMA SelectionLength ==
    ASSUME NEW T, NEW q \in Seq(T), NEW S \in SUBSET (DOMAIN q),
           NEW s \in Listings(S, LAMBDA i : i)
    PROVE  Len([k \in DOMAIN s |-> q[s[k]]]) <= Len(q)
<1>1. Cardinality(S) \in Nat  BY PositionsFinite
<1>2. s \in [1 .. Cardinality(S) -> S]  BY DEF Listings
<1>3. DOMAIN q = 1 .. Len(q) /\ Len(q) \in Nat  OBVIOUS
<1>4. Cardinality(S) <= Len(q)
  <2>1. IsFiniteSet(1 .. Len(q)) /\ Cardinality(1 .. Len(q)) = Len(q)
    BY <1>3, IntervalCount
  <2>. QED  BY <1>3, <2>1, FS_Subset
<1>5. DOMAIN s = 1 .. Cardinality(S)  BY <1>2
<1>6. PICK f : f = [k \in DOMAIN s |-> q[s[k]]]  OBVIOUS
<1>7. f \in [1 .. Cardinality(S) -> T]  BY <1>2, <1>5, <1>6
<1>8. Len(f) = Cardinality(S)  BY <1>1, <1>7
<1>. QED  BY <1>4, <1>6, <1>8

LEMMA DisarmBound ==
    ASSUME BInv, NEW id \in Ids, Disarm(id)
    PROVE  BInv'
<1>. DEFINE D == {t \in DOMAIN commands : commands[t].req.id = id}
            spared == {i \in DOMAIN flushStops : flushStops[i].id # id}
<1>1. commands' = Without(commands, D)  BY DEF Disarm
<1>2. /\ DOMAIN commands' \subseteq DOMAIN commands
      /\ \A t \in DOMAIN commands' : commands'[t] = commands[t]
  BY <1>1 DEF Without
<1>3. Len(flushStops') <= Len(flushStops)
  <2>1. PICK s \in Listings(spared, LAMBDA i : i) :
           flushStops' = [k \in DOMAIN s |-> flushStops[s[k]]]
    BY DEF Disarm
  <2>2. flushStops \in Seq([id : Ids, stop : Frames, remaining : 1 .. 20])
    BY DEF BInv, IInv, TypeOK
  <2>3. spared \in SUBSET (DOMAIN flushStops)  OBVIOUS
  <2>4. Len([k \in DOMAIN s |-> flushStops[s[k]]]) <= Len(flushStops)
    BY <2>2, <2>3, SelectionLength
  <2>. QED  BY <2>1, <2>4
<1>. QED  BY <1>2, <1>3, ShrinkingStep, DisarmIInv DEF BInv

LEMMA DrainBound ==
    ASSUME BInv, DrainArmedStops
    PROVE  BInv'
<1>1. DOMAIN commands' = {} /\ flushStops' = << >>  BY DEF DrainArmedStops
<1>2. Len(flushStops') <= Len(flushStops)
  BY <1>1, CountsFinite DEF BInv
<1>. QED  BY <1>1, <1>2, ShrinkingStep, DrainIInv DEF BInv

(* Displaced debts change their place, not their number, and the new       *)
(* command, which owes nothing yet, takes a place that was free.           *)
LEMMA AdmitBound ==
    ASSUME BInv, NEW r \in Requests, Admit(r)
    PROVE  BInv'
<1>. DEFINE D == Overlapped(r.target)
            R == Retained(r.target)
            QueuedStop == [id : Ids, stop : Frames, remaining : 1 .. 20]
<1>1. PICK debtors \in InMapOrder(Owing(D)) :
         /\ flushStops' = flushStops \o [k \in DOMAIN debtors |-> FlushStop(commands[debtors[k]])]
         /\ commands' = With(Without(commands, D), r.target, NewCommand(r))
  BY DEF Admit
<1>2. /\ DOMAIN commands' = R \cup {r.target}
      /\ commands'[r.target] = NewCommand(r)
      /\ \A t \in DOMAIN commands' : t # r.target => t \in R /\ commands'[t] = commands[t]
      /\ D \subseteq DOMAIN commands /\ R \subseteq DOMAIN commands
      /\ D \cup R = DOMAIN commands /\ D \cap R = {}
  BY <1>1 DEF Overlapped, Retained, Without, With
<1>3. /\ IsFiniteSet(R) /\ Cardinality(R) \in Nat
      /\ IsFiniteSet(Owing(D)) /\ Cardinality(Owing(D)) \in Nat
      /\ IsFiniteSet(Owing(R)) /\ Cardinality(Owing(R)) \in Nat
      /\ Len(flushStops) \in Nat
  <2>1. Owing(D) \subseteq DOMAIN commands /\ Owing(R) \subseteq DOMAIN commands
    BY <1>2 DEF Owing
  <2>. QED  BY <1>2, <2>1, CountsFinite DEF BInv
<1>4. LiveBounded'
  <2>1. Cardinality(R) < MaxTargets
    BY <1>3, LimitAssumption DEF Admit, OverBudget, TargetsFull
  <2>2. /\ Cardinality(R \cup {r.target}) <= Cardinality(R) + 1
        /\ Cardinality(R \cup {r.target}) \in Nat
    BY <1>3, AddOne
  <2>. QED  BY <1>2, <1>3, <2>1, <2>2, LimitAssumption DEF LiveBounded
<1>5. Len(flushStops') = Len(flushStops) + Cardinality(Owing(D))
  <2>1. debtors \in [1 .. Cardinality(Owing(D)) -> Owing(D)]
    BY DEF InMapOrder, Listings
  <2>2. DOMAIN debtors = 1 .. Cardinality(Owing(D))  BY <2>1
  <2>3. PICK moved : moved = [k \in DOMAIN debtors |-> FlushStop(commands[debtors[k]])]
    OBVIOUS
  <2>4. \A k \in 1 .. Cardinality(Owing(D)) : moved[k] = FlushStop(commands[debtors[k]])
    BY <2>2, <2>3
  <2>5. DOMAIN moved = 1 .. Cardinality(Owing(D))  BY <2>2, <2>3
  <2>6. moved \in [1 .. Cardinality(Owing(D)) -> {moved[k] : k \in 1 .. Cardinality(Owing(D))}]
    BY <2>3, <2>5
  <2>7. PICK V : moved \in Seq(V) /\ V = {moved[k] : k \in 1 .. Cardinality(Owing(D))}
    BY <1>3, <2>6, FunctionIsSeq
  <2>8. Len(moved) = Cardinality(Owing(D))  BY <1>3, <2>5, <2>7
  <2>9. flushStops \in Seq(QueuedStop)  BY DEF BInv, IInv, TypeOK
  <2>. QED  BY <1>1, <2>3, <2>7, <2>8, <2>9, ConcatLength
<1>6. Cardinality(Owing(DOMAIN commands)) = Cardinality(Owing(D)) + Cardinality(Owing(R))
  <2>1. Owing(DOMAIN commands) = Owing(D) \cup Owing(R) /\ Owing(D) \cap Owing(R) = {}
    BY <1>2 DEF Owing
  <2>. QED  BY <1>3, <2>1, DisjointCount
<1>7. Owing(DOMAIN commands)' = Owing(R)
  <2>1. ~ OwesStop(NewCommand(r))  BY DEF OwesStop, NewCommand
  <2>2. r.target \notin R
    <3>1. r.target.mask # {}  BY RequestAssumption
    <3>. QED  BY <3>1 DEF Retained, Overlapped
  <2>3. {t \in DOMAIN commands' : OwesStop(commands'[t])} = Owing(R)
    BY <1>2, <2>1, <2>2 DEF Owing
  <2>. QED  BY <2>3 DEF Owing, OwesStop, Timed
<1>8. ObligationsBounded'
  <2>1. Len(flushStops) + Cardinality(Owing(DOMAIN commands)) <= MaxTargets
    BY DEF BInv, ObligationsBounded
  <2>2. Len(flushStops') + Cardinality(Owing(R)) <= MaxTargets
    BY <1>3, <1>5, <1>6, <2>1
  <2>3. Cardinality(Owing(DOMAIN commands))' = Cardinality(Owing(R))  BY <1>7
  <2>. QED  BY <2>2, <2>3 DEF ObligationsBounded
<1>. QED  BY <1>4, <1>8, AdmitIInv DEF BInv

LEMMA InitBound == Init => BInv
<1>. SUFFICES ASSUME Init PROVE BInv  OBVIOUS
<1>1. DOMAIN commands = {} /\ flushStops = << >>  BY DEF Init
<1>2. Cardinality(DOMAIN commands) = 0  BY <1>1, FS_EmptySet
<1>3. Owing(DOMAIN commands) = {}  BY <1>1 DEF Owing
<1>4. Cardinality(Owing(DOMAIN commands)) = 0  BY <1>3, FS_EmptySet
<1>5. Len(flushStops) = 0  BY <1>1
<1>. QED  BY <1>2, <1>4, <1>5, InitIInv, LimitAssumption
          DEF BInv, LiveBounded, ObligationsBounded

(* Steps that leave the commands and the flush queue alone.                *)
LEMMA UntouchedBound ==
    ASSUME BInv, IInv', UNCHANGED <<commands, flushStops>>
    PROVE  BInv'
<1>1. Len(flushStops') <= Len(flushStops)  BY CountsFinite DEF BInv
<1>2. \A t \in DOMAIN commands' : OwesStop(commands'[t]) => OwesStop(commands[t])
  OBVIOUS
<1>. QED  BY <1>1, <1>2, ShrinkingStep

(* Steps that only arm deadlines, and may take a copy off the flush queue. *)
LEMMA ArmingBound ==
    ASSUME BInv, IInv', commands' = Armed, Len(flushStops') <= Len(flushStops)
    PROVE  BInv'
<1>1. DOMAIN commands' = DOMAIN commands  BY DEF Armed
<1>2. \A t \in DOMAIN commands' : OwesStop(commands'[t]) => OwesStop(commands[t])
  BY <1>1, ArmedOwes DEF BInv
<1>. QED  BY <1>1, <1>2, ShrinkingStep

LEMMA PollQuietBound ==
    ASSUME BInv, PollIdle \/ PollAirBusy \/ PollNothingDue, UNCHANGED now, polled' \in BOOLEAN
    PROVE  BInv'
<1>1. IInv'  BY PollQuietIInv DEF BInv
<1>2. UNCHANGED flushStops /\ (UNCHANGED commands \/ commands' = Armed)
  BY DEF PollIdle, PollAirBusy, PollNothingDue
<1>3. Len(flushStops') <= Len(flushStops)  BY <1>2, CountsFinite DEF BInv
<1>. QED  BY <1>1, <1>2, <1>3, UntouchedBound, ArmingBound

LEMMA RotationLength ==
    ASSUME NEW T, NEW q \in Seq(T), q # << >>, NEW x \in T
    PROVE  Len(Append(Tail(q), x)) <= Len(q) /\ Len(Tail(q)) <= Len(q)
OBVIOUS

LEMMA SendFlushStopBound ==
    ASSUME BInv, SendFlushStop, UNCHANGED now, polled' \in BOOLEAN
    PROVE  BInv'
<1>. DEFINE QueuedStop == [id : Ids, stop : Frames, remaining : 1 .. 20]
            entry == Head(flushStops)
            back == [entry EXCEPT !.remaining = @ - 1]
<1>1. IInv' /\ commands' = Armed
  BY SendFlushStopIInv DEF BInv, SendFlushStop
<1>2. flushStops \in Seq(QueuedStop) /\ flushStops # << >>
  BY DEF BInv, IInv, TypeOK, SendFlushStop, FlushTurn
<1>3. flushStops' = IF entry.remaining > 1 THEN Append(Tail(flushStops), back)
                    ELSE Tail(flushStops)
  BY DEF SendFlushStop
<1>4. entry.remaining > 1 => back \in QueuedStop
  <2>1. entry \in QueuedStop  BY <1>2, HeadTailType
  <2>. QED  BY <2>1
<1>5. Len(flushStops') <= Len(flushStops)
  <2>1. CASE entry.remaining > 1
    BY <1>2, <1>3, <1>4, <2>1, RotationLength
  <2>2. CASE ~ (entry.remaining > 1)
    <3>1. Len(Tail(flushStops)) <= Len(flushStops)
      <4>1. entry \in QueuedStop  BY <1>2, HeadTailType
      <4>. QED  BY <1>2, <4>1, RotationLength
    <3>. QED  BY <1>3, <2>2, <3>1
  <2>. QED  BY <2>1, <2>2
<1>. QED  BY <1>1, <1>5, ArmingBound

(* A hand-off changes its own entry and arms the others.                   *)
LEMMA DispatchShape ==
    ASSUME IInv, NEW i \in Entries, Dispatch(i)
    PROVE  /\ order[i + 1] \in DOMAIN commands
           /\ DOMAIN commands' \subseteq DOMAIN commands
           /\ \A t \in DOMAIN commands' :
                 commands'[t] = IF t = order[i + 1] THEN Handed(Armed[t]) ELSE Armed[t]
           /\ UNCHANGED flushStops
<1>. DEFINE target == order[i + 1]
<1>1. DOMAIN Armed = DOMAIN commands  BY DEF Armed
<1>2. target \in DOMAIN commands
  <2>1. order \in Seq(Targets) /\ {order[k] : k \in DOMAIN order} = DOMAIN commands
    BY DEF IInv, TypeOK, OrderMatchesCommands
  <2>2. i + 1 \in DOMAIN order  BY <2>1 DEF Entries
  <2>. QED  BY <2>1, <2>2
<1>3. CASE Completes(Armed[target])
  <2>1. commands' = Without(Armed, {target}) /\ UNCHANGED flushStops
    BY <1>3 DEF Dispatch
  <2>. QED  BY <1>1, <1>2, <2>1 DEF Without
<1>4. CASE ~ Completes(Armed[target])
  <2>1. commands' = [Armed EXCEPT ![target] = Handed(Armed[target])] /\ UNCHANGED flushStops
    BY <1>4 DEF Dispatch
  <2>. QED  BY <1>1, <1>2, <2>1
<1>. QED  BY <1>3, <1>4

(* A copy handed over from the order: its own command is Handed, the       *)
(* others are armed, and it leaves only when it is complete.               *)
LEMMA DispatchCommands ==
    ASSUME IInv, NEW i \in Entries, Dispatch(i)
    PROVE  /\ order[i + 1] \in DOMAIN commands
           /\ DOMAIN commands' = IF Completes(Armed[order[i + 1]])
                                 THEN DOMAIN commands \ {order[i + 1]} ELSE DOMAIN commands
           /\ \A t \in DOMAIN commands' :
                 commands'[t] = IF t = order[i + 1] THEN Handed(Armed[t]) ELSE Armed[t]
           /\ UNCHANGED flushStops
<1>1. DOMAIN Armed = DOMAIN commands  BY DEF Armed
<1>2. /\ order[i + 1] \in DOMAIN commands
      /\ \A t \in DOMAIN commands' :
            commands'[t] = IF t = order[i + 1] THEN Handed(Armed[t]) ELSE Armed[t]
      /\ UNCHANGED flushStops
  BY DispatchShape
<1>3. CASE Completes(Armed[order[i + 1]])
  <2>1. commands' = Without(Armed, {order[i + 1]})  BY <1>3 DEF Dispatch
  <2>. QED  BY <1>1, <1>2, <1>3, <2>1 DEF Without
<1>4. CASE ~ Completes(Armed[order[i + 1]])
  <2>1. commands' = [Armed EXCEPT ![order[i + 1]] = Handed(Armed[order[i + 1]])]
    BY <1>4 DEF Dispatch
  <2>. QED  BY <1>1, <1>2, <1>4, <2>1
<1>. QED  BY <1>3, <1>4

(* A STOP train's copy arms nothing.                                       *)
LEMMA StopCopyOwes ==
    ASSUME NEW c \in Command, c.phase = "STOP", OwesStop(Handed(c))
    PROVE  OwesStop(c)
<1>1. WithStart(c) = c  BY DEF WithStart, Starts
<1>2. PICK d : d = WithCopy(c)  OBVIOUS
<1>3. /\ d.started = c.started /\ d.req = c.req /\ d.phase = "STOP"
      /\ d.remaining = c.remaining - 1
  BY <1>2 DEF WithCopy, Command
<1>4. WithAdvance(d) = d
  BY <1>3 DEF WithAdvance, HasTrailerNext, HasStopNext, Command
<1>5. Handed(c) = WithPacing(d)  BY <1>1, <1>2, <1>4 DEF Handed
<1>6. WithPacing(d).started = d.started /\ WithPacing(d).req = d.req
  <2>1. d = [c EXCEPT !.remaining = @ - 1, !.delivered = @]  BY <1>2 DEF WithCopy
  <2>. QED  BY <2>1 DEF WithPacing, Command
<1>. QED  BY <1>3, <1>5, <1>6 DEF OwesStop, Timed, Command

LEMMA SendScheduledStopBound ==
    ASSUME BInv, SendScheduledStop, UNCHANGED now, polled' \in BOOLEAN
    PROVE  BInv'
<1>1. PICK i \in FirstFromCursor(StopReady(Armed)) : Dispatch(i)
  BY DEF SendScheduledStop
<1>2. i \in Entries /\ Armed[order[i + 1]].phase = "STOP"
  BY DEF FirstFromCursor, StopReady, Entry
<1>3. /\ order[i + 1] \in DOMAIN commands
      /\ DOMAIN commands' \subseteq DOMAIN commands
      /\ \A t \in DOMAIN commands' :
            commands'[t] = IF t = order[i + 1] THEN Handed(Armed[t]) ELSE Armed[t]
      /\ UNCHANGED flushStops
  BY <1>1, <1>2, DispatchShape DEF BInv
<1>4. \A t \in DOMAIN commands' : OwesStop(commands'[t]) => OwesStop(commands[t])
  <2>1. \A t \in DOMAIN commands : Armed[t] \in Command
    BY CommandsOk, ArmedOk DEF BInv, IInv, TypeOK, CommandOk
  <2>. QED  BY <1>2, <1>3, <2>1, StopCopyOwes, ArmedOwes DEF BInv
<1>5. Len(flushStops') <= Len(flushStops)  BY <1>3, CountsFinite DEF BInv
<1>. QED  BY <1>3, <1>4, <1>5, ShrinkingStep, SendScheduledStopIInv DEF BInv

(* A copy of an ACTION train goes out only past an empty flush queue: a    *)
(* queue that held anything was passed over for a due STOP, and then that  *)
(* STOP is the candidate.                                                  *)
LEMMA QueueEmptyAtAction ==
    ASSUME IInv, SendAction
    PROVE  flushStops = << >>
<1>. SUFFICES ASSUME flushStops # << >> PROVE FALSE  OBVIOUS
<1>1. ScheduledStopDue(Armed)  BY DEF SendAction, FlushTurn
<1>2. PICK t \in DOMAIN commands : Armed[t].phase = "STOP" /\ Due(now, Armed[t].nextAt)
  BY <1>1 DEF ScheduledStopDue, Armed
<1>3. order \in Seq(Targets) /\ {order[k] : k \in DOMAIN order} = DOMAIN commands
  BY DEF IInv, TypeOK, OrderMatchesCommands
<1>4. PICK k \in DOMAIN order : order[k] = t  BY <1>2, <1>3
<1>5. k - 1 \in Entries /\ (k - 1) + 1 = k  BY <1>3, <1>4 DEF Entries
<1>6. k - 1 \in StopReady(Armed)  BY <1>2, <1>4, <1>5 DEF StopReady, Entry
<1>. QED  BY <1>6 DEF SendAction

LEMMA SendActionBound ==
    ASSUME BInv, SendAction, UNCHANGED now, polled' \in BOOLEAN
    PROVE  BInv'
<1>1. PICK i \in ActionCandidates(Armed) : Dispatch(i)  BY DEF SendAction
<1>2. i \in Entries
  BY DEF ActionCandidates, FirstFromCursor, ActionReady, AirOwners
<1>3. DOMAIN commands' \subseteq DOMAIN commands /\ UNCHANGED flushStops
  BY <1>1, <1>2, DispatchShape DEF BInv
<1>4. /\ IsFiniteSet(DOMAIN commands) /\ Cardinality(DOMAIN commands) \in Nat
      /\ Cardinality(DOMAIN commands) <= MaxTargets /\ MaxTargets \in Nat
  BY CountsFinite, LimitAssumption DEF BInv, LiveBounded
<1>5. /\ IsFiniteSet(DOMAIN commands') /\ Cardinality(DOMAIN commands') \in Nat
      /\ Cardinality(DOMAIN commands') <= Cardinality(DOMAIN commands)
  BY <1>3, <1>4, FS_Subset, FS_CardinalityType
<1>6. Len(flushStops') = 0  BY <1>3, QueueEmptyAtAction DEF BInv
<1>. DEFINE after == {t \in DOMAIN commands' : OwesStop(commands'[t])}
<1>7. Cardinality(after) \in Nat /\ Cardinality(after) <= Cardinality(DOMAIN commands')
  BY <1>5, FS_Subset, FS_CardinalityType
<1>8. ObligationsBounded'
  <2>1. after = Owing(DOMAIN commands)'  BY DEF Owing, OwesStop, Timed
  <2>2. Len(flushStops') + Cardinality(after) <= MaxTargets
    BY <1>4, <1>5, <1>6, <1>7
  <2>3. Cardinality(after) = Cardinality(Owing(DOMAIN commands))'  BY <2>1
  <2>. QED  BY <2>2, <2>3 DEF ObligationsBounded
<1>9. LiveBounded'  BY <1>4, <1>5 DEF LiveBounded
<1>. QED  BY <1>8, <1>9, SendActionIInv DEF BInv

LEMMA NextBound == BInv /\ [Next]_vars => BInv'
<1>. SUFFICES ASSUME BInv, [Next]_vars PROVE BInv'  OBVIOUS
<1>1. IInv'  BY NextIInv DEF BInv
<1>2. CASE \E r \in Requests : Admit(r)  BY <1>2, AdmitBound
<1>3. CASE \E r \in Requests : Refuse(r)
  <2>1. UNCHANGED <<commands, flushStops>>  BY <1>3 DEF Refuse, schedulerVars
  <2>. QED  BY <1>1, <2>1, UntouchedBound
<1>4. CASE \E id \in Ids : Disarm(id)  BY <1>4, DisarmBound
<1>5. CASE DrainArmedStops  BY <1>5, DrainBound
<1>6. CASE Poll
  <2>1. UNCHANGED now /\ polled' \in BOOLEAN /\ NextCall  BY <1>6 DEF Poll
  <2>. QED  BY <2>1, PollQuietBound, SendFlushStopBound, SendScheduledStopBound, SendActionBound
       DEF NextCall
<1>7. CASE Elapse
  <2>1. UNCHANGED <<commands, flushStops>>  BY <1>7 DEF Elapse, schedulerVars
  <2>. QED  BY <1>1, <2>1, UntouchedBound
<1>8. CASE UNCHANGED vars
  <2>1. UNCHANGED <<commands, flushStops>>  BY <1>8 DEF vars
  <2>. QED  BY <1>1, <2>1, UntouchedBound
<1>. QED  BY <1>2, <1>3, <1>4, <1>5, <1>6, <1>7, <1>8 DEF Next

(* Armed STOPs, queued or still with their command, never outnumber the    *)
(* places: "Bounded by MAX_TARGETS concurrent flush entries" (FlushStop),  *)
(* for every set of requests and every MAX_TARGETS.                        *)
THEOREM ObligationsAlwaysBounded == Spec => []ObligationsBounded
<1>1. BInv => ObligationsBounded  BY DEF BInv
<1>. QED  BY InitBound, NextBound, <1>1, PTL DEF Spec

(* An ACTION or TRAILER copy is never handed over while a displaced STOP   *)
(* still waits (next): the fail-safe train always goes first.              *)
THEOREM StopsGoFirst == Spec => [][SendAction => flushStops = << >>]_vars
<1>1. IInv /\ [Next]_vars => [SendAction => flushStops = << >>]_vars
  BY QueueEmptyAtAction
<1>. QED  BY Inductive, <1>1, PTL DEF Spec

-----------------------------------------------------------------------------
(* The air and the repeat gap.  What really remains of the last frame and  *)
(* of its gap never exceeds what the stored instants say remains, and both *)
(* stay on the near half of the wheel.                                     *)

LEMMA LaterDistance ==
    ASSUME NEW x \in Instants, NEW d \in 0 .. Wheel - 1
    PROVE  Later(x, d) \in Instants /\ Since(Later(x, d), x) = d
<1>1. Wheel \in Nat /\ Wheel > 0  BY WheelAssumption
<1>2. CASE x + d < Wheel
  <2>1. Later(x, d) = x + d  BY <1>1, <1>2 DEF Later, Instants
  <2>. QED  BY <1>1, <1>2, <2>1 DEF Since, Instants
<1>3. CASE ~ (x + d < Wheel)
  <2>1. x + d - Wheel \in 0 .. Wheel - 1  BY <1>1, <1>3 DEF Instants
  <2>2. x + d = Wheel * 1 + (x + d - Wheel)  BY <1>1 DEF Instants
  <2>3. Later(x, d) = x + d - Wheel  BY <1>1, <1>3, <2>1, <2>2 DEF Later, Instants
  <2>4. d - Wheel \in - Wheel .. -1  BY <1>1
  <2>5. (d - Wheel) % Wheel = d  BY <1>1, <2>4
  <2>. QED  BY <1>1, <2>1, <2>3, <2>5 DEF Since, Instants
<1>. QED  BY <1>2, <1>3

(* Time that passes before an instant comes off its distance.              *)
LEMMA ElapsedDistance ==
    ASSUME NEW x \in Instants, NEW y \in Instants, NEW d \in Nat, d <= Since(y, x)
    PROVE  Since(y, Later(x, d)) = Since(y, x) - d
<1>1. Wheel \in Nat /\ Wheel > 0  BY WheelAssumption
<1>2. PICK z : z = Since(y, x)  OBVIOUS
<1>3. z = (IF y >= x THEN y - x ELSE y - x + Wheel) /\ z \in 0 .. Wheel - 1
  <2>1. CASE y >= x  BY <1>1, <1>2, <2>1 DEF Since, Instants
  <2>2. CASE y < x
    <3>1. y - x + Wheel \in 0 .. Wheel - 1  BY <1>1, <2>2 DEF Instants
    <3>. QED  BY <1>1, <1>2, <2>2, <3>1 DEF Since, Instants
  <2>. QED  BY <2>1, <2>2 DEF Instants
<1>4. d \in 0 .. Wheel - 1 /\ d <= z  BY <1>1, <1>2, <1>3
<1>5. PICK w : w = Later(x, d)  OBVIOUS
<1>6. w = (IF x + d < Wheel THEN x + d ELSE x + d - Wheel) /\ w \in Instants
  <2>1. CASE x + d < Wheel  BY <1>1, <1>5, <2>1 DEF Later, Instants
  <2>2. CASE ~ (x + d < Wheel)
    <3>1. x + d - Wheel \in 0 .. Wheel - 1  BY <1>1, <1>4, <2>2 DEF Instants
    <3>2. x + d = Wheel * 1 + (x + d - Wheel)  BY <1>1 DEF Instants
    <3>. QED  BY <1>1, <1>5, <2>2, <3>1, <3>2 DEF Later, Instants
  <2>. QED  BY <2>1, <2>2
<1>7. Since(y, w) = z - d
  <2>1. CASE y - w = z - d  BY <1>1, <1>3, <1>4, <2>1 DEF Since
  <2>2. CASE y - w = z - d - Wheel
    <3>1. z - d \in 0 .. Wheel - 1  BY <1>1, <1>3, <1>4
    <3>. QED  BY <1>1, <2>2, <3>1 DEF Since
  <2>3. y - w = z - d \/ y - w = z - d - Wheel
    BY <1>1, <1>3, <1>4, <1>6 DEF Instants
  <2>. QED  BY <2>1, <2>2, <2>3
<1>. QED  BY <1>2, <1>5, <1>7

(* An instant ahead, and no further than the guard, is not due.            *)
LEMMA AheadNotDue ==
    ASSUME NEW x \in Instants, NEW y \in Instants,
           Since(y, x) > 0, Since(y, x) <= MaxRepeatGap
    PROVE  ~ Due(x, y)
<1>1. /\ Wheel \in Nat /\ Wheel > 1 /\ Wheel % 2 = 0
      /\ MaxRepeatGap \in Nat /\ 2 * MaxRepeatGap < Wheel
  BY WheelAssumption, LimitAssumption, AirAssumption
<1>2. PICK z : z = Since(y, x)  OBVIOUS
<1>3. z = IF y >= x THEN y - x ELSE y - x + Wheel
  <2>1. CASE y >= x  BY <1>1, <1>2, <2>1 DEF Since, Instants
  <2>2. CASE y < x
    <3>1. y - x + Wheel \in 0 .. Wheel - 1  BY <1>1, <2>2 DEF Instants
    <3>. QED  BY <1>1, <1>2, <2>2, <3>1 DEF Since, Instants
  <2>. QED  BY <2>1, <2>2 DEF Instants
<1>4. Since(x, y) = Wheel - z
  <2>1. Wheel - z \in 0 .. Wheel - 1  BY <1>1, <1>2, <1>3 DEF Instants
  <2>2. CASE y >= x
    <3>1. PICK a : a = Wheel - z  OBVIOUS
    <3>2. a \in 0 .. Wheel - 1  BY <2>1, <3>1
    <3>3. x - y = a - Wheel  BY <1>1, <1>3, <2>2, <3>1 DEF Instants
    <3>4. (a - Wheel) % Wheel = a  BY <1>1, <3>2
    <3>. QED  BY <3>1, <3>3, <3>4 DEF Since
  <2>3. CASE y < x
    <3>1. x - y = Wheel - z  BY <1>1, <1>3, <2>3 DEF Instants
    <3>. QED  BY <1>1, <2>1, <3>1 DEF Since
  <2>. QED  BY <2>2, <2>3 DEF Instants
<1>5. z \in Nat /\ z <= MaxRepeatGap  BY <1>1, <1>2, <1>3 DEF Instants
<1>6. Wheel - z >= Wheel \div 2  BY <1>1, <1>5
<1>. QED  BY <1>1, <1>4, <1>5, <1>6 DEF Due

AirInv ==
    airLeft > 0 => /\ rfDispatched
                   /\ airLeft <= Since(rfBusyUntil, now)
                   /\ Since(rfBusyUntil, now) <= MaxRepeatGap

GapInv ==
    gapLeft > 0 => /\ nextUserAt # NoTime
                   /\ gapLeft = Since(nextUserAt, now)
                   /\ gapLeft <= RepeatGap

TInv == IInv /\ AirInv /\ GapInv

LEMMA Clocks ==
    ASSUME IInv
    PROVE  /\ now \in Instants /\ rfBusyUntil \in Instants
           /\ nextUserAt \in Instants \cup {NoTime}
           /\ airLeft \in Nat /\ gapLeft \in Nat
           /\ Wheel \in Nat /\ MaxRepeatGap \in Nat /\ RepeatGap \in Nat
           /\ RepeatGap <= MaxRepeatGap /\ 2 * MaxRepeatGap < Wheel
BY WheelAssumption, LimitAssumption, AirAssumption DEF IInv, TypeOK

(* While the gap lasts the floor stands in the way.                        *)
LEMMA FloorStands ==
    ASSUME TInv, gapLeft > 0
    PROVE  LiveFloor = nextUserAt /\ ~ UserFloorClear
<1>1. /\ nextUserAt \in Instants /\ now \in Instants
      /\ Since(nextUserAt, now) > 0 /\ Since(nextUserAt, now) <= MaxRepeatGap
      /\ nextUserAt # NoTime
  BY Clocks DEF TInv, GapInv
<1>2. ~ Due(now, nextUserAt)  BY <1>1, AheadNotDue
<1>. QED  BY <1>1, <1>2 DEF LiveFloor, UserFloorClear

LEMMA AirSafe == TInv => AirClearIsSafe
<1>. SUFFICES ASSUME TInv, RfAirClear PROVE airLeft = 0  BY DEF AirClearIsSafe
<1>1. CASE airLeft > 0
  <2>1. /\ rfDispatched /\ rfBusyUntil \in Instants /\ now \in Instants /\ airLeft \in Nat
        /\ airLeft <= Since(rfBusyUntil, now) /\ Since(rfBusyUntil, now) <= MaxRepeatGap
    BY <1>1, Clocks DEF TInv, AirInv
  <2>2. Since(rfBusyUntil, now) \in Int  BY <2>1, WheelAssumption DEF Since, Instants
  <2>3. Since(rfBusyUntil, now) > 0  BY <1>1, <2>1, <2>2
  <2>4. ~ Due(now, rfBusyUntil)  BY <2>1, <2>3, AheadNotDue
  <2>5. ~ (Since(rfBusyUntil, now) > MaxRepeatGap)  BY <2>1, <2>2, LimitAssumption
  <2>. QED  BY <2>1, <2>4, <2>5 DEF RfAirClear
<1>. QED  BY <1>1, Clocks DEF TInv

LEMMA DispatchTimes ==
    ASSUME IInv, NEW f \in Frames, RecordDispatch(f), UNCHANGED now
    PROVE  AirInv' /\ GapInv'
<1>1. f \in [bytes : Nat, uart : Nat, air : Nat] /\ RfAirtimeMargin \in Nat
  BY FrameType, LimitAssumption
<1>2. /\ PhysicalHold(f) \in Nat /\ Occupancy(f) \in Nat /\ PhysicalHold(f) <= Occupancy(f)
  BY <1>1 DEF PhysicalHold, Occupancy
<1>3. Occupancy(f) <= MaxRepeatGap  BY AirAssumption
<1>4. Occupancy(f) \in 0 .. Wheel - 1 /\ RepeatGap \in 0 .. Wheel - 1  BY <1>2, <1>3, Clocks
<1>5. Since(rfBusyUntil', now') = Occupancy(f)
  BY <1>4, LaterDistance, Clocks DEF RecordDispatch
<1>6. Since(nextUserAt', now') = RepeatGap /\ nextUserAt' # NoTime
  <2>1. Later(now, RepeatGap) \in Instants /\ Since(Later(now, RepeatGap), now) = RepeatGap
    BY <1>4, LaterDistance, Clocks
  <2>2. nextUserAt' = Later(now, RepeatGap)  BY DEF RecordDispatch
  <2>. QED  BY <2>1, <2>2 DEF Instants, NoTime
<1>7. airLeft' = PhysicalHold(f) /\ gapLeft' = RepeatGap /\ rfDispatched'  BY DEF RecordDispatch
<1>8. AirInv'  BY <1>2, <1>3, <1>5, <1>7 DEF AirInv
<1>9. GapInv'  BY <1>6, <1>7, Clocks DEF GapInv
<1>. QED  BY <1>8, <1>9

(* Calls that hand nothing over may only drop a floor that is past.        *)
LEMMA QuietTimes ==
    ASSUME TInv, UNCHANGED <<now, rfDispatched, rfBusyUntil, airLeft, gapLeft>>,
           nextUserAt' = nextUserAt \/ nextUserAt' = LiveFloor
    PROVE  AirInv' /\ GapInv'
<1>1. AirInv'  BY DEF TInv, AirInv
<1>2. gapLeft > 0 => nextUserAt' = nextUserAt  BY FloorStands
<1>3. GapInv'  BY <1>2 DEF TInv, GapInv
<1>. QED  BY <1>1, <1>3

LEMMA ElapseTimes ==
    ASSUME TInv, Elapse
    PROVE  AirInv' /\ GapInv'
<1>1. PICK delay \in 1 .. MaxStall :
         /\ now' = Later(now, delay)
         /\ airLeft' = IF airLeft > delay THEN airLeft - delay ELSE 0
         /\ gapLeft' = IF gapLeft > delay THEN gapLeft - delay ELSE 0
         /\ UNCHANGED <<nextUserAt, rfDispatched, rfBusyUntil>>
  BY DEF Elapse, schedulerVars
<1>2. delay \in Nat /\ airLeft \in Nat /\ gapLeft \in Nat /\ now \in Instants
      /\ rfBusyUntil \in Instants /\ nextUserAt \in Instants \cup {NoTime} /\ MaxRepeatGap \in Nat
  BY Clocks, LimitAssumption DEF TInv
<1>3. ASSUME airLeft' > 0
      PROVE  rfDispatched' /\ airLeft' <= Since(rfBusyUntil', now') /\ Since(rfBusyUntil', now') <= MaxRepeatGap
  <2>1. airLeft > delay /\ airLeft' = airLeft - delay  BY <1>1, <1>2, <1>3
  <2>2. /\ rfDispatched /\ airLeft <= Since(rfBusyUntil, now)
        /\ Since(rfBusyUntil, now) <= MaxRepeatGap
    BY <1>2, <2>1 DEF TInv, AirInv
  <2>3. Since(rfBusyUntil, now) \in Int  BY <1>2, WheelAssumption DEF Since, Instants
  <2>4. delay <= Since(rfBusyUntil, now)  BY <1>2, <2>1, <2>2, <2>3
  <2>5. Since(rfBusyUntil, now') = Since(rfBusyUntil, now) - delay
    BY <1>1, <1>2, <2>4, ElapsedDistance
  <2>. QED  BY <1>1, <1>2, <2>1, <2>2, <2>3, <2>5
<1>4. ASSUME gapLeft' > 0
      PROVE  nextUserAt' # NoTime /\ gapLeft' = Since(nextUserAt', now') /\ gapLeft' <= RepeatGap
  <2>1. gapLeft > delay /\ gapLeft' = gapLeft - delay  BY <1>1, <1>2, <1>4
  <2>2. nextUserAt # NoTime /\ gapLeft = Since(nextUserAt, now) /\ gapLeft <= RepeatGap
    BY <1>2, <2>1 DEF TInv, GapInv
  <2>3. nextUserAt \in Instants /\ delay <= Since(nextUserAt, now)  BY <1>2, <2>1, <2>2
  <2>4. Since(nextUserAt, now') = Since(nextUserAt, now) - delay
    BY <1>1, <1>2, <2>3, ElapsedDistance
  <2>. QED  BY <1>1, <1>2, <2>1, <2>2, <2>4, LimitAssumption
<1>. QED  BY <1>3, <1>4 DEF AirInv, GapInv

LEMMA HandOffTimes ==
    ASSUME TInv, NEW i \in Entries, Dispatch(i), UNCHANGED now
    PROVE  AirInv' /\ GapInv'
<1>1. order[i + 1] \in DOMAIN commands  BY DispatchCommands DEF TInv
<1>2. Armed[order[i + 1]] \in Command
  BY <1>1, CommandsOk, ArmedOk DEF TInv, IInv, TypeOK, CommandOk
<1>3. PhaseFrame(Armed[order[i + 1]]) \in Frames
  BY <1>2, RequestType DEF PhaseFrame, Command
<1>4. RecordDispatch(PhaseFrame(Armed[order[i + 1]]))  BY DEF Dispatch
<1>. QED  BY <1>3, <1>4, DispatchTimes DEF TInv

LEMMA NextTimes == TInv /\ [Next]_vars => TInv'
<1>. SUFFICES ASSUME TInv, [Next]_vars PROVE TInv'  OBVIOUS
<1>1. IInv'  BY NextIInv DEF TInv
<1>2. CASE \E r \in Requests : Admit(r) \/ Refuse(r)
  BY <1>1, <1>2, QuietTimes DEF TInv, Admit, Refuse, clockVars
<1>3. CASE \E id \in Ids : Disarm(id)
  BY <1>1, <1>3, QuietTimes DEF TInv, Disarm, clockVars
<1>4. CASE DrainArmedStops
  <2>1. AirInv'  BY <1>4 DEF TInv, AirInv, DrainArmedStops
  <2>2. GapInv'  BY <1>4 DEF GapInv, DrainArmedStops
  <2>. QED  BY <1>1, <2>1, <2>2 DEF TInv
<1>5. CASE Poll
  <2>1. UNCHANGED now /\ NextCall  BY <1>5 DEF Poll
  <2>2. CASE PollIdle \/ PollAirBusy \/ PollNothingDue
    BY <1>1, <2>1, <2>2, QuietTimes DEF TInv, PollIdle, PollAirBusy, PollNothingDue
  <2>3. CASE SendFlushStop
    <3>1. flushStops \in Seq([id : Ids, stop : Frames, remaining : 1 .. 20]) /\ flushStops # << >>
      BY <2>3 DEF TInv, IInv, TypeOK, SendFlushStop, FlushTurn
    <3>2. Head(flushStops).stop \in Frames
      <4>1. Head(flushStops) \in [id : Ids, stop : Frames, remaining : 1 .. 20]
        BY <3>1, HeadTailType
      <4>. QED  BY <4>1
    <3>3. RecordDispatch(Head(flushStops).stop)  BY <2>3 DEF SendFlushStop
    <3>. QED  BY <1>1, <2>1, <3>2, <3>3, DispatchTimes DEF TInv
  <2>4. CASE SendScheduledStop \/ SendAction
    <3>1. PICK i \in Entries : Dispatch(i)
      BY <2>4 DEF SendScheduledStop, SendAction, ActionCandidates, FirstFromCursor, StopReady,
                  ActionReady, AirOwners
    <3>. QED  BY <1>1, <2>1, <3>1, HandOffTimes DEF TInv
  <2>. QED  BY <2>1, <2>2, <2>3, <2>4 DEF NextCall
<1>6. CASE Elapse  BY <1>1, <1>6, ElapseTimes DEF TInv
<1>7. CASE UNCHANGED vars
  BY <1>1, <1>7, QuietTimes DEF TInv, vars
<1>. QED  BY <1>2, <1>3, <1>4, <1>5, <1>6, <1>7 DEF Next

LEMMA InitTimes == Init => TInv
<1>. SUFFICES ASSUME Init PROVE TInv  OBVIOUS
<1>1. airLeft = 0 /\ gapLeft = 0  BY DEF Init
<1>. QED  BY <1>1, InitIInv DEF TInv, AirInv, GapInv

(* Whenever rf_air_clear() says yes the coprocessor really is done with    *)
(* the last frame, at every position of a clock of any width whose half is *)
(* longer than the 60 s guard, and for every pause between two calls.      *)
THEOREM AirAlwaysSafe == Spec => []AirClearIsSafe
BY InitTimes, NextTimes, AirSafe, PTL DEF Spec

(* A copy of an ACTION or TRAILER train is handed over by SendAction only: *)
(* a STOP train's copy, a flushed STOP and a quiet call arm deadlines and  *)
(* change nothing else of the other trains.                                *)
LEMMA ActionIsSent ==
    ASSUME IInv, [Next]_vars, ActionHandoff
    PROVE  SendAction
<1>1. ~ polled /\ polled'  BY DEF ActionHandoff
<1>2. PICK t \in DOMAIN commands :
         /\ Armed[t].phase \in {"ACTION", "TRAILER"}
         /\ \/ t \notin DOMAIN commands'
            \/ <<commands'[t].phase, commands'[t].remaining>> # <<Armed[t].phase, Armed[t].remaining>>
  BY DEF ActionHandoff
<1>3. Poll
  BY <1>1 DEF Next, Admit, Refuse, Disarm, DrainArmedStops, Elapse, clockVars, vars
<1>4. ~ PollIdle  BY <1>2 DEF PollIdle, Idle
<1>5. commands' # Armed
  <2>1. DOMAIN Armed = DOMAIN commands  BY DEF Armed
  <2>. QED  BY <1>2, <2>1
<1>6. ~ PollAirBusy /\ ~ SendFlushStop /\ ~ PollNothingDue
  BY <1>5 DEF PollAirBusy, SendFlushStop, PollNothingDue
<1>7. ~ SendScheduledStop
  <2>. SUFFICES ASSUME SendScheduledStop PROVE FALSE  OBVIOUS
  <2>1. PICK i \in Entries : Dispatch(i) /\ Armed[order[i + 1]].phase = "STOP"
    BY DEF SendScheduledStop, FirstFromCursor, StopReady, Entry
  <2>2. t # order[i + 1]  BY <1>2, <2>1
  <2>3. t \in DOMAIN commands' /\ commands'[t] = Armed[t]
    BY <1>2, <2>1, <2>2, DispatchCommands
  <2>. QED  BY <1>2, <2>3
<1>. QED  BY <1>3, <1>4, <1>6, <1>7 DEF Poll, NextCall

(* The repeat gap holds between any frame and a following ACTION or        *)
(* TRAILER copy of any command; only STOP copies may skip it, and only an  *)
(* update forgets it (next, record_dispatch_).                             *)
THEOREM GapAlwaysKept == Spec => RepeatGapKept
<1>1. TInv /\ [Next]_vars => [ActionHandoff => gapLeft = 0]_vars
  <2>. SUFFICES ASSUME TInv, [Next]_vars, ActionHandoff PROVE gapLeft = 0  OBVIOUS
  <2>1. UserFloorClear  BY ActionIsSent DEF TInv, SendAction
  <2>2. ~ (gapLeft > 0)  BY <2>1, FloorStands
  <2>. QED  BY <2>2, Clocks DEF TInv
<1>. QED  BY InitTimes, NextTimes, <1>1, PTL DEF Spec, RepeatGapKept
=============================================================================
