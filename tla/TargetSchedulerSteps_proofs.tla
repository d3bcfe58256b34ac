--------------------- MODULE TargetSchedulerSteps_proofs ---------------------
(***************************************************************************)
(* What a step carries over, command by command and entry by entry of the  *)
(* flush queue: the two admission budgets hold at every moment, no command *)
(* id is ever live twice, the ring remembers every live id, its answers    *)
(* only move forward, no due STOP waits for more than a bounded number of  *)
(* frames, and, because ids tell the debts apart, the scheduler implements *)
(* FailSafeStop.                                                           *)
(***************************************************************************)
EXTENDS TargetScheduler_proofs

-----------------------------------------------------------------------------
(* What a step does to the commands and the flush queue.                   *)
QueuedStop == [id : Ids, stop : Frames, remaining : 1 .. 20]

(* What IInv says, in the forms the steps below need.                      *)
LEMMA Typed ==
    ASSUME IInv
    PROVE  /\ \A t \in DOMAIN commands : commands[t] \in Command /\ CommandOk(commands[t])
           /\ flushStops \in Seq(QueuedStop) /\ Len(flushStops) \in Nat
           /\ DOMAIN flushStops = 1 .. Len(flushStops)
           /\ \A i \in DOMAIN flushStops : flushStops[i] \in QueuedStop
           /\ recent \in Ring /\ recentCursor \in Slots
           /\ now \in Instants
<1>1. flushStops \in Seq(QueuedStop)  BY DEF IInv, TypeOK, QueuedStop
<1>2. /\ Len(flushStops) \in Nat /\ DOMAIN flushStops = 1 .. Len(flushStops)
      /\ \A i \in DOMAIN flushStops : flushStops[i] \in QueuedStop
  BY <1>1
<1>. QED  BY <1>1, <1>2, CommandsOk DEF IInv, TypeOK, Ring

-----------------------------------------------------------------------------
(* What one hand-off does to a command: a STOP copy only counts down; an   *)
(* ACTION or TRAILER copy starts the command, leaves its STOP train whole  *)
(* and never completes it when it is timed.                                *)
LEMMA HandedShape ==
    ASSUME NEW c, CommandOk(c), now \in Instants
    PROVE  /\ Handed(c).req = c.req
           /\ c.phase = "STOP" =>
                 /\ Handed(c).phase = "STOP"
                 /\ Handed(c).started = c.started
                 /\ Handed(c).remaining = c.remaining - 1
           /\ c.phase \in {"ACTION", "TRAILER"} =>
                 /\ Handed(c).phase # "STOP"
                 /\ Handed(c).started = (c.started \/ Starts(c))
                 /\ Timed(c.req) => ~ Completes(c)
<1>1. PICK s : s = WithStart(c)  OBVIOUS
<1>2. PICK k : k = WithCopy(s)  OBVIOUS
<1>3. PICK d : d = WithAdvance(k)  OBVIOUS
<1>4. Handed(c) = WithPacing(d)  BY <1>1, <1>2, <1>3 DEF Handed
<1>5. /\ CommandOk(s) /\ s.phase = c.phase /\ s.req = c.req /\ s.remaining = c.remaining
      /\ s.started = (c.started \/ Starts(c))
  <2>1. CommandOk(s) /\ s.phase = c.phase  BY <1>1, WithStartOk
  <2>2. s.req = c.req /\ s.remaining = c.remaining
    BY <1>1 DEF WithStart, CommandOk, Command
  <2>3. CASE Starts(c)
    <3>1. s.started = TRUE  BY <1>1, <2>3 DEF WithStart, CommandOk, Command
    <3>. QED  BY <2>1, <2>2, <2>3, <3>1
  <2>4. CASE ~ Starts(c)
    <3>1. s = c  BY <1>1, <2>4 DEF WithStart
    <3>2. c.started \in BOOLEAN  BY DEF CommandOk, Command
    <3>. QED  BY <2>1, <2>4, <3>1, <3>2
  <2>. QED  BY <2>3, <2>4
<1>6. /\ k \in Copied /\ CountOk(k) /\ k.phase = c.phase /\ k.req = c.req
      /\ k.started = s.started /\ k.remaining = c.remaining - 1
  <2>1. k \in Copied /\ CountOk(k) /\ k.phase = c.phase
    BY <1>2, <1>5, WithCopyOk
  <2>2. k.req = s.req /\ k.started = s.started /\ k.remaining = s.remaining - 1
    BY <1>2, <1>5 DEF WithCopy, CommandOk, Command
  <2>. QED  BY <1>5, <2>1, <2>2
<1>7. d \in Copied  BY <1>3, <1>6, WithAdvanceOk
<1>8. /\ d.req = c.req /\ d.started = s.started
      /\ c.phase = "STOP" => d.phase = "STOP" /\ d.remaining = c.remaining - 1
      /\ c.phase \in {"ACTION", "TRAILER"} =>
            d.phase # "STOP" /\ (Timed(c.req) => d.remaining # 0)
  <2>1. k.req.repeats \in 1 .. 20  BY <1>6, RequestType DEF Copied
  <2>2. ASSUME NEW ph, d = [k EXCEPT !.phase = ph, !.remaining = k.req.repeats]
        PROVE  d.req = k.req /\ d.started = k.started /\ d.phase = ph /\ d.remaining # 0
    <3>1. PICK x : x = [k EXCEPT !.phase = ph]  OBVIOUS
    <3>2. d = [x EXCEPT !.remaining = k.req.repeats]  BY <2>2, <3>1
    <3>3. /\ DOMAIN x = DOMAIN k /\ x.req = k.req /\ x.started = k.started /\ x.phase = ph
          /\ DOMAIN k = {"req", "phase", "remaining", "delivered", "started",
                         "deadlineArmed", "deadlineAt", "nextAt"}
      BY <1>6, <3>1 DEF Copied
    <3>4. d.req = k.req /\ d.started = k.started /\ d.phase = ph /\ d.remaining = k.req.repeats
      BY <3>2, <3>3
    <3>. QED  BY <2>1, <3>4
  <2>3. CASE k.remaining > 0
    <3>1. d = k  BY <1>3, <2>3 DEF WithAdvance
    <3>. QED  BY <1>6, <2>3, <3>1
  <2>4. CASE k.remaining = 0 /\ HasTrailerNext(k)
    <3>1. d = [k EXCEPT !.phase = "TRAILER", !.remaining = k.req.repeats]
      BY <1>3, <2>4 DEF WithAdvance
    <3>. QED  BY <1>6, <2>2, <2>4, <3>1 DEF HasTrailerNext
  <2>5. CASE k.remaining = 0 /\ ~ HasTrailerNext(k) /\ HasStopNext(k)
    <3>1. d = [k EXCEPT !.phase = "WAIT_STOP", !.remaining = k.req.repeats]
      BY <1>3, <2>5 DEF WithAdvance
    <3>. QED  BY <1>6, <2>2, <2>5, <3>1 DEF HasStopNext
  <2>6. CASE k.remaining = 0 /\ ~ HasTrailerNext(k) /\ ~ HasStopNext(k)
    <3>1. d = k  BY <1>3, <2>6 DEF WithAdvance
    <3>. QED  BY <1>6, <2>6, <3>1 DEF HasStopNext
  <2>7. k.remaining > 0 \/ k.remaining = 0
    <3>1. k \in Copied  BY <1>6
    <3>2. k.remaining \in 0 .. 20  BY <3>1 DEF Copied
    <3>. QED  BY <3>2
  <2>. QED  BY <2>3, <2>4, <2>5, <2>6, <2>7
<1>9. /\ WithPacing(d).req = d.req /\ WithPacing(d).phase = d.phase
      /\ WithPacing(d).started = d.started /\ WithPacing(d).remaining = d.remaining
  BY <1>7 DEF WithPacing, Copied
<1>10. Completes(c) <=> d.remaining = 0  BY <1>4, <1>9 DEF Completes
<1>11. /\ Handed(c).req = d.req /\ Handed(c).phase = d.phase
       /\ Handed(c).started = d.started /\ Handed(c).remaining = d.remaining
  BY <1>4, <1>9
<1>12. Handed(c).req = c.req  BY <1>8, <1>11
<1>13. Handed(c).started = (c.started \/ Starts(c))  BY <1>5, <1>8, <1>11
<1>14. ASSUME c.phase = "STOP"
       PROVE  /\ Handed(c).phase = "STOP" /\ Handed(c).started = c.started
              /\ Handed(c).remaining = c.remaining - 1
  <2>1. ~ Starts(c)  BY <1>14 DEF Starts
  <2>2. c.started \in BOOLEAN  BY DEF CommandOk, Command
  <2>3. Handed(c).started = c.started  BY <1>13, <2>1, <2>2
  <2>. QED  BY <1>8, <1>11, <1>14, <2>3
<1>15. ASSUME c.phase \in {"ACTION", "TRAILER"}
       PROVE  Handed(c).phase # "STOP" /\ (Timed(c.req) => ~ Completes(c))
  BY <1>8, <1>10, <1>11, <1>15
<1>. QED  BY <1>12, <1>13, <1>14, <1>15

(* Arming changes neither the request nor the started flag, and no debt.   *)
LEMMA ArmedShape ==
    ASSUME IInv, NEW t \in DOMAIN commands
    PROVE  /\ CommandOk(Armed[t])
           /\ Armed[t].req = commands[t].req
           /\ Armed[t].started = commands[t].started
           /\ OwesStop(Armed[t]) <=> OwesStop(commands[t])
           /\ OwesStop(commands[t]) => CopiesOwed(Armed[t]) = CopiesOwed(commands[t])
<1>1. PICK c : c = commands[t]  OBVIOUS
<1>2. c \in Command /\ CommandOk(c)  BY <1>1, Typed
<1>3. CommandOk(Armed[t])  BY <1>2, Typed, ArmedOk
<1>4. CASE c.deadlineArmed /\ c.phase # "STOP" /\ Due(now, c.deadlineAt)
  <2>1. Armed[t] = [c EXCEPT !.phase = "STOP", !.remaining = c.req.repeats, !.nextAt = now]
    BY <1>1, <1>4 DEF Armed
  <2>2. /\ Armed[t].req = c.req /\ Armed[t].started = c.started
        /\ Armed[t].phase = "STOP" /\ Armed[t].remaining = c.req.repeats
    BY <1>2, <2>1 DEF Command
  <2>3. c.req.repeats > 0  BY <1>2, RequestType DEF Command
  <2>. QED  BY <1>1, <1>3, <1>4, <2>2, <2>3 DEF OwesStop, CopiesOwed
<1>5. CASE ~ (c.deadlineArmed /\ c.phase # "STOP" /\ Due(now, c.deadlineAt))
  <2>1. Armed[t] = c  BY <1>1, <1>5 DEF Armed
  <2>. QED  BY <1>1, <1>3, <2>1
<1>. QED  BY <1>4, <1>5

-----------------------------------------------------------------------------
(* What a step does to the commands and the flush queue, action by action. *)

(* No command enters and none changes its request.                         *)
KeptCommands ==
    /\ DOMAIN commands' \subseteq DOMAIN commands
    /\ \A t \in DOMAIN commands' : commands'[t].req = commands[t].req

(* Every queue entry was one before, and no two come from the same one.    *)
CarriedBy(h) ==
    /\ h \in [DOMAIN flushStops' -> DOMAIN flushStops]
    /\ \A i, j \in DOMAIN flushStops' : h[i] = h[j] => i = j
    /\ \A i \in DOMAIN flushStops' :
          flushStops'[i].id = flushStops[h[i]].id /\ flushStops'[i].stop = flushStops[h[i]].stop

(* Exactly the entries of other ids were spared.                           *)
SparedBy(h, id) ==
    /\ CarriedBy(h)
    /\ \A i \in DOMAIN flushStops' :
          flushStops'[i] = flushStops[h[i]] /\ flushStops[h[i]].id # id
    /\ \A i \in DOMAIN flushStops :
          flushStops[i].id # id => \E k \in DOMAIN flushStops' : h[k] = i

(* The first entry lost one copy, or went with its last one.               *)
FirstPaidBy(h) ==
    /\ CarriedBy(h)
    /\ \A i \in DOMAIN flushStops' :
          IF h[i] = 1
          THEN /\ flushStops[1].remaining > 1
               /\ flushStops'[i].remaining = flushStops[1].remaining - 1
          ELSE flushStops'[i] = flushStops[h[i]]
    /\ \A j \in DOMAIN flushStops :
          j # 1 \/ flushStops[1].remaining > 1 => \E i \in DOMAIN flushStops' : h[i] = j

LEMMA UnchangedCarried ==
    ASSUME UNCHANGED flushStops
    PROVE  \E h : CarriedBy(h)
<1>1. CarriedBy([i \in DOMAIN flushStops |-> i])  BY DEF CarriedBy
<1>. QED  BY <1>1

(* disarm(): exactly the commands and entries of the id go.                *)
LEMMA DisarmShape ==
    ASSUME IInv, NEW id \in Ids, Disarm(id)
    PROVE  /\ DOMAIN commands' = {t \in DOMAIN commands : commands[t].req.id # id}
           /\ \A t \in DOMAIN commands' : commands'[t] = commands[t]
           /\ \E h : SparedBy(h, id)
<1>. DEFINE D == {t \in DOMAIN commands : commands[t].req.id = id}
            spared == {i \in DOMAIN flushStops : flushStops[i].id # id}
<1>1. commands' = Without(commands, D)  BY DEF Disarm
<1>2. PICK h \in Listings(spared, LAMBDA i : i) :
         flushStops' = [k \in DOMAIN h |-> flushStops[h[k]]]
  BY DEF Disarm
<1>3. PICK n : n = Cardinality(spared)  OBVIOUS
<1>4. n \in Nat  BY <1>3, Typed, PositionsFinite
<1>5. /\ h \in [1 .. n -> spared]
      /\ \A x \in spared : \E i \in DOMAIN h : h[i] = x
      /\ \A i, j \in DOMAIN h : i < j => h[i] < h[j]
  BY <1>3 DEF Listings
<1>6. DOMAIN h = 1 .. n /\ DOMAIN flushStops' = 1 .. n  BY <1>2, <1>5
<1>7. ASSUME NEW i \in 1 .. n, NEW j \in 1 .. n, h[i] = h[j]
      PROVE  i = j
  <2>1. h[i] \in Int
    <3>1. h[i] \in spared  BY <1>5
    <3>. QED  BY <3>1, Typed
  <2>2. i < j \/ j < i \/ i = j  BY <1>4
  <2>. QED  BY <1>5, <1>6, <1>7, <2>1, <2>2
<1>8. \A i \in 1 .. n : flushStops'[i] = flushStops[h[i]] /\ h[i] \in spared
  BY <1>2, <1>5, <1>6
<1>9. h \in [DOMAIN flushStops' -> DOMAIN flushStops]
  BY <1>5, <1>6
<1>10. CarriedBy(h)  BY <1>6, <1>7, <1>8, <1>9 DEF CarriedBy
<1>11. /\ DOMAIN commands' = {t \in DOMAIN commands : commands[t].req.id # id}
       /\ \A t \in DOMAIN commands' : commands'[t] = commands[t]
  BY <1>1 DEF Without
<1>12. /\ \A i \in DOMAIN flushStops' :
             flushStops'[i] = flushStops[h[i]] /\ flushStops[h[i]].id # id
       /\ \A i \in DOMAIN flushStops :
             flushStops[i].id # id => \E k \in DOMAIN flushStops' : h[k] = i
  BY <1>5, <1>6, <1>8
<1>13. SparedBy(h, id)  BY <1>10, <1>12 DEF SparedBy
<1>. QED  BY <1>11, <1>13

LEMMA Appended ==
    ASSUME NEW T, NEW q \in Seq(T), NEW x \in T
    PROVE  /\ Len(Append(q, x)) = Len(q) + 1
           /\ DOMAIN Append(q, x) = 1 .. Len(q) + 1
           /\ Append(q, x)[Len(q) + 1] = x
           /\ \A i \in 1 .. Len(q) : Append(q, x)[i] = q[i]
OBVIOUS

(* A flushed copy goes to the back of the queue, or off it.                *)
LEMMA RotationShape ==
    ASSUME NEW T, NEW q \in Seq(T), q # << >>, NEW x
    PROVE  /\ Len(q) \in Nat \ {0} /\ DOMAIN q = 1 .. Len(q) /\ Head(q) = q[1]
           /\ DOMAIN Tail(q) = 1 .. Len(q) - 1
           /\ \A i \in 1 .. Len(q) - 1 : Tail(q)[i] = q[i + 1]
           /\ DOMAIN Append(Tail(q), x) = 1 .. Len(q)
           /\ \A i \in 1 .. Len(q) - 1 : Append(Tail(q), x)[i] = q[i + 1]
           /\ Append(Tail(q), x)[Len(q)] = x
<1>1. Len(q) \in Nat \ {0} /\ DOMAIN q = 1 .. Len(q) /\ Head(q) = q[1]  OBVIOUS
<1>2. PICK r : r = Tail(q)  OBVIOUS
<1>3. r \in Seq(T) /\ Len(r) = Len(q) - 1 /\ \A i \in 1 .. Len(q) - 1 : r[i] = q[i + 1]
  BY <1>1, <1>2
<1>4. r \in Seq(T \cup {x})  BY <1>3
<1>5. PICK a : a = Append(r, x)  OBVIOUS
<1>6. /\ DOMAIN a = 1 .. Len(q) /\ a[Len(q)] = x
      /\ \A i \in 1 .. Len(q) - 1 : a[i] = r[i]
  <2>1. PICK m : m = Len(q)  OBVIOUS
  <2>2. m \in Nat /\ Len(r) = m - 1 /\ Len(r) + 1 = m  BY <1>1, <1>3, <2>1
  <2>3. x \in T \cup {x}  OBVIOUS
  <2>4. /\ DOMAIN a = 1 .. Len(r) + 1 /\ a[Len(r) + 1] = x
        /\ \A i \in 1 .. Len(r) : a[i] = r[i]
    BY <1>4, <1>5, <2>3, Appended
  <2>. QED  BY <2>1, <2>2, <2>4
<1>7. DOMAIN r = 1 .. Len(q) - 1  BY <1>1, <1>3
<1>. QED  BY <1>1, <1>2, <1>3, <1>5, <1>6, <1>7

LEMMA SendFlushStopShape ==
    ASSUME IInv, SendFlushStop
    PROVE  /\ 1 \in DOMAIN flushStops
           /\ commands' = Armed
           /\ \E h : FirstPaidBy(h)
<1>1. PICK n : n = Len(flushStops)  OBVIOUS
<1>2. PICK e : e = flushStops[1]  OBVIOUS
<1>3. PICK back : back = [e EXCEPT !.remaining = @ - 1]  OBVIOUS
<1>4. flushStops \in Seq(QueuedStop) /\ flushStops # << >> /\ commands' = Armed
  BY Typed DEF SendFlushStop, FlushTurn
<1>5. /\ n \in Nat \ {0} /\ DOMAIN flushStops = 1 .. n /\ Head(flushStops) = e
      /\ DOMAIN Tail(flushStops) = 1 .. n - 1
      /\ \A i \in 1 .. n - 1 : Tail(flushStops)[i] = flushStops[i + 1]
      /\ DOMAIN Append(Tail(flushStops), back) = 1 .. n
      /\ \A i \in 1 .. n - 1 : Append(Tail(flushStops), back)[i] = flushStops[i + 1]
      /\ Append(Tail(flushStops), back)[n] = back
  BY <1>1, <1>2, <1>4, RotationShape
<1>6. flushStops' = IF e.remaining > 1 THEN Append(Tail(flushStops), back) ELSE Tail(flushStops)
  BY <1>3, <1>5 DEF SendFlushStop
<1>7. e \in QueuedStop  BY <1>2, <1>5, Typed
<1>8. back.id = e.id /\ back.stop = e.stop /\ back.remaining = e.remaining - 1
  BY <1>3, <1>7 DEF QueuedStop
<1>9. CASE e.remaining > 1
  <2>. DEFINE h == [i \in 1 .. n |-> IF i = n THEN 1 ELSE i + 1]
  <2>1. /\ DOMAIN flushStops' = 1 .. n /\ flushStops'[n] = back
        /\ \A i \in 1 .. n - 1 : flushStops'[i] = flushStops[i + 1]
    BY <1>5, <1>6, <1>9
  <2>2. /\ \A i \in 1 .. n : h[i] \in 1 .. n /\ (h[i] = 1 <=> i = n)
        /\ \A i, j \in 1 .. n : h[i] = h[j] => i = j
        /\ \A j \in 1 .. n : \E i \in 1 .. n : h[i] = j
    <3>1. \A i \in 1 .. n : h[i] \in 1 .. n /\ (h[i] = 1 <=> i = n)  BY <1>5
    <3>2. \A i, j \in 1 .. n : h[i] = h[j] => i = j  BY <1>5
    <3>3. ASSUME NEW j \in 1 .. n PROVE \E i \in 1 .. n : h[i] = j
      <4>1. CASE j = 1  BY <1>5, <4>1
      <4>2. CASE j # 1
        <5>1. j - 1 \in 1 .. n /\ j - 1 # n  BY <1>5, <4>2
        <5>2. h[j - 1] = j  BY <5>1
        <5>. QED  BY <5>1, <5>2
      <4>. QED  BY <4>1, <4>2
    <3>. QED  BY <3>1, <3>2, <3>3
  <2>3. h \in [DOMAIN flushStops' -> DOMAIN flushStops]  BY <1>5, <2>1, <2>2
  <2>4. ASSUME NEW i \in 1 .. n
        PROVE  IF h[i] = 1 THEN flushStops'[i] = back ELSE flushStops'[i] = flushStops[h[i]]
    <3>1. CASE i = n  BY <2>1, <2>2, <3>1
    <3>2. CASE i # n
      <4>1. i \in 1 .. n - 1  BY <1>5, <3>2
      <4>. QED  BY <2>1, <2>2, <3>2, <4>1
    <3>. QED  BY <3>1, <3>2
  <2>5. CarriedBy(h)
    <3>1. \A i \in 1 .. n : flushStops'[i].id = flushStops[h[i]].id
                            /\ flushStops'[i].stop = flushStops[h[i]].stop
      BY <1>2, <1>8, <2>4
    <3>. QED  BY <2>1, <2>2, <2>3, <3>1 DEF CarriedBy
  <2>6. PICK g : g = h  OBVIOUS
  <2>. HIDE DEF h
  <2>7. /\ \A i \in DOMAIN flushStops' :
              IF g[i] = 1
              THEN flushStops[1].remaining > 1
                   /\ flushStops'[i].remaining = flushStops[1].remaining - 1
              ELSE flushStops'[i] = flushStops[g[i]]
        /\ \A j \in DOMAIN flushStops : \E i \in DOMAIN flushStops' : g[i] = j
    BY <1>2, <1>5, <1>8, <1>9, <2>1, <2>2, <2>4, <2>6
  <2>8. CarriedBy(g)  BY <2>5, <2>6
  <2>9. FirstPaidBy(g)  BY <2>7, <2>8 DEF FirstPaidBy
  <2>. QED  BY <1>4, <1>5, <2>9
<1>10. CASE ~ (e.remaining > 1)
  <2>. DEFINE h == [i \in 1 .. n - 1 |-> i + 1]
  <2>1. /\ DOMAIN flushStops' = 1 .. n - 1
        /\ \A i \in 1 .. n - 1 : flushStops'[i] = flushStops[i + 1]
    BY <1>5, <1>6, <1>10
  <2>2. /\ \A i \in 1 .. n - 1 : h[i] = i + 1 /\ h[i] \in 1 .. n /\ h[i] # 1
        /\ \A i, j \in 1 .. n - 1 : h[i] = h[j] => i = j
    BY <1>5
  <2>3. h \in [DOMAIN flushStops' -> DOMAIN flushStops]  BY <1>5, <2>1, <2>2
  <2>4. CarriedBy(h)  BY <2>1, <2>2, <2>3 DEF CarriedBy
  <2>5. ASSUME NEW j \in 1 .. n, j # 1 PROVE \E i \in 1 .. n - 1 : h[i] = j
    <3>1. j - 1 \in 1 .. n - 1  BY <1>5, <2>5
    <3>2. h[j - 1] = j  BY <3>1
    <3>. QED  BY <3>1, <3>2
  <2>6. PICK g : g = h  OBVIOUS
  <2>. HIDE DEF h
  <2>7. \A i \in DOMAIN flushStops' : g[i] # 1 /\ flushStops'[i] = flushStops[g[i]]
    BY <2>1, <2>2, <2>6
  <2>9. \A j \in DOMAIN flushStops : j # 1 => \E i \in DOMAIN flushStops' : g[i] = j
    BY <1>5, <2>1, <2>5, <2>6
  <2>8. CarriedBy(g)  BY <2>4, <2>6
  <2>10. FirstPaidBy(g)  BY <1>2, <1>10, <2>7, <2>8, <2>9 DEF FirstPaidBy
  <2>. QED  BY <1>4, <1>5, <2>10
<1>. QED  BY <1>9, <1>10

LEMMA Concatenated ==
    ASSUME NEW T, NEW p \in Seq(T), NEW m \in Nat, NEW f \in [1 .. m -> T]
    PROVE  /\ DOMAIN (p \o f) = 1 .. Len(p) + m
           /\ \A i \in 1 .. Len(p) : (p \o f)[i] = p[i]
           /\ \A k \in 1 .. m : (p \o f)[Len(p) + k] = f[k]
<1>1. PICK q : q = f  OBVIOUS
<1>2. q \in Seq(T) /\ Len(q) = m  BY <1>1
<1>3. /\ DOMAIN (p \o q) = 1 .. Len(p) + Len(q)
      /\ \A i \in 1 .. Len(p) : (p \o q)[i] = p[i]
      /\ \A k \in 1 .. Len(q) : (p \o q)[Len(p) + k] = q[k]
  BY <1>2
<1>. QED  BY <1>1, <1>2, <1>3

(* displace_overlapping_ and the insertion: the overlapped commands go,    *)
(* each one that owes its STOP to an entry of its own at the back of the   *)
(* queue, and the new command enters, owing nothing.                       *)
MovedBy(debtors, m, D) ==
    /\ m \in Nat
    /\ debtors \in [1 .. m -> Owing(D)]
    /\ \A t \in Owing(D) : \E k \in 1 .. m : debtors[k] = t
    /\ \A j, k \in 1 .. m : debtors[j] = debtors[k] => j = k
    /\ DOMAIN flushStops' = 1 .. Len(flushStops) + m
    /\ \A i \in 1 .. Len(flushStops) : flushStops'[i] = flushStops[i]
    /\ \A k \in 1 .. m : flushStops'[Len(flushStops) + k] = FlushStop(commands[debtors[k]])

LEMMA AdmitShape ==
    ASSUME IInv, NEW r \in Requests, Admit(r)
    PROVE  /\ r.id \notin ActiveIds(commands, flushStops)
           /\ \A s \in Slots : recent[s].id # r.id
           /\ r.target \notin Retained(r.target)
           /\ DOMAIN commands' = Retained(r.target) \cup {r.target}
           /\ commands'[r.target] = NewCommand(r)
           /\ \A t \in Retained(r.target) : commands'[t] = commands[t]
           /\ \E debtors, m : MovedBy(debtors, m, Overlapped(r.target))
<1>. DEFINE D == Overlapped(r.target)
<1>1. PICK debtors \in InMapOrder(Owing(D)) :
         /\ flushStops' = flushStops \o [k \in DOMAIN debtors |-> FlushStop(commands[debtors[k]])]
         /\ commands' = With(Without(commands, D), r.target, NewCommand(r))
  BY DEF Admit
<1>2. r.target \notin Retained(r.target)
  <2>1. r.target.mask # {}  BY RequestAssumption
  <2>. QED  BY <2>1 DEF Retained, Overlapped
<1>3. /\ DOMAIN commands' = Retained(r.target) \cup {r.target}
      /\ commands'[r.target] = NewCommand(r)
      /\ \A t \in Retained(r.target) : commands'[t] = commands[t]
  BY <1>1, <1>2 DEF Retained, Without, With
<1>4. PICK m : m = Cardinality(Owing(D))  OBVIOUS
<1>5. D \subseteq DOMAIN commands /\ Owing(D) \subseteq DOMAIN commands
  BY DEF Overlapped, Owing
<1>6. m \in Nat  BY <1>4, <1>5, CountsFinite
<1>7. /\ debtors \in [1 .. m -> Owing(D)]
      /\ \A t \in Owing(D) : \E k \in DOMAIN debtors : debtors[k] = t
      /\ \A j, k \in DOMAIN debtors : j < k => debtors[j].key < debtors[k].key
  BY <1>4 DEF InMapOrder, Listings
<1>8. DOMAIN debtors = 1 .. m  BY <1>7
<1>9. ASSUME NEW j \in 1 .. m, NEW k \in 1 .. m, debtors[j] = debtors[k]
      PROVE  j = k
  <2>1. debtors[j].key \in Int
    <3>1. debtors[j] \in Targets  BY <1>5, <1>7 DEF IInv, TypeOK
    <3>2. \A t \in Targets : t.key \in Nat  BY RequestAssumption DEF Targets
    <3>. QED  BY <3>1, <3>2
  <2>2. j < k \/ k < j \/ j = k  BY <1>6
  <2>. QED  BY <1>7, <1>8, <1>9, <2>1, <2>2
<1>10. PICK f : f = [k \in DOMAIN debtors |-> FlushStop(commands[debtors[k]])]  OBVIOUS
<1>11. DOMAIN f = 1 .. m /\ \A k \in 1 .. m : f[k] = FlushStop(commands[debtors[k]])
  BY <1>8, <1>10
<1>12. PICK T : T = {FlushStop(commands[t]) : t \in Owing(D)} \cup QueuedStop  OBVIOUS
<1>13. f \in [1 .. m -> T]  BY <1>7, <1>8, <1>10, <1>12
<1>14. flushStops \in Seq(T)  BY <1>12, Typed
<1>15. flushStops' = flushStops \o f  BY <1>1, <1>10
<1>16. /\ DOMAIN flushStops' = 1 .. Len(flushStops) + m
       /\ \A i \in 1 .. Len(flushStops) : flushStops'[i] = flushStops[i]
       /\ \A k \in 1 .. m : flushStops'[Len(flushStops) + k] = f[k]
  BY <1>6, <1>13, <1>14, <1>15, Concatenated
<1>17. MovedBy(debtors, m, D)
  BY <1>6, <1>7, <1>8, <1>9, <1>11, <1>16 DEF MovedBy
<1>18. r.id \notin ActiveIds(commands, flushStops) /\ \A s \in Slots : recent[s].id # r.id
  BY DEF Admit, IsDuplicate, SeenRecently
<1>. QED  BY <1>2, <1>3, <1>17, <1>18

LEMMA ArmedKept ==
    ASSUME IInv, commands' = Armed
    PROVE  KeptCommands
<1>1. DOMAIN Armed = DOMAIN commands  BY DEF Armed
<1>. QED  BY <1>1, ArmedShape DEF KeptCommands

LEMMA DispatchKept ==
    ASSUME IInv, NEW i \in Entries, Dispatch(i)
    PROVE  KeptCommands /\ UNCHANGED flushStops
<1>1. /\ DOMAIN commands' \subseteq DOMAIN commands
      /\ \A t \in DOMAIN commands' :
            commands'[t] = IF t = order[i + 1] THEN Handed(Armed[t]) ELSE Armed[t]
      /\ UNCHANGED flushStops
  BY DispatchCommands
<1>2. \A t \in DOMAIN commands : Armed[t].req = commands[t].req /\ Handed(Armed[t]).req = commands[t].req
  BY ArmedShape, HandedShape, Typed
<1>. QED  BY <1>1, <1>2 DEF KeptCommands

(* Only an admission brings anything in.                                   *)
LEMMA StepKeeps ==
    ASSUME IInv, [Next]_vars, ~ \E r \in Requests : Admit(r)
    PROVE  KeptCommands /\ \E h : CarriedBy(h)
<1>1. CASE \E r \in Requests : Refuse(r)
  <2>1. UNCHANGED <<commands, flushStops>>  BY <1>1 DEF Refuse
  <2>. QED  BY <2>1, UnchangedCarried DEF KeptCommands
<1>2. CASE \E id \in Ids : Disarm(id)
  <2>1. PICK id \in Ids : Disarm(id)  BY <1>2
  <2>2. KeptCommands  BY <2>1, DisarmShape DEF KeptCommands
  <2>3. \E h : CarriedBy(h)  BY <2>1, DisarmShape DEF SparedBy
  <2>. QED  BY <2>2, <2>3
<1>3. CASE DrainArmedStops
  <2>1. DOMAIN commands' = {} /\ DOMAIN flushStops' = {}  BY <1>3 DEF DrainArmedStops
  <2>2. CarriedBy([i \in {} |-> i])  BY <2>1 DEF CarriedBy
  <2>. QED  BY <2>1, <2>2 DEF KeptCommands
<1>4. CASE Poll
  <2>1. CASE PollIdle
    <3>1. UNCHANGED <<commands, flushStops>>  BY <2>1 DEF PollIdle
    <3>. QED  BY <3>1, UnchangedCarried DEF KeptCommands
  <2>2. CASE PollAirBusy \/ PollNothingDue
    <3>1. commands' = Armed /\ UNCHANGED flushStops  BY <2>2 DEF PollAirBusy, PollNothingDue
    <3>. QED  BY <3>1, ArmedKept, UnchangedCarried
  <2>3. CASE SendFlushStop  BY <2>3, SendFlushStopShape, ArmedKept DEF FirstPaidBy
  <2>4. CASE SendScheduledStop \/ SendAction
    <3>1. PICK i \in Entries : Dispatch(i)
      BY <2>4 DEF SendScheduledStop, SendAction, ActionCandidates, FirstFromCursor, StopReady,
                  ActionReady, AirOwners
    <3>. QED  BY <3>1, DispatchKept, UnchangedCarried
  <2>. QED  BY <1>4, <2>1, <2>2, <2>3, <2>4 DEF Poll, NextCall
<1>5. CASE Elapse
  <2>1. UNCHANGED <<commands, flushStops>>  BY <1>5 DEF Elapse, schedulerVars
  <2>. QED  BY <2>1, UnchangedCarried DEF KeptCommands
<1>6. CASE UNCHANGED vars
  <2>1. UNCHANGED <<commands, flushStops>>  BY <1>6 DEF vars
  <2>. QED  BY <2>1, UnchangedCarried DEF KeptCommands
<1>. QED  BY <1>1, <1>2, <1>3, <1>4, <1>5, <1>6 DEF Next

-----------------------------------------------------------------------------
(* The budgets of schedule().  What each command and each queue entry       *)
(* weighs does not depend on its progress, a command that leaves for the   *)
(* queue weighs less there, and admission counts all that will remain.     *)
HeldBytes == [t \in DOMAIN commands |-> StoredBytes(commands[t].req)]
QueuedBytes == [i \in DOMAIN flushStops |-> flushStops[i].stop.bytes]
TimedTargets == {u \in DOMAIN commands : Timed(commands[u].req)}
HeldStops == [t \in TimedTargets |-> Occupancy(commands[t].req.stop)]
QueuedStops == [i \in DOMAIN flushStops |-> Occupancy(flushStops[i].stop)]

BudgetsKept == StorageWithinBudget /\ FirstStopsWithinBudget
SInv == IInv /\ BudgetsKept

LEMMA StoredType == \A r \in Requests : StoredBytes(r) \in Nat /\ r.stop.bytes \in Nat
                                            /\ r.stop.bytes <= StoredBytes(r)
<1>. SUFFICES ASSUME NEW r \in Requests
              PROVE  StoredBytes(r) \in Nat /\ r.stop.bytes \in Nat /\ r.stop.bytes <= StoredBytes(r)
  OBVIOUS
<1>1. r.raw.bytes \in Nat /\ r.trailer.bytes \in Nat /\ r.stop.bytes \in Nat
  BY RequestAssumption
<1>. QED  BY <1>1 DEF StoredBytes

LEMMA WeighedNow ==
    ASSUME IInv
    PROVE  /\ Weights(HeldBytes) /\ Weights(QueuedBytes)
           /\ Weights(HeldStops) /\ Weights(QueuedStops)
<1>1. /\ IsFiniteSet(DOMAIN commands)
      /\ \A t \in DOMAIN commands : commands[t].req \in Requests
  BY CountsFinite, Typed DEF Command
<1>2. /\ IsFiniteSet(DOMAIN flushStops)
      /\ \A i \in DOMAIN flushStops : flushStops[i] \in QueuedStop
  BY Typed, IntervalCount
<1>3. IsFiniteSet(TimedTargets)
  <2>1. TimedTargets \subseteq DOMAIN commands  BY DEF TimedTargets
  <2>. QED  BY <1>1, <2>1, FS_Subset
<1>4. \A t \in DOMAIN commands : StoredBytes(commands[t].req) \in Nat
  BY <1>1, StoredType
<1>5. \A t \in TimedTargets : Occupancy(commands[t].req.stop) \in Nat
  <2>1. \A t \in TimedTargets : commands[t].req.stop \in Frames  BY <1>1 DEF TimedTargets, Frames
  <2>. QED  BY <2>1, OccupancyType
<1>6. \A i \in DOMAIN flushStops :
         flushStops[i].stop.bytes \in Nat /\ Occupancy(flushStops[i].stop) \in Nat
  BY <1>2, FrameType, OccupancyType DEF QueuedStop
<1>. QED
  BY <1>1, <1>2, <1>3, <1>4, <1>5, <1>6
  DEF Weights, HeldBytes, QueuedBytes, HeldStops, QueuedStops

WeighedAll ==
    /\ Weights(HeldBytes) /\ Weights(QueuedBytes)
    /\ Weights(HeldStops) /\ Weights(QueuedStops)

LEMMA Weighed == IInv => WeighedAll
BY WeighedNow DEF WeighedAll

LEMMA WeighedThen == IInv' => WeighedAll'
BY Weighed, PTL

(* Whatever is not an admission brings no weight in.                       *)
LEMMA KeptBudgets ==
    ASSUME SInv, IInv', KeptCommands, NEW h, CarriedBy(h)
    PROVE  BudgetsKept'
<1>1. /\ Weights(HeldBytes) /\ Weights(QueuedBytes)
      /\ Weights(HeldStops) /\ Weights(QueuedStops)
      /\ Weights(HeldBytes') /\ Weights(QueuedBytes')
      /\ Weights(HeldStops') /\ Weights(QueuedStops')
  BY Weighed, WeighedThen DEF SInv, WeighedAll
<1>2. SumFunction(HeldBytes') <= SumFunction(HeldBytes)
  <2>1. /\ DOMAIN HeldBytes' = DOMAIN commands' /\ DOMAIN HeldBytes = DOMAIN commands
        /\ \A t \in DOMAIN commands' : HeldBytes'[t] = StoredBytes(commands'[t].req)
        /\ \A t \in DOMAIN commands : HeldBytes[t] = StoredBytes(commands[t].req)
    BY DEF HeldBytes, StoredBytes
  <2>2. /\ DOMAIN HeldBytes' \subseteq DOMAIN HeldBytes
        /\ \A t \in DOMAIN HeldBytes' : HeldBytes'[t] = HeldBytes[t]
    BY <2>1 DEF KeptCommands
  <2>. QED  BY <1>1, <2>2, SumDrops
<1>3. SumFunction(HeldStops') <= SumFunction(HeldStops)
  <2>1. /\ DOMAIN HeldStops' = TimedTargets' /\ DOMAIN HeldStops = TimedTargets
        /\ \A t \in TimedTargets' : HeldStops'[t] = Occupancy(commands'[t].req.stop)
        /\ \A t \in TimedTargets : HeldStops[t] = Occupancy(commands[t].req.stop)
    BY DEF HeldStops
  <2>2. TimedTargets' \subseteq TimedTargets
    BY DEF TimedTargets, KeptCommands, Timed
  <2>3. \A t \in TimedTargets' : commands'[t].req = commands[t].req
    BY DEF TimedTargets, KeptCommands
  <2>4. /\ DOMAIN HeldStops' \subseteq DOMAIN HeldStops
        /\ \A t \in DOMAIN HeldStops' : HeldStops'[t] = HeldStops[t]
    BY <2>1, <2>2, <2>3
  <2>. QED  BY <1>1, <2>4, SumDrops
<1>4. SumFunction(QueuedBytes') <= SumFunction(QueuedBytes)
  <2>1. /\ DOMAIN QueuedBytes' = DOMAIN flushStops' /\ DOMAIN QueuedBytes = DOMAIN flushStops
        /\ \A i \in DOMAIN flushStops' : QueuedBytes'[i] = flushStops'[i].stop.bytes
        /\ \A i \in DOMAIN flushStops : QueuedBytes[i] = flushStops[i].stop.bytes
    BY DEF QueuedBytes
  <2>2. /\ h \in [DOMAIN QueuedBytes' -> DOMAIN QueuedBytes]
        /\ \A i, j \in DOMAIN QueuedBytes' : h[i] = h[j] => i = j
        /\ \A i \in DOMAIN QueuedBytes' : QueuedBytes'[i] = QueuedBytes[h[i]]
    BY <2>1 DEF CarriedBy
  <2>. QED  BY <1>1, <2>2, SumSelects
<1>5. SumFunction(QueuedStops') <= SumFunction(QueuedStops)
  <2>1. /\ DOMAIN QueuedStops' = DOMAIN flushStops' /\ DOMAIN QueuedStops = DOMAIN flushStops
        /\ \A i \in DOMAIN flushStops' : QueuedStops'[i] = Occupancy(flushStops'[i].stop)
        /\ \A i \in DOMAIN flushStops : QueuedStops[i] = Occupancy(flushStops[i].stop)
    BY DEF QueuedStops
  <2>2. /\ h \in [DOMAIN QueuedStops' -> DOMAIN QueuedStops]
        /\ \A i, j \in DOMAIN QueuedStops' : h[i] = h[j] => i = j
        /\ \A i \in DOMAIN QueuedStops' : QueuedStops'[i] = QueuedStops[h[i]]
    BY <2>1 DEF CarriedBy
  <2>. QED  BY <1>1, <2>2, SumSelects
<1>6. /\ SumFunction(HeldBytes') \in Nat /\ SumFunction(HeldBytes) \in Nat
      /\ SumFunction(QueuedBytes') \in Nat /\ SumFunction(QueuedBytes) \in Nat
      /\ SumFunction(HeldStops') \in Nat /\ SumFunction(HeldStops) \in Nat
      /\ SumFunction(QueuedStops') \in Nat /\ SumFunction(QueuedStops) \in Nat
  BY <1>1, SumType
<1>7. /\ SumFunction(HeldBytes) + SumFunction(QueuedBytes) <= MaxTotalFrameBytes
      /\ SumFunction(HeldStops) + SumFunction(QueuedStops) <= MaxFirstStopOccupancy
  BY DEF SInv, BudgetsKept, StorageWithinBudget, FirstStopsWithinBudget,
         HeldBytes, QueuedBytes, HeldStops, QueuedStops, TimedTargets
<1>8. /\ SumFunction(HeldBytes') + SumFunction(QueuedBytes') <= MaxTotalFrameBytes
      /\ SumFunction(HeldStops') + SumFunction(QueuedStops') <= MaxFirstStopOccupancy
  <2>1. MaxTotalFrameBytes \in Nat /\ MaxFirstStopOccupancy \in Nat  BY LimitAssumption
  <2>. QED  BY <1>2, <1>3, <1>4, <1>5, <1>6, <1>7, <2>1
<1>. QED
  BY <1>8
  DEF BudgetsKept, StorageWithinBudget, FirstStopsWithinBudget, StoredBytes, Occupancy,
      HeldBytes, QueuedBytes, HeldStops, QueuedStops, TimedTargets, Timed

(* The part of the queue that was there, and the part that joined it, as   *)
(* terms of a sum: what each entry weighs is w of what it holds.           *)
LEMMA QueueGrows ==
    ASSUME NEW old, NEW new, Weights(old), Weights(new), NEW n \in Nat, NEW m \in Nat,
           DOMAIN old = 1 .. n, DOMAIN new = 1 .. n + m,
           \A i \in 1 .. n : new[i] = old[i],
           NEW moved, Weights(moved), NEW d \in [1 .. m -> DOMAIN moved],
           \A j, k \in 1 .. m : d[j] = d[k] => j = k,
           \A k \in 1 .. m : new[n + k] = moved[d[k]]
    PROVE  SumFunction(new) <= SumFunction(old) + SumFunction(moved)
<1>1. PICK front : front = [i \in 1 .. n |-> new[i]]  OBVIOUS
<1>2. PICK back : back = [i \in (n + 1) .. (n + m) |-> new[i]]  OBVIOUS
<1>3. /\ DOMAIN new = (1 .. n) \cup ((n + 1) .. (n + m))
      /\ (1 .. n) \cap ((n + 1) .. (n + m)) = {}
  <2>1. \A i : i \in 1 .. n + m <=> i \in 1 .. n \/ i \in (n + 1) .. (n + m)  OBVIOUS
  <2>2. \A i : ~ (i \in 1 .. n /\ i \in (n + 1) .. (n + m))  OBVIOUS
  <2>. QED  BY <2>1, <2>2
<1>4. SumFunction(new) = SumFunction(front) + SumFunction(back)
  <2>1. PICK A, B : A = 1 .. n /\ B = (n + 1) .. (n + m)  OBVIOUS
  <2>2. DOMAIN new = A \cup B /\ A \cap B = {}  BY <1>3, <2>1
  <2>3. SumFunction(new) = SumFunction([i \in A |-> new[i]]) + SumFunction([i \in B |-> new[i]])
    BY <2>2, SumSplits
  <2>. QED  BY <1>1, <1>2, <2>1, <2>3
<1>5. Weights(front) /\ Weights(back)
  <2>1. DOMAIN front \subseteq DOMAIN new /\ DOMAIN back \subseteq DOMAIN new  BY <1>1, <1>2, <1>3
  <2>2. IsFiniteSet(DOMAIN front) /\ IsFiniteSet(DOMAIN back)  BY <2>1, FS_Subset DEF Weights
  <2>. QED  BY <1>1, <1>2, <2>1, <2>2 DEF Weights
<1>6. SumFunction(front) <= SumFunction(old)
  <2>1. DOMAIN front = DOMAIN old /\ \A i \in DOMAIN front : front[i] = old[i]  BY <1>1
  <2>. QED  BY <1>5, <2>1, SumDrops
<1>7. SumFunction(back) <= SumFunction(moved)
  <2>1. PICK h : h = [i \in (n + 1) .. (n + m) |-> d[i - n]]  OBVIOUS
  <2>2. \A i \in (n + 1) .. (n + m) : i - n \in 1 .. m /\ i = n + (i - n)  OBVIOUS
  <2>3. h \in [DOMAIN back -> DOMAIN moved]  BY <1>2, <2>1, <2>2
  <2>4. \A i, j \in DOMAIN back : h[i] = h[j] => i = j
    <3>. SUFFICES ASSUME NEW i \in DOMAIN back, NEW j \in DOMAIN back, h[i] = h[j] PROVE i = j
      OBVIOUS
    <3>1. d[i - n] = d[j - n] /\ i - n \in 1 .. m /\ j - n \in 1 .. m  BY <1>2, <2>1, <2>2
    <3>2. i - n = j - n  BY <3>1
    <3>. QED  BY <1>2, <3>2
  <2>5. \A i \in DOMAIN back : back[i] = moved[h[i]]
    <3>. SUFFICES ASSUME NEW i \in DOMAIN back PROVE back[i] = moved[h[i]]  OBVIOUS
    <3>1. PICK k \in 1 .. m : k = i - n /\ i = n + k  BY <1>2, <2>2
    <3>2. back[i] = new[n + k] /\ h[i] = d[k]  BY <1>2, <2>1, <3>1
    <3>. QED  BY <3>2
  <2>. QED  BY <1>5, <2>3, <2>4, <2>5, SumSelects
<1>8. /\ SumFunction(front) \in Nat /\ SumFunction(back) \in Nat
      /\ SumFunction(old) \in Nat /\ SumFunction(moved) \in Nat
  BY <1>5, SumType
<1>. QED  BY <1>4, <1>6, <1>7, <1>8

(* The frames of the commands r displaces and retains.                     *)
RetainedBytes(r) == [t \in Retained(r.target) |-> StoredBytes(commands[t].req)]
MovedBytes(r) == [t \in Owing(Overlapped(r.target)) |-> commands[t].req.stop.bytes]
ReservedFor(r) == {u \in Retained(r.target) : Timed(commands[u].req)}
ReservedStops(r) == [t \in ReservedFor(r) |-> Occupancy(commands[t].req.stop)]
MovedStops(r) == [t \in Owing(Overlapped(r.target)) |-> Occupancy(commands[t].req.stop)]
DemandStops(r) ==
    [t \in ReservedFor(r) \cup Owing(Overlapped(r.target)) |-> Occupancy(commands[t].req.stop)]

LEMMA WeighedParts ==
    ASSUME IInv, NEW r \in Requests
    PROVE  /\ Weights(RetainedBytes(r)) /\ Weights(MovedBytes(r))
           /\ Weights(ReservedStops(r)) /\ Weights(MovedStops(r)) /\ Weights(DemandStops(r))
<1>1. /\ IsFiniteSet(DOMAIN commands)
      /\ \A t \in DOMAIN commands : commands[t].req \in Requests
  BY CountsFinite, Typed DEF Command
<1>2. /\ Retained(r.target) \subseteq DOMAIN commands
      /\ Owing(Overlapped(r.target)) \subseteq DOMAIN commands
      /\ ReservedFor(r) \subseteq DOMAIN commands
      /\ ReservedFor(r) \cup Owing(Overlapped(r.target)) \subseteq DOMAIN commands
  BY DEF Retained, Owing, Overlapped, ReservedFor
<1>3. /\ IsFiniteSet(Retained(r.target)) /\ IsFiniteSet(Owing(Overlapped(r.target)))
      /\ IsFiniteSet(ReservedFor(r))
      /\ IsFiniteSet(ReservedFor(r) \cup Owing(Overlapped(r.target)))
  BY <1>1, <1>2, FS_Subset
<1>4. \A t \in DOMAIN commands : /\ StoredBytes(commands[t].req) \in Nat
                                 /\ commands[t].req.stop.bytes \in Nat
  BY <1>1, StoredType
<1>5. \A t \in DOMAIN commands : Occupancy(commands[t].req.stop) \in Nat
  <2>1. \A t \in DOMAIN commands : commands[t].req.stop \in Frames  BY <1>1 DEF Frames
  <2>. QED  BY <2>1, OccupancyType
<1>6. Weights(RetainedBytes(r))  BY <1>2, <1>3, <1>4 DEF Weights, RetainedBytes
<1>7. Weights(MovedBytes(r))  BY <1>2, <1>3, <1>4 DEF Weights, MovedBytes
<1>8. Weights(ReservedStops(r))  BY <1>2, <1>3, <1>5 DEF Weights, ReservedStops
<1>9. Weights(MovedStops(r))  BY <1>2, <1>3, <1>5 DEF Weights, MovedStops
<1>10. Weights(DemandStops(r))  BY <1>2, <1>3, <1>5 DEF Weights, DemandStops
<1>. QED  BY <1>6, <1>7, <1>8, <1>9, <1>10

LEMMA AdmittedHeld ==
    ASSUME IInv, NEW r \in Requests, Admit(r)
    PROVE  /\ DOMAIN commands' = Retained(r.target) \cup {r.target}
           /\ Retained(r.target) \cap {r.target} = {}
           /\ commands'[r.target].req = r
           /\ \A t \in Retained(r.target) : commands'[t].req = commands[t].req
<1>1. /\ DOMAIN commands' = Retained(r.target) \cup {r.target}
      /\ r.target \notin Retained(r.target)
      /\ commands'[r.target] = NewCommand(r)
      /\ \A t \in Retained(r.target) : commands'[t] = commands[t]
  BY AdmitShape
<1>2. NewCommand(r).req = r  BY DEF NewCommand
<1>. QED  BY <1>1, <1>2

(* What admission counted is what is held afterwards.                      *)
LEMMA AdmittedBytes ==
    ASSUME IInv, IInv', NEW r \in Requests, Admit(r)
    PROVE  SumFunction(HeldBytes') + SumFunction(QueuedBytes') <= MaxTotalFrameBytes
<1>1. PICK debtors, m : MovedBy(debtors, m, Overlapped(r.target))  BY AdmitShape
<1>2. /\ Weights(HeldBytes') /\ Weights(QueuedBytes') /\ Weights(QueuedBytes)
  BY Weighed, WeighedThen DEF WeighedAll
<1>3. Weights(RetainedBytes(r)) /\ Weights(MovedBytes(r))  BY WeighedParts
<1>4. SumFunction(HeldBytes') = SumFunction(RetainedBytes(r)) + StoredBytes(r)
  <2>1. PICK w : w = HeldBytes'  OBVIOUS
  <2>2. /\ DOMAIN w = Retained(r.target) \cup {r.target}
        /\ Retained(r.target) \cap {r.target} = {}
        /\ w[r.target] = StoredBytes(r)
        /\ \A t \in Retained(r.target) : w[t] = StoredBytes(commands[t].req)
    <3>1. /\ DOMAIN w = DOMAIN commands'
          /\ \A t \in DOMAIN commands' : w[t] = StoredBytes(commands'[t].req)
      BY <2>1 DEF HeldBytes, StoredBytes
    <3>2. PICK c : c = commands'  OBVIOUS
    <3>3. /\ DOMAIN c = Retained(r.target) \cup {r.target}
          /\ Retained(r.target) \cap {r.target} = {}
          /\ c[r.target].req = r
          /\ \A t \in Retained(r.target) : c[t].req = commands[t].req
      BY <3>2, AdmittedHeld
    <3>4. \A t \in DOMAIN c : w[t] = StoredBytes(c[t].req)  BY <3>1, <3>2
    <3>5. w[r.target] = StoredBytes(r)  BY <3>3, <3>4
    <3>6. \A t \in Retained(r.target) : w[t] = StoredBytes(commands[t].req)  BY <3>3, <3>4
    <3>. QED  BY <3>1, <3>2, <3>3, <3>5, <3>6
  <2>3. SumFunction(w) = SumFunction([t \in Retained(r.target) |-> w[t]])
                         + SumFunction([t \in {r.target} |-> w[t]])
    BY <1>2, <2>1, <2>2, SumSplits
  <2>4. [t \in Retained(r.target) |-> w[t]] = RetainedBytes(r)  BY <2>2 DEF RetainedBytes
  <2>5. [t \in {r.target} |-> w[t]] = [t \in {r.target} |-> StoredBytes(r)]  BY <2>2
  <2>6. SumFunction([t \in {r.target} |-> StoredBytes(r)]) = StoredBytes(r)
    BY StoredType, SumOfOne
  <2>. QED  BY <2>1, <2>3, <2>4, <2>5, <2>6
<1>5. SumFunction(QueuedBytes') <= SumFunction(QueuedBytes) + SumFunction(MovedBytes(r))
  <2>1. PICK new, old, moved, n : new = QueuedBytes' /\ old = QueuedBytes /\ moved = MovedBytes(r)
                                  /\ n = Len(flushStops)
    OBVIOUS
  <2>2. /\ n \in Nat /\ m \in Nat
        /\ DOMAIN old = 1 .. n /\ DOMAIN new = 1 .. n + m
        /\ DOMAIN moved = Owing(Overlapped(r.target))
    BY <1>1, <2>1, Typed DEF MovedBy, QueuedBytes, MovedBytes
  <2>3. \A i \in 1 .. n : new[i] = old[i]
    <3>1. \A i \in 1 .. n : flushStops'[i] = flushStops[i]  BY <1>1, <2>1 DEF MovedBy
    <3>2. \A i \in 1 .. n : i \in 1 .. n + m  BY <2>2
    <3>. QED  BY <2>1, <2>2, <3>1, <3>2 DEF QueuedBytes
  <2>4. debtors \in [1 .. m -> DOMAIN moved]  BY <1>1, <2>2 DEF MovedBy
  <2>5. \A j, k \in 1 .. m : debtors[j] = debtors[k] => j = k  BY <1>1 DEF MovedBy
  <2>6. \A k \in 1 .. m : new[n + k] = moved[debtors[k]]
    <3>1. \A k \in 1 .. m : flushStops'[n + k].stop = commands[debtors[k]].req.stop
      <4>1. \A k \in 1 .. m : flushStops'[n + k] = FlushStop(commands[debtors[k]])
        BY <1>1, <2>1 DEF MovedBy
      <4>2. \A c : FlushStop(c).stop = c.req.stop  BY DEF FlushStop
      <4>. QED  BY <4>1, <4>2
    <3>2. \A k \in 1 .. m : n + k \in 1 .. n + m  BY <2>2
    <3>3. \A k \in 1 .. m : debtors[k] \in Owing(Overlapped(r.target))  BY <2>2, <2>4
    <3>. QED  BY <2>1, <2>2, <3>1, <3>2, <3>3 DEF QueuedBytes, MovedBytes
  <2>7. Weights(old) /\ Weights(new) /\ Weights(moved)  BY <1>2, <1>3, <2>1
  <2>8. SumFunction(new) <= SumFunction(old) + SumFunction(moved)
    BY <2>2, <2>3, <2>4, <2>5, <2>6, <2>7, QueueGrows
  <2>. QED  BY <2>1, <2>8
<1>6. StoredBytes(r) + SumFunction(RetainedBytes(r)) + SumFunction(MovedBytes(r))
        + SumFunction(QueuedBytes) <= MaxTotalFrameBytes
  <2>1. PICK d : d = StorageDemand(r)  OBVIOUS
  <2>2. ~ (d > MaxTotalFrameBytes)  BY <2>1 DEF Admit, OverBudget
  <2>3. d = StoredBytes(r) + SumFunction(RetainedBytes(r)) + SumFunction(MovedBytes(r))
            + SumFunction(QueuedBytes)
    BY <2>1 DEF StorageDemand, RetainedBytes, MovedBytes, QueuedBytes
  <2>4. /\ StoredBytes(r) \in Nat /\ SumFunction(RetainedBytes(r)) \in Nat
        /\ SumFunction(MovedBytes(r)) \in Nat /\ SumFunction(QueuedBytes) \in Nat
    BY <1>2, <1>3, SumType, StoredType
  <2>. QED  BY <2>2, <2>3, <2>4, LimitAssumption
<1>7. /\ SumFunction(RetainedBytes(r)) \in Nat /\ SumFunction(MovedBytes(r)) \in Nat
      /\ SumFunction(QueuedBytes) \in Nat /\ SumFunction(QueuedBytes') \in Nat
      /\ StoredBytes(r) \in Nat /\ MaxTotalFrameBytes \in Nat
  BY <1>2, <1>3, SumType, StoredType, LimitAssumption
<1>. QED  BY <1>4, <1>5, <1>6, <1>7

LEMMA AdmittedStops ==
    ASSUME IInv, IInv', NEW r \in Requests, Admit(r)
    PROVE  SumFunction(HeldStops') + SumFunction(QueuedStops') <= MaxFirstStopOccupancy
<1>1. PICK debtors, m : MovedBy(debtors, m, Overlapped(r.target))  BY AdmitShape
<1>2. /\ Weights(HeldStops') /\ Weights(QueuedStops') /\ Weights(QueuedStops)
  BY Weighed, WeighedThen DEF WeighedAll
<1>3. Weights(ReservedStops(r)) /\ Weights(MovedStops(r)) /\ Weights(DemandStops(r))
  BY WeighedParts
<1>4. PICK own : own = IF Timed(r) THEN Occupancy(r.stop) ELSE 0  OBVIOUS
<1>5. own \in Nat
  <2>1. r.stop \in Frames  BY DEF Frames
  <2>. QED  BY <1>4, <2>1, OccupancyType
<1>6. SumFunction(HeldStops') = SumFunction(ReservedStops(r)) + own
  <2>1. PICK w : w = HeldStops'  OBVIOUS
  <2>2. /\ DOMAIN commands' = Retained(r.target) \cup {r.target}
        /\ r.target \notin Retained(r.target)
        /\ commands'[r.target].req = r
        /\ \A t \in Retained(r.target) : commands'[t].req = commands[t].req
    BY AdmittedHeld
  <2>3. /\ DOMAIN w = TimedTargets'
        /\ \A t \in TimedTargets' : w[t] = Occupancy(commands'[t].req.stop)
    BY <2>1 DEF HeldStops
  <2>4. ReservedFor(r) = TimedTargets' \cap Retained(r.target)
    BY <2>2 DEF ReservedFor, TimedTargets, Timed
  <2>5. \A t \in ReservedFor(r) : w[t] = Occupancy(commands[t].req.stop)
    BY <2>2, <2>3, <2>4
  <2>6. CASE Timed(r)
    <3>1. /\ DOMAIN w = ReservedFor(r) \cup {r.target} /\ ReservedFor(r) \cap {r.target} = {}
      BY <2>2, <2>3, <2>4, <2>6 DEF TimedTargets, Timed
    <3>2. w[r.target] = own  BY <1>4, <2>2, <2>3, <2>6, <3>1
    <3>3. SumFunction(w) = SumFunction([t \in ReservedFor(r) |-> w[t]])
                           + SumFunction([t \in {r.target} |-> w[t]])
      BY <1>2, <2>1, <3>1, SumSplits
    <3>4. [t \in ReservedFor(r) |-> w[t]] = ReservedStops(r)  BY <2>5 DEF ReservedStops
    <3>5. [t \in {r.target} |-> w[t]] = [t \in {r.target} |-> own]  BY <3>2
    <3>6. SumFunction([t \in {r.target} |-> own]) = own  BY <1>5, SumOfOne
    <3>. QED  BY <2>1, <3>3, <3>4, <3>5, <3>6
  <2>7. CASE ~ Timed(r)
    <3>1. DOMAIN w = ReservedFor(r)  BY <2>2, <2>3, <2>4, <2>7 DEF TimedTargets, Timed
    <3>2. w = ReservedStops(r)
      <4>1. w = [t \in TimedTargets' |-> Occupancy(commands'[t].req.stop)]
        BY <2>1 DEF HeldStops
      <4>2. w = [t \in DOMAIN w |-> w[t]]  BY <4>1
      <4>. QED  BY <2>5, <3>1, <4>2 DEF ReservedStops
    <3>3. SumFunction(ReservedStops(r)) \in Nat  BY <1>3, SumType
    <3>. QED  BY <1>4, <2>1, <2>7, <3>2, <3>3
  <2>. QED  BY <2>6, <2>7
<1>7. SumFunction(QueuedStops') <= SumFunction(QueuedStops) + SumFunction(MovedStops(r))
  <2>1. PICK new, old, moved, n : new = QueuedStops' /\ old = QueuedStops /\ moved = MovedStops(r)
                                  /\ n = Len(flushStops)
    OBVIOUS
  <2>2. /\ n \in Nat /\ m \in Nat
        /\ DOMAIN old = 1 .. n /\ DOMAIN new = 1 .. n + m
        /\ DOMAIN moved = Owing(Overlapped(r.target))
    BY <1>1, <2>1, Typed DEF MovedBy, QueuedStops, MovedStops
  <2>3. \A i \in 1 .. n : new[i] = old[i]
    <3>1. \A i \in 1 .. n : flushStops'[i] = flushStops[i]  BY <1>1, <2>1 DEF MovedBy
    <3>2. \A i \in 1 .. n : i \in 1 .. n + m  BY <2>2
    <3>. QED  BY <2>1, <2>2, <3>1, <3>2 DEF QueuedStops
  <2>4. debtors \in [1 .. m -> DOMAIN moved]  BY <1>1, <2>2 DEF MovedBy
  <2>5. \A j, k \in 1 .. m : debtors[j] = debtors[k] => j = k  BY <1>1 DEF MovedBy
  <2>6. \A k \in 1 .. m : new[n + k] = moved[debtors[k]]
    <3>1. \A k \in 1 .. m : flushStops'[n + k].stop = commands[debtors[k]].req.stop
      <4>1. \A k \in 1 .. m : flushStops'[n + k] = FlushStop(commands[debtors[k]])
        BY <1>1, <2>1 DEF MovedBy
      <4>2. \A c : FlushStop(c).stop = c.req.stop  BY DEF FlushStop
      <4>. QED  BY <4>1, <4>2
    <3>2. \A k \in 1 .. m : n + k \in 1 .. n + m  BY <2>2
    <3>3. \A k \in 1 .. m : debtors[k] \in Owing(Overlapped(r.target))  BY <2>2, <2>4
    <3>. QED  BY <2>1, <2>2, <3>1, <3>2, <3>3 DEF QueuedStops, MovedStops
  <2>7. Weights(old) /\ Weights(new) /\ Weights(moved)  BY <1>2, <1>3, <2>1
  <2>8. SumFunction(new) <= SumFunction(old) + SumFunction(moved)
    BY <2>2, <2>3, <2>4, <2>5, <2>6, <2>7, QueueGrows
  <2>. QED  BY <2>1, <2>8
<1>8. SumFunction(DemandStops(r)) = SumFunction(ReservedStops(r)) + SumFunction(MovedStops(r))
  <2>1. PICK w, A, B : w = DemandStops(r) /\ A = ReservedFor(r) /\ B = Owing(Overlapped(r.target))
    OBVIOUS
  <2>2. DOMAIN w = A \cup B /\ A \cap B = {}
    BY <2>1 DEF DemandStops, ReservedFor, Retained, Owing
  <2>3. SumFunction(w) = SumFunction([t \in A |-> w[t]]) + SumFunction([t \in B |-> w[t]])
    BY <1>3, <2>1, <2>2, SumSplits
  <2>4. [t \in A |-> w[t]] = ReservedStops(r)  BY <2>1 DEF DemandStops, ReservedStops
  <2>5. [t \in B |-> w[t]] = MovedStops(r)  BY <2>1 DEF DemandStops, MovedStops
  <2>. QED  BY <2>1, <2>3, <2>4, <2>5
<1>9. own + SumFunction(DemandStops(r)) + SumFunction(QueuedStops) <= MaxFirstStopOccupancy
  <2>1. PICK d : d = FirstStopDemand(r)  OBVIOUS
  <2>2. ~ (d > MaxFirstStopOccupancy)  BY <2>1 DEF Admit, OverBudget
  <2>3. d = own + SumFunction(DemandStops(r)) + SumFunction(QueuedStops)
    BY <1>4, <2>1 DEF FirstStopDemand, DemandStops, ReservedFor, QueuedStops
  <2>4. SumFunction(DemandStops(r)) \in Nat /\ SumFunction(QueuedStops) \in Nat
    BY <1>2, <1>3, SumType
  <2>. QED  BY <1>5, <2>2, <2>3, <2>4, LimitAssumption
<1>10. /\ SumFunction(ReservedStops(r)) \in Nat /\ SumFunction(MovedStops(r)) \in Nat
       /\ SumFunction(QueuedStops) \in Nat /\ SumFunction(QueuedStops') \in Nat
       /\ MaxFirstStopOccupancy \in Nat
  BY <1>2, <1>3, SumType, LimitAssumption
<1>. QED  BY <1>5, <1>6, <1>7, <1>8, <1>9, <1>10

LEMMA NextBudgets == SInv /\ [Next]_vars => SInv'
<1>. SUFFICES ASSUME SInv, [Next]_vars PROVE SInv'  OBVIOUS
<1>1. IInv'  BY NextIInv DEF SInv
<1>2. CASE \E r \in Requests : Admit(r)
  <2>1. PICK r \in Requests : Admit(r)  BY <1>2
  <2>2. /\ SumFunction(HeldBytes') + SumFunction(QueuedBytes') <= MaxTotalFrameBytes
        /\ SumFunction(HeldStops') + SumFunction(QueuedStops') <= MaxFirstStopOccupancy
    BY <1>1, <2>1, AdmittedBytes, AdmittedStops DEF SInv
  <2>3. BudgetsKept'
    BY <2>2
    DEF BudgetsKept, StorageWithinBudget, FirstStopsWithinBudget, StoredBytes, Occupancy,
        HeldBytes, QueuedBytes, HeldStops, QueuedStops, TimedTargets, Timed
  <2>. QED  BY <1>1, <2>3 DEF SInv
<1>3. CASE ~ \E r \in Requests : Admit(r)
  <2>1. KeptCommands /\ \E h : CarriedBy(h)  BY <1>3, StepKeeps DEF SInv
  <2>2. PICK h : CarriedBy(h)  BY <2>1
  <2>. QED  BY <1>1, <2>1, <2>2, KeptBudgets DEF SInv
<1>. QED  BY <1>2, <1>3

LEMMA InitBudgets == Init => SInv
<1>. SUFFICES ASSUME Init PROVE SInv  OBVIOUS
<1>1. IInv  BY InitIInv
<1>2. /\ DOMAIN HeldBytes = {} /\ DOMAIN QueuedBytes = {}
      /\ DOMAIN HeldStops = {} /\ DOMAIN QueuedStops = {}
  BY DEF Init, HeldBytes, QueuedBytes, HeldStops, QueuedStops, TimedTargets
<1>3. /\ SumFunction(HeldBytes) = 0 /\ SumFunction(QueuedBytes) = 0
      /\ SumFunction(HeldStops) = 0 /\ SumFunction(QueuedStops) = 0
  BY <1>2, EmptySum
<1>4. /\ SumFunction(HeldBytes) + SumFunction(QueuedBytes) <= MaxTotalFrameBytes
      /\ SumFunction(HeldStops) + SumFunction(QueuedStops) <= MaxFirstStopOccupancy
  BY <1>3, LimitAssumption
<1>. QED
  BY <1>1, <1>4
  DEF SInv, BudgetsKept, StorageWithinBudget, FirstStopsWithinBudget,
      HeldBytes, QueuedBytes, HeldStops, QueuedStops, TimedTargets

(* The frames held in memory, those of displaced STOPs included, stay      *)
(* within the storage budget schedule() enforces on admission, whatever    *)
(* the frames weigh and however many commands there are.                   *)
THEOREM StorageAlwaysWithinBudget == Spec => []StorageWithinBudget
<1>1. SInv => StorageWithinBudget  BY DEF SInv, BudgetsKept
<1>. QED  BY InitBudgets, NextBudgets, <1>1, PTL DEF Spec

(* One copy of every STOP that is owed or may come to be owed fits the     *)
(* first-STOP reservation at every moment, and not only on admission.      *)
THEOREM FirstStopsAlwaysWithinBudget == Spec => []FirstStopsWithinBudget
<1>1. SInv => FirstStopsWithinBudget  BY DEF SInv, BudgetsKept
<1>. QED  BY InitBudgets, NextBudgets, <1>1, PTL DEF Spec
-----------------------------------------------------------------------------
(* A command id is live once.                                              *)
UInv == IInv /\ LiveIdsUnique

LEMMA AdmitUnique ==
    ASSUME UInv, NEW r \in Requests, Admit(r)
    PROVE  LiveIdsUnique'
<1>. DEFINE R == Retained(r.target)
            D == Overlapped(r.target)
<1>1. /\ r.id \notin ActiveIds(commands, flushStops)
      /\ r.target \notin R
      /\ DOMAIN commands' = R \cup {r.target}
      /\ commands'[r.target] = NewCommand(r)
      /\ \A t \in R : commands'[t] = commands[t]
      /\ \E debtors, m : MovedBy(debtors, m, D)
  BY AdmitShape DEF UInv
<1>2. PICK debtors, m : MovedBy(debtors, m, D)  BY <1>1
<1>3. PICK n : n = Len(flushStops)  OBVIOUS
<1>4. n \in Nat /\ DOMAIN flushStops = 1 .. n  BY <1>3, Typed DEF UInv
<1>5. /\ m \in Nat
      /\ \A k \in 1 .. m : debtors[k] \in Owing(D)
      /\ \A j, k \in 1 .. m : debtors[j] = debtors[k] => j = k
      /\ DOMAIN flushStops' = 1 .. n + m
      /\ \A i \in 1 .. n : flushStops'[i] = flushStops[i]
      /\ \A k \in 1 .. m : flushStops'[n + k].id = commands[debtors[k]].req.id
  <2>1. /\ m \in Nat
        /\ debtors \in [1 .. m -> Owing(D)]
        /\ \A j, k \in 1 .. m : debtors[j] = debtors[k] => j = k
        /\ DOMAIN flushStops' = 1 .. n + m
        /\ \A i \in 1 .. n : flushStops'[i] = flushStops[i]
        /\ \A k \in 1 .. m : flushStops'[n + k] = FlushStop(commands[debtors[k]])
    BY <1>2, <1>3 DEF MovedBy
  <2>2. \A k \in 1 .. m : debtors[k] \in Owing(D)  BY <2>1
  <2>3. \A t : FlushStop(commands[t]).id = commands[t].req.id  BY DEF FlushStop
  <2>4. \A k \in 1 .. m : flushStops'[n + k].id = commands[debtors[k]].req.id
    BY <2>1, <2>3
  <2>. QED  BY <2>1, <2>2, <2>4
<1>6. D \cap R = {} /\ R \subseteq DOMAIN commands /\ Owing(D) \subseteq D /\ D \subseteq DOMAIN commands
  BY DEF Retained, Overlapped, Owing
<1>7. /\ \A t \in DOMAIN commands : commands[t].req.id # r.id
      /\ \A i \in DOMAIN flushStops : flushStops[i].id # r.id
  BY <1>1 DEF ActiveIds
<1>8. \A t \in DOMAIN commands' : commands'[t].req.id = IF t = r.target THEN r.id ELSE commands[t].req.id
  BY <1>1 DEF NewCommand
<1>9. /\ \A t, u \in DOMAIN commands : commands[t].req.id = commands[u].req.id => t = u
      /\ \A i, j \in 1 .. n : flushStops[i].id = flushStops[j].id => i = j
      /\ \A t \in DOMAIN commands, i \in 1 .. n : commands[t].req.id # flushStops[i].id
  BY <1>4 DEF UInv, LiveIdsUnique
<1>10. ASSUME NEW i \in 1 .. n + m
       PROVE  \/ i \in 1 .. n /\ flushStops'[i].id = flushStops[i].id
              \/ \E k \in 1 .. m : i = n + k /\ flushStops'[i].id = commands[debtors[k]].req.id
  <2>1. CASE i <= n
    <3>1. i \in 1 .. n  BY <1>4, <1>5, <2>1
    <3>. QED  BY <1>5, <3>1
  <2>2. CASE ~ (i <= n)
    <3>1. i - n \in 1 .. m /\ i = n + (i - n)  BY <1>4, <1>5, <2>2
    <3>2. PICK k \in 1 .. m : i = n + k  BY <3>1
    <3>. QED  BY <1>5, <3>2
  <2>. QED  BY <2>1, <2>2
<1>11. \A t, u \in DOMAIN commands' : commands'[t].req.id = commands'[u].req.id => t = u
  BY <1>1, <1>6, <1>7, <1>8, <1>9
<1>12. ASSUME NEW i \in 1 .. n + m, NEW j \in 1 .. n + m, flushStops'[i].id = flushStops'[j].id
       PROVE  i = j
  BY <1>4, <1>5, <1>6, <1>9, <1>10, <1>12
<1>13. ASSUME NEW t \in DOMAIN commands', NEW i \in 1 .. n + m
       PROVE  commands'[t].req.id # flushStops'[i].id
  BY <1>1, <1>4, <1>5, <1>6, <1>7, <1>8, <1>9, <1>10
<1>. QED  BY <1>5, <1>11, <1>12, <1>13 DEF LiveIdsUnique

LEMMA KeptUnique ==
    ASSUME UInv, KeptCommands, \E h : CarriedBy(h)
    PROVE  LiveIdsUnique'
BY DEF UInv, LiveIdsUnique, KeptCommands, CarriedBy

LEMMA InitUnique == Init => UInv
<1>. SUFFICES ASSUME Init PROVE UInv  OBVIOUS
<1>1. DOMAIN commands = {} /\ DOMAIN flushStops = {}  BY DEF Init
<1>. QED  BY <1>1, InitIInv DEF UInv, LiveIdsUnique

LEMMA NextUnique == UInv /\ [Next]_vars => UInv'
<1>. SUFFICES ASSUME UInv, [Next]_vars PROVE UInv'  OBVIOUS
<1>1. IInv'  BY NextIInv DEF UInv
<1>2. CASE \E r \in Requests : Admit(r)  BY <1>1, <1>2, AdmitUnique DEF UInv
<1>3. CASE ~ \E r \in Requests : Admit(r)
  BY <1>1, <1>3, StepKeeps, KeptUnique DEF UInv
<1>. QED  BY <1>2, <1>3

(* A command id is never live twice: not in the map, not in the flush      *)
(* queue, not in both, so that disarm() and replay_state(), which stop at  *)
(* the first match, have found the only one (schedule, disarm).            *)
THEOREM LiveIdsAlwaysUnique == Spec => []LiveIdsUnique
<1>1. UInv => LiveIdsUnique  BY DEF UInv
<1>. QED  BY InitUnique, NextUnique, <1>1, PTL DEF Spec
-----------------------------------------------------------------------------
(* The scheduler implements FailSafeStop.                                  *)
DebtOf(c) == [id |-> c.req.id, copies |-> CopiesOwed(c)]
EntryDebt(e) == [id |-> e.id, copies |-> e.remaining]

LEMMA DebtsNow ==
    /\ \A d \in Debts :
          \/ \E t \in DOMAIN commands : OwesStop(commands[t]) /\ d = DebtOf(commands[t])
          \/ \E i \in DOMAIN flushStops : d = EntryDebt(flushStops[i])
    /\ \A t \in DOMAIN commands : OwesStop(commands[t]) => DebtOf(commands[t]) \in Debts
    /\ \A i \in DOMAIN flushStops : EntryDebt(flushStops[i]) \in Debts
BY DEF Debts, Owing, DebtOf, EntryDebt

LEMMA DebtsThen ==
    /\ \A d \in Debts' :
          \/ \E t \in DOMAIN commands' : OwesStop(commands'[t]) /\ d = DebtOf(commands'[t])
          \/ \E i \in DOMAIN flushStops' : d = EntryDebt(flushStops'[i])
    /\ \A t \in DOMAIN commands' : OwesStop(commands'[t]) => DebtOf(commands'[t]) \in Debts'
    /\ \A i \in DOMAIN flushStops' : EntryDebt(flushStops'[i]) \in Debts'
<1>1. PICK X : X = Debts'  OBVIOUS
<1>2. X = {DebtOf(commands'[t]) : t \in {u \in DOMAIN commands' : OwesStop(commands'[u])}}
            \cup {EntryDebt(flushStops'[i]) : i \in DOMAIN flushStops'}
  BY <1>1 DEF Debts, Owing, DebtOf, EntryDebt, OwesStop, Timed, CopiesOwed
<1>. QED  BY <1>1, <1>2

(* Debts have their type, and an owner has one debt.                       *)
LEMMA DebtType ==
    ASSUME UInv
    PROVE  /\ \A d \in Debts : d \in [id : Ids, copies : 1 .. 20]
           /\ \A d, e \in Debts : d.id = e.id => d = e
<1>1. ASSUME NEW t \in DOMAIN commands
      PROVE  DebtOf(commands[t]) \in [id : Ids, copies : 1 .. 20]
  <2>1. commands[t] \in Command  BY Typed DEF UInv
  <2>2. /\ commands[t].req.id \in Ids /\ commands[t].req.repeats \in 1 .. 20
        /\ commands[t].remaining \in 1 .. 20
    BY <2>1, RequestType DEF Command
  <2>. QED  BY <2>2 DEF DebtOf, CopiesOwed
<1>2. ASSUME NEW i \in DOMAIN flushStops
      PROVE  EntryDebt(flushStops[i]) \in [id : Ids, copies : 1 .. 20]
  <2>1. flushStops[i] \in QueuedStop  BY Typed DEF UInv
  <2>. QED  BY <2>1 DEF EntryDebt, QueuedStop
<1>3. \A t \in DOMAIN commands : DebtOf(commands[t]).id = commands[t].req.id  BY DEF DebtOf
<1>4. \A i \in DOMAIN flushStops : EntryDebt(flushStops[i]).id = flushStops[i].id  BY DEF EntryDebt
<1>5. ASSUME NEW d \in Debts, NEW e \in Debts, d.id = e.id PROVE d = e
  BY <1>3, <1>4, <1>5, DebtsNow DEF UInv, LiveIdsUnique
<1>6. \A d \in Debts : d \in [id : Ids, copies : 1 .. 20]
  BY <1>1, <1>2, DebtsNow
<1>. QED  BY <1>5, <1>6

LEMMA ArmedDebt ==
    ASSUME IInv, NEW t \in DOMAIN commands
    PROVE  /\ OwesStop(Armed[t]) <=> OwesStop(commands[t])
           /\ OwesStop(commands[t]) => DebtOf(Armed[t]) = DebtOf(commands[t])
BY ArmedShape DEF DebtOf

(* Arming a deadline and leaving the queue alone changes no debt.          *)
LEMMA ArmedDebts ==
    ASSUME IInv, commands' = Armed, UNCHANGED flushStops
    PROVE  Debts' = Debts
<1>1. DOMAIN commands' = DOMAIN commands  BY DEF Armed
<1>. QED  BY <1>1, ArmedDebt, DebtsNow, DebtsThen

LEMMA SameDebts ==
    ASSUME UNCHANGED <<commands, flushStops>>
    PROVE  Debts' = Debts
BY DebtsNow, DebtsThen

(* Displacing moves debts and opens none.                                  *)
LEMMA AdmitDebts ==
    ASSUME UInv, NEW r \in Requests, Admit(r)
    PROVE  Debts' = Debts
<1>. DEFINE R == Retained(r.target)
            D == Overlapped(r.target)
<1>1. /\ r.target \notin R
      /\ DOMAIN commands' = R \cup {r.target}
      /\ commands'[r.target] = NewCommand(r)
      /\ \A t \in R : commands'[t] = commands[t]
      /\ \E debtors, m : MovedBy(debtors, m, D)
  BY AdmitShape DEF UInv
<1>2. PICK debtors, m : MovedBy(debtors, m, D)  BY <1>1
<1>3. PICK n : n = Len(flushStops)  OBVIOUS
<1>4. n \in Nat /\ DOMAIN flushStops = 1 .. n  BY <1>3, Typed DEF UInv
<1>5. /\ m \in Nat
      /\ debtors \in [1 .. m -> Owing(D)]
      /\ \A t \in Owing(D) : \E k \in 1 .. m : debtors[k] = t
      /\ DOMAIN flushStops' = 1 .. n + m
      /\ \A i \in 1 .. n : flushStops'[i] = flushStops[i]
      /\ \A k \in 1 .. m : flushStops'[n + k] = FlushStop(commands[debtors[k]])
  BY <1>2, <1>3 DEF MovedBy
<1>6. ASSUME NEW k \in 1 .. m
      PROVE  /\ debtors[k] \in DOMAIN commands /\ OwesStop(commands[debtors[k]])
             /\ n + k \in DOMAIN flushStops'
             /\ EntryDebt(flushStops'[n + k]) = DebtOf(commands[debtors[k]])
  <2>1. debtors[k] \in Owing(D)  BY <1>5
  <2>2. debtors[k] \in DOMAIN commands /\ OwesStop(commands[debtors[k]])
    BY <2>1 DEF Owing, Overlapped
  <2>3. flushStops'[n + k] = FlushStop(commands[debtors[k]])  BY <1>5
  <2>4. EntryDebt(flushStops'[n + k]) = DebtOf(commands[debtors[k]])
    BY <2>3 DEF EntryDebt, DebtOf, FlushStop
  <2>5. n + k \in 1 .. n + m  BY <1>4, <1>5
  <2>. QED  BY <1>5, <2>2, <2>4, <2>5
<1>7. ASSUME NEW d \in Debts PROVE d \in Debts'
  <2>1. CASE \E i \in DOMAIN flushStops : d = EntryDebt(flushStops[i])
    <3>1. PICK i \in 1 .. n : d = EntryDebt(flushStops[i])  BY <1>4, <2>1
    <3>2. i \in DOMAIN flushStops' /\ flushStops'[i] = flushStops[i]  BY <1>4, <1>5
    <3>. QED  BY <3>1, <3>2, DebtsThen
  <2>2. CASE \E t \in DOMAIN commands : OwesStop(commands[t]) /\ d = DebtOf(commands[t])
    <3>1. PICK t \in DOMAIN commands : OwesStop(commands[t]) /\ d = DebtOf(commands[t])
      BY <2>2
    <3>2. CASE t \in R  BY <1>1, <3>1, <3>2, DebtsThen
    <3>3. CASE t \notin R
      <4>1. t \in Owing(D)  BY <3>1, <3>3 DEF Retained, Owing
      <4>2. PICK k \in 1 .. m : debtors[k] = t  BY <1>5, <4>1
      <4>. QED  BY <1>6, <3>1, <4>2, DebtsThen
    <3>. QED  BY <3>2, <3>3
  <2>. QED  BY <2>1, <2>2, DebtsNow
<1>8. ASSUME NEW d \in Debts' PROVE d \in Debts
  <2>1. CASE \E i \in DOMAIN flushStops' : d = EntryDebt(flushStops'[i])
    <3>1. PICK i \in 1 .. n + m : d = EntryDebt(flushStops'[i])  BY <1>5, <2>1
    <3>2. CASE i <= n
      <4>1. i \in 1 .. n  BY <1>4, <1>5, <3>2
      <4>. QED  BY <1>4, <1>5, <3>1, <4>1, DebtsNow
    <3>3. CASE ~ (i <= n)
      <4>1. i - n \in 1 .. m /\ i = n + (i - n)  BY <1>4, <1>5, <3>3
      <4>2. PICK k \in 1 .. m : i = n + k  BY <4>1
      <4>. QED  BY <1>6, <3>1, <4>2, DebtsNow
    <3>. QED  BY <3>2, <3>3
  <2>2. CASE \E t \in DOMAIN commands' : OwesStop(commands'[t]) /\ d = DebtOf(commands'[t])
    <3>1. PICK t \in DOMAIN commands' : OwesStop(commands'[t]) /\ d = DebtOf(commands'[t])
      BY <2>2
    <3>2. t # r.target
      <4>1. ~ OwesStop(NewCommand(r))  BY DEF OwesStop, NewCommand
      <4>. QED  BY <1>1, <3>1, <4>1
    <3>3. t \in R /\ R \subseteq DOMAIN commands  BY <1>1, <3>1, <3>2 DEF Retained
    <3>. QED  BY <1>1, <3>1, <3>3, DebtsNow
  <2>. QED  BY <2>1, <2>2, DebtsThen
<1>. QED  BY <1>7, <1>8

(* disarm() waives the debt of its id and no other.                        *)
LEMMA DisarmDebts ==
    ASSUME UInv, NEW id \in Ids, Disarm(id)
    PROVE  Stops!Waive({d.id : d \in Debts} \cap {id})
<1>1. /\ DOMAIN commands' = {t \in DOMAIN commands : commands[t].req.id # id}
      /\ \A t \in DOMAIN commands' : commands'[t] = commands[t]
  BY DisarmShape DEF UInv
<1>2. PICK h : SparedBy(h, id)  BY DisarmShape DEF UInv
<1>9. /\ h \in [DOMAIN flushStops' -> DOMAIN flushStops]
      /\ \A i \in DOMAIN flushStops' :
            flushStops'[i] = flushStops[h[i]] /\ flushStops[h[i]].id # id
      /\ \A i \in DOMAIN flushStops :
            flushStops[i].id # id => \E k \in DOMAIN flushStops' : h[k] = i
  BY <1>2 DEF SparedBy, CarriedBy
<1>3. \A t : DebtOf(commands[t]).id = commands[t].req.id  BY DEF DebtOf
<1>4. \A i : EntryDebt(flushStops[i]).id = flushStops[i].id  BY DEF EntryDebt
<1>5. ASSUME NEW d \in Debts, d.id # id PROVE d \in Debts'
  <2>1. CASE \E i \in DOMAIN flushStops : d = EntryDebt(flushStops[i])
    <3>1. PICK i \in DOMAIN flushStops : d = EntryDebt(flushStops[i])  BY <2>1
    <3>2. PICK k \in DOMAIN flushStops' : h[k] = i  BY <1>9, <1>4, <1>5, <3>1
    <3>. QED  BY <1>9, <3>1, <3>2, DebtsThen
  <2>2. CASE \E t \in DOMAIN commands : OwesStop(commands[t]) /\ d = DebtOf(commands[t])
    BY <1>1, <1>3, <1>5, <2>2, DebtsThen
  <2>. QED  BY <2>1, <2>2, DebtsNow
<1>6. ASSUME NEW d \in Debts' PROVE d \in Debts /\ d.id # id
  <2>1. CASE \E i \in DOMAIN flushStops' : d = EntryDebt(flushStops'[i])
    BY <1>4, <1>9, <2>1, DebtsNow
  <2>2. CASE \E t \in DOMAIN commands' : OwesStop(commands'[t]) /\ d = DebtOf(commands'[t])
    BY <1>1, <1>3, <2>2, DebtsNow
  <2>. QED  BY <2>1, <2>2, DebtsThen
<1>7. Debts' = {d \in Debts : d.id \notin {e.id : e \in Debts} \cap {id}}
  BY <1>5, <1>6
<1>8. waived' = {d.id : d \in Debts} \cap {id}  BY DEF Disarm
<1>. QED  BY <1>7, <1>8 DEF Stops!Waive

LEMMA DrainDebts ==
    ASSUME UInv, DrainArmedStops
    PROVE  Stops!Waive({d.id : d \in Debts})
<1>1. DOMAIN commands' = {} /\ DOMAIN flushStops' = {} /\ waived' = {d.id : d \in Debts}
  BY DEF DrainArmedStops
<1>2. Debts' = {}  BY <1>1, DebtsThen
<1>. QED  BY <1>1, <1>2 DEF Stops!Waive

(* One copy less of one debt.                                              *)
LEMMA OneCopyPaid ==
    ASSUME UInv, waived' = {}, NEW d \in Debts, NEW less,
           less = [id |-> d.id, copies |-> d.copies - 1],
           \A e \in Debts : e # d => e \in Debts',
           d.copies > 1 => less \in Debts',
           \A e \in Debts' : (e \in Debts /\ e # d) \/ (d.copies > 1 /\ e = less)
    PROVE  \E id \in Ids : Stops!Pay(id)
<1>1. d.id \in Ids  BY DebtType
<1>2. Debts' = (Debts \ {d}) \cup (IF d.copies > 1 THEN {less} ELSE {})
  <2>1. CASE d.copies > 1  BY <2>1
  <2>2. CASE ~ (d.copies > 1)  BY <2>2
  <2>. QED  BY <2>1, <2>2
<1>3. Stops!Pay(d.id)  BY <1>2 DEF Stops!Pay
<1>. QED  BY <1>1, <1>3

LEMMA SendFlushStopDebts ==
    ASSUME UInv, SendFlushStop, waived' = {}
    PROVE  \E id \in Ids : Stops!Pay(id)
<1>1. 1 \in DOMAIN flushStops /\ commands' = Armed  BY SendFlushStopShape DEF UInv
<1>20. PICK h : FirstPaidBy(h)  BY SendFlushStopShape DEF UInv
<1>2. /\ CarriedBy(h)
      /\ \A i \in DOMAIN flushStops' :
            IF h[i] = 1
            THEN /\ flushStops[1].remaining > 1
                 /\ flushStops'[i].remaining = flushStops[1].remaining - 1
            ELSE flushStops'[i] = flushStops[h[i]]
      /\ \A j \in DOMAIN flushStops :
            j # 1 \/ flushStops[1].remaining > 1 => \E i \in DOMAIN flushStops' : h[i] = j
  BY <1>20 DEF FirstPaidBy
<1>3. /\ h \in [DOMAIN flushStops' -> DOMAIN flushStops]
      /\ \A i \in DOMAIN flushStops' : flushStops'[i].id = flushStops[h[i]].id
  BY <1>2 DEF CarriedBy
<1>4. PICK d : d = EntryDebt(flushStops[1])  OBVIOUS
<1>5. PICK less : less = [id |-> d.id, copies |-> d.copies - 1]  OBVIOUS
<1>6. d.id = flushStops[1].id /\ d.copies = flushStops[1].remaining  BY <1>4 DEF EntryDebt
<1>7. DOMAIN commands' = DOMAIN commands  BY <1>1 DEF Armed
<1>8. \A t \in DOMAIN commands :
         /\ OwesStop(commands'[t]) <=> OwesStop(commands[t])
         /\ OwesStop(commands[t]) => DebtOf(commands'[t]) = DebtOf(commands[t])
         /\ commands[t].req.id # d.id
  BY <1>1, <1>6, ArmedDebt DEF UInv, LiveIdsUnique
<1>9. \A i \in DOMAIN flushStops : i # 1 => flushStops[i].id # d.id
  BY <1>1, <1>6 DEF UInv, LiveIdsUnique
<1>10. \A t : DebtOf(commands[t]).id = commands[t].req.id  BY DEF DebtOf
<1>11. \A i : EntryDebt(flushStops[i]).id = flushStops[i].id  BY DEF EntryDebt
<1>12. \A i \in DOMAIN flushStops' : h[i] = 1 => EntryDebt(flushStops'[i]) = less
  BY <1>2, <1>3, <1>5, <1>6 DEF EntryDebt
<1>13. ASSUME NEW e \in Debts, e # d PROVE e \in Debts'
  <2>1. CASE \E t \in DOMAIN commands : OwesStop(commands[t]) /\ e = DebtOf(commands[t])
    BY <1>7, <1>8, <2>1, DebtsThen
  <2>2. CASE \E i \in DOMAIN flushStops : e = EntryDebt(flushStops[i])
    <3>1. PICK j \in DOMAIN flushStops : e = EntryDebt(flushStops[j])  BY <2>2
    <3>2. j # 1  BY <1>4, <1>13, <3>1
    <3>3. PICK i \in DOMAIN flushStops' : h[i] = j  BY <1>2, <3>2
    <3>. QED  BY <1>2, <3>1, <3>2, <3>3, DebtsThen
  <2>. QED  BY <2>1, <2>2, DebtsNow
<1>14. ASSUME d.copies > 1 PROVE less \in Debts'
  <2>1. PICK i \in DOMAIN flushStops' : h[i] = 1  BY <1>1, <1>2, <1>6, <1>14
  <2>. QED  BY <1>12, <2>1, DebtsThen
<1>15. ASSUME NEW e \in Debts'
       PROVE  (e \in Debts /\ e # d) \/ (d.copies > 1 /\ e = less)
  <2>1. CASE \E t \in DOMAIN commands' : OwesStop(commands'[t]) /\ e = DebtOf(commands'[t])
    BY <1>7, <1>8, <1>10, <2>1, DebtsNow
  <2>2. CASE \E i \in DOMAIN flushStops' : e = EntryDebt(flushStops'[i])
    <3>1. PICK i \in DOMAIN flushStops' : e = EntryDebt(flushStops'[i])  BY <2>2
    <3>2. CASE h[i] = 1  BY <1>2, <1>6, <1>12, <3>1, <3>2
    <3>3. CASE h[i] # 1
      <4>1. e = EntryDebt(flushStops[h[i]]) /\ h[i] \in DOMAIN flushStops
        BY <1>2, <1>3, <3>1, <3>3
      <4>. QED  BY <1>9, <1>11, <3>3, <4>1, DebtsNow
    <3>. QED  BY <3>2, <3>3
  <2>. QED  BY <2>1, <2>2, DebtsThen
<1>16. d \in Debts  BY <1>1, <1>4, DebtsNow
<1>. QED  BY <1>5, <1>13, <1>14, <1>15, <1>16, OneCopyPaid

(* Commands other than the one handed over keep their debts.               *)
LEMMA DispatchOthers ==
    ASSUME UInv, NEW i \in Entries, Dispatch(i)
    PROVE  /\ order[i + 1] \in DOMAIN commands
           /\ \A e \in Debts : e # DebtOf(commands[order[i + 1]]) => e \in Debts'
           /\ \A e \in Debts' :
                 \/ e \in Debts /\ e.id # commands[order[i + 1]].req.id
                 \/ /\ order[i + 1] \in DOMAIN commands'
                    /\ OwesStop(commands'[order[i + 1]])
                    /\ e = DebtOf(commands'[order[i + 1]])
<1>. DEFINE u == order[i + 1]
<1>1. /\ u \in DOMAIN commands
      /\ DOMAIN commands' \subseteq DOMAIN commands
      /\ \A t \in DOMAIN commands : t # u => t \in DOMAIN commands' /\ commands'[t] = Armed[t]
      /\ UNCHANGED flushStops
  BY DispatchCommands DEF UInv
<1>2. \A t \in DOMAIN commands : t # u =>
         /\ t \in DOMAIN commands'
         /\ OwesStop(commands'[t]) <=> OwesStop(commands[t])
         /\ OwesStop(commands[t]) => DebtOf(commands'[t]) = DebtOf(commands[t])
         /\ commands[t].req.id # commands[u].req.id
  BY <1>1, ArmedDebt DEF UInv, LiveIdsUnique
<1>3. \A t : DebtOf(commands[t]).id = commands[t].req.id  BY DEF DebtOf
<1>4. \A k : EntryDebt(flushStops[k]).id = flushStops[k].id  BY DEF EntryDebt
<1>5. \A k \in DOMAIN flushStops : flushStops[k].id # commands[u].req.id
  BY <1>1 DEF UInv, LiveIdsUnique
<1>6. ASSUME NEW e \in Debts, e # DebtOf(commands[u]) PROVE e \in Debts'
  BY <1>1, <1>2, <1>6, DebtsNow, DebtsThen
<1>7. ASSUME NEW e \in Debts'
      PROVE  \/ e \in Debts /\ e.id # commands[u].req.id
             \/ u \in DOMAIN commands' /\ OwesStop(commands'[u]) /\ e = DebtOf(commands'[u])
  <2>1. CASE \E k \in DOMAIN flushStops' : e = EntryDebt(flushStops'[k])
    BY <1>1, <1>4, <1>5, <2>1, DebtsNow
  <2>2. CASE \E t \in DOMAIN commands' : OwesStop(commands'[t]) /\ e = DebtOf(commands'[t])
    BY <1>1, <1>2, <1>3, <2>2, DebtsNow
  <2>. QED  BY <2>1, <2>2, DebtsThen
<1>. QED  BY <1>1, <1>6, <1>7

(* A hand-off that leaves the debt of its own command as it was.           *)
LEMMA DispatchSame ==
    ASSUME UInv, NEW i \in Entries, Dispatch(i),
           LET u == order[i + 1] IN
               \/ /\ ~ OwesStop(commands[u])
                  /\ u \in DOMAIN commands' => ~ OwesStop(commands'[u])
               \/ /\ u \in DOMAIN commands'
                  /\ OwesStop(commands[u]) /\ OwesStop(commands'[u])
                  /\ DebtOf(commands'[u]) = DebtOf(commands[u])
    PROVE  Debts' = Debts
<1>. DEFINE u == order[i + 1]
<1>1. /\ u \in DOMAIN commands
      /\ \A e \in Debts : e # DebtOf(commands[u]) => e \in Debts'
      /\ \A e \in Debts' :
            \/ e \in Debts /\ e.id # commands[u].req.id
            \/ u \in DOMAIN commands' /\ OwesStop(commands'[u]) /\ e = DebtOf(commands'[u])
  BY DispatchOthers
<1>2. CASE ~ OwesStop(commands[u]) /\ (u \in DOMAIN commands' => ~ OwesStop(commands'[u]))
  <2>1. DebtOf(commands[u]) \notin Debts
    <3>1. \A t : DebtOf(commands[t]).id = commands[t].req.id  BY DEF DebtOf
    <3>2. \A k : EntryDebt(flushStops[k]).id = flushStops[k].id  BY DEF EntryDebt
    <3>. QED  BY <1>1, <1>2, <3>1, <3>2, DebtsNow DEF UInv, LiveIdsUnique
  <2>2. \A e \in Debts : e \in Debts'  BY <1>1, <2>1
  <2>3. \A e \in Debts' : e \in Debts  BY <1>1, <1>2
  <2>. QED  BY <2>2, <2>3
<1>3. CASE /\ u \in DOMAIN commands'
           /\ OwesStop(commands[u]) /\ OwesStop(commands'[u])
           /\ DebtOf(commands'[u]) = DebtOf(commands[u])
  <2>1. DebtOf(commands[u]) \in Debts /\ DebtOf(commands[u]) \in Debts'
    BY <1>1, <1>3, DebtsNow, DebtsThen
  <2>2. \A e \in Debts : e \in Debts'  BY <1>1, <2>1
  <2>3. \A e \in Debts' : e \in Debts  BY <1>1, <1>3, <2>1
  <2>. QED  BY <2>2, <2>3
<1>. QED  BY <1>2, <1>3

LEMMA SendScheduledStopDebts ==
    ASSUME UInv, SendScheduledStop, waived' = {}
    PROVE  Debts' = Debts \/ \E id \in Ids : Stops!Pay(id)
<1>1. PICK i \in FirstFromCursor(StopReady(Armed)) : Dispatch(i)
  BY DEF SendScheduledStop
<1>2. PICK u : u = order[i + 1]  OBVIOUS
<1>3. PICK c : c = Armed[u]  OBVIOUS
<1>4. i \in Entries /\ c.phase = "STOP"
  BY <1>1, <1>2, <1>3 DEF FirstFromCursor, StopReady, Entry
<1>5. /\ u \in DOMAIN commands
      /\ DOMAIN commands' = IF Completes(c) THEN DOMAIN commands \ {u} ELSE DOMAIN commands
      /\ u \in DOMAIN commands' => commands'[u] = Handed(c)
  BY <1>1, <1>2, <1>3, <1>4, DispatchCommands DEF UInv
<1>6. /\ CommandOk(c) /\ c.req = commands[u].req /\ (OwesStop(c) <=> OwesStop(commands[u]))
      /\ OwesStop(c) => DebtOf(c) = DebtOf(commands[u])
  BY <1>3, <1>5, ArmedShape, ArmedDebt DEF UInv
<1>7. /\ Handed(c).req = c.req /\ Handed(c).phase = "STOP"
      /\ Handed(c).started = c.started /\ Handed(c).remaining = c.remaining - 1
      /\ c.remaining \in 1 .. 20
  <2>1. now \in Instants  BY Typed DEF UInv
  <2>2. c.remaining \in 1 .. 20  BY <1>6 DEF CommandOk, Command
  <2>. QED  BY <1>4, <1>6, <2>1, <2>2, HandedShape
<1>8. CASE ~ OwesStop(c)
  <2>1. ~ OwesStop(Handed(c))  BY <1>4, <1>7, <1>8 DEF OwesStop
  <2>2. Debts' = Debts
    BY <1>1, <1>2, <1>4, <1>5, <1>6, <1>8, <2>1, DispatchSame
  <2>. QED  BY <2>2
<1>9. CASE OwesStop(c)
  <2>1. PICK d : d = DebtOf(c)  OBVIOUS
  <2>2. d.id = c.req.id /\ d.copies = c.remaining  BY <1>4, <2>1 DEF DebtOf, CopiesOwed
  <2>3. PICK less : less = [id |-> d.id, copies |-> d.copies - 1]  OBVIOUS
  <2>4. d \in Debts  BY <1>5, <1>6, <1>9, <2>1, DebtsNow
  <2>5. /\ \A e \in Debts : e # d => e \in Debts'
        /\ \A e \in Debts' : \/ e \in Debts /\ e.id # d.id
                            \/ /\ u \in DOMAIN commands' /\ OwesStop(commands'[u])
                               /\ e = DebtOf(commands'[u])
    BY <1>1, <1>2, <1>4, <1>6, <1>9, <2>1, <2>2, DispatchOthers
  <2>6. Completes(c) <=> d.copies = 1  BY <1>7, <2>2 DEF Completes
  <2>7. DebtOf(Handed(c)) = less  BY <1>7, <2>2, <2>3 DEF DebtOf, CopiesOwed
  <2>8. u \in DOMAIN commands' <=> d.copies > 1  BY <1>5, <1>7, <2>2, <2>6
  <2>9. OwesStop(Handed(c)) <=> d.copies > 1  BY <1>7, <1>9, <2>2 DEF OwesStop
  <2>10. d.copies > 1 => less \in Debts'  BY <1>5, <2>7, <2>8, <2>9, DebtsThen
  <2>11. \A e \in Debts' : (e \in Debts /\ e # d) \/ (d.copies > 1 /\ e = less)
    BY <1>5, <2>5, <2>7, <2>8
  <2>. QED  BY <2>3, <2>4, <2>5, <2>10, <2>11, OneCopyPaid
<1>. QED  BY <1>8, <1>9

LEMMA SendActionDebts ==
    ASSUME UInv, SendAction, waived' = {}
    PROVE  \/ Debts' = Debts
           \/ \E id \in Ids, copies \in 1 .. 20 : Stops!Open(id, copies)
<1>1. PICK i \in ActionCandidates(Armed) : Dispatch(i)  BY DEF SendAction
<1>2. PICK u : u = order[i + 1]  OBVIOUS
<1>3. PICK c : c = Armed[u]  OBVIOUS
<1>4. i \in Entries /\ c.phase \in {"ACTION", "TRAILER"}
  BY <1>1, <1>2, <1>3 DEF ActionCandidates, FirstFromCursor, ActionReady, Entry
<1>5. /\ u \in DOMAIN commands
      /\ DOMAIN commands' = IF Completes(c) THEN DOMAIN commands \ {u} ELSE DOMAIN commands
      /\ u \in DOMAIN commands' => commands'[u] = Handed(c)
  BY <1>1, <1>2, <1>3, <1>4, DispatchCommands DEF UInv
<1>6. /\ CommandOk(c) /\ c.req = commands[u].req /\ (OwesStop(c) <=> OwesStop(commands[u]))
      /\ OwesStop(c) => DebtOf(c) = DebtOf(commands[u])
  BY <1>3, <1>5, ArmedShape, ArmedDebt DEF UInv
<1>7. /\ Handed(c).req = c.req /\ Handed(c).phase # "STOP"
      /\ Handed(c).started = (c.started \/ Starts(c))
      /\ Timed(c.req) => ~ Completes(c)
  <2>1. now \in Instants  BY Typed DEF UInv
  <2>. QED  BY <1>4, <1>6, <2>1, HandedShape
<1>8. /\ OwesStop(c) <=> c.started /\ Timed(c.req)
      /\ OwesStop(Handed(c)) <=> (c.started \/ Starts(c)) /\ Timed(c.req)
  BY <1>4, <1>7 DEF OwesStop
<1>9. DebtOf(Handed(c)) = DebtOf(c)
  BY <1>4, <1>7 DEF DebtOf, CopiesOwed
<1>10. CASE ~ (Starts(c) /\ Timed(c.req))
  <2>1. OwesStop(Handed(c)) <=> OwesStop(c)  BY <1>8, <1>10
  <2>2. CASE OwesStop(c)
    <3>1. u \in DOMAIN commands'  BY <1>5, <1>7, <1>8, <2>2
    <3>. QED  BY <1>1, <1>2, <1>4, <1>5, <1>6, <1>9, <2>1, <2>2, <3>1, DispatchSame
  <2>3. CASE ~ OwesStop(c)
    BY <1>1, <1>2, <1>4, <1>5, <1>6, <2>1, <2>3, DispatchSame
  <2>. QED  BY <2>2, <2>3
<1>11. CASE Starts(c) /\ Timed(c.req)
  <2>1. ~ OwesStop(c)  BY <1>8, <1>11 DEF Starts
  <2>2. PICK d : d = [id |-> c.req.id, copies |-> c.req.repeats]  OBVIOUS
  <2>3. DebtOf(Handed(c)) = d  BY <1>4, <1>9, <2>2 DEF DebtOf, CopiesOwed
  <2>4. u \in DOMAIN commands' /\ OwesStop(commands'[u]) /\ DebtOf(commands'[u]) = d
    BY <1>5, <1>7, <1>8, <1>11, <2>3
  <2>5. \A e \in Debts : e.id # c.req.id
    <3>1. \A t : DebtOf(commands[t]).id = commands[t].req.id  BY DEF DebtOf
    <3>2. \A k : EntryDebt(flushStops[k]).id = flushStops[k].id  BY DEF EntryDebt
    <3>. QED  BY <1>5, <1>6, <2>1, <3>1, <3>2, DebtsNow DEF UInv, LiveIdsUnique
  <2>6. /\ \A e \in Debts : e # DebtOf(commands[u]) => e \in Debts'
        /\ \A e \in Debts' : e \in Debts \/ e = DebtOf(commands'[u])
    BY <1>1, <1>2, <1>4, DispatchOthers
  <2>7. DebtOf(commands[u]) \notin Debts
    <3>1. DebtOf(commands[u]).id = c.req.id  BY <1>6 DEF DebtOf
    <3>. QED  BY <2>5, <3>1
  <2>8. Debts' = Debts \cup {d}  BY <2>4, <2>6, <2>7, DebtsThen
  <2>9. Stops!Open(c.req.id, c.req.repeats)  BY <2>2, <2>5, <2>8 DEF Stops!Open
  <2>10. c.req.id \in Ids /\ c.req.repeats \in 1 .. 20
    BY <1>6, RequestType DEF CommandOk, Command
  <2>. QED  BY <2>9, <2>10
<1>. QED  BY <1>10, <1>11

(* Every step of the scheduler is a step of FailSafeStop, or changes       *)
(* nothing it speaks of.                                                   *)
LEMMA StepHonours == UInv /\ [Next]_vars => [Stops!Next]_(Stops!promise)
<1>. SUFFICES ASSUME UInv, [Next]_vars PROVE [Stops!Next]_(Stops!promise)  OBVIOUS
<1>1. ASSUME Debts' = Debts, waived' = {} PROVE Stops!Next
  BY <1>1 DEF Stops!Next, Stops!Quiet
<1>2. CASE \E r \in Requests : Admit(r)
  <2>1. Debts' = Debts /\ waived' = {}  BY <1>2, AdmitDebts DEF Admit
  <2>. QED  BY <1>1, <2>1
<1>3. CASE \E r \in Requests : Refuse(r)
  <2>1. Debts' = Debts /\ waived' = {}  BY <1>3, SameDebts DEF Refuse
  <2>. QED  BY <1>1, <2>1
<1>4. CASE \E id \in Ids : Disarm(id)
  <2>1. PICK id \in Ids : Stops!Waive({d.id : d \in Debts} \cap {id})
    BY <1>4, DisarmDebts
  <2>2. {d.id : d \in Debts} \cap {id} \in SUBSET Ids  OBVIOUS
  <2>. QED  BY <2>1, <2>2 DEF Stops!Next
<1>5. CASE DrainArmedStops
  <2>1. Stops!Waive({d.id : d \in Debts})  BY <1>5, DrainDebts
  <2>2. {d.id : d \in Debts} \in SUBSET Ids  BY DebtType
  <2>. QED  BY <2>1, <2>2 DEF Stops!Next
<1>6. CASE Poll
  <2>1. waived' = {} /\ NextCall  BY <1>6 DEF Poll
  <2>2. CASE PollIdle
    <3>1. Debts' = Debts  BY <2>2, SameDebts DEF PollIdle
    <3>. QED  BY <1>1, <2>1, <3>1
  <2>3. CASE PollAirBusy \/ PollNothingDue
    <3>1. Debts' = Debts  BY <2>3, ArmedDebts DEF PollAirBusy, PollNothingDue, UInv
    <3>. QED  BY <1>1, <2>1, <3>1
  <2>4. CASE SendFlushStop
    BY <2>1, <2>4, SendFlushStopDebts DEF Stops!Next
  <2>5. CASE SendScheduledStop
    BY <1>1, <2>1, <2>5, SendScheduledStopDebts DEF Stops!Next
  <2>6. CASE SendAction
    BY <1>1, <2>1, <2>6, SendActionDebts DEF Stops!Next
  <2>. QED  BY <2>1, <2>2, <2>3, <2>4, <2>5, <2>6 DEF NextCall
<1>7. CASE Elapse
  <2>1. Debts' = Debts /\ waived' = {}  BY <1>7, SameDebts DEF Elapse, schedulerVars
  <2>. QED  BY <1>1, <2>1
<1>8. CASE UNCHANGED vars
  <2>1. Debts' = Debts /\ waived' = waived  BY <1>8, SameDebts DEF vars
  <2>. QED  BY <2>1 DEF Stops!promise
<1>. QED  BY <1>2, <1>3, <1>4, <1>5, <1>6, <1>7, <1>8 DEF Next

(* The scheduler implements FailSafeStop: a debt of STOP copies is opened  *)
(* by the first ACTION copy of a timed command, shrinks only by copies     *)
(* handed over, and goes otherwise only by a disarm of its id or to an     *)
(* update: displacement, rotation, arming and pacing leave it as it is     *)
(* (schedule, displace_overlapping_, next, disarm, drain_armed_stops).     *)
THEOREM StopsAlwaysHonoured == Spec => StopsHonoured
<1>1. Init => Stops!Init
  <2>. SUFFICES ASSUME Init PROVE Stops!Init  OBVIOUS
  <2>1. DOMAIN commands = {} /\ DOMAIN flushStops = {} /\ waived = {}  BY DEF Init
  <2>2. Debts = {}  BY <2>1, DebtsNow
  <2>. QED  BY <2>1, <2>2 DEF Stops!Init
<1>2. Spec => []UInv  BY InitUnique, NextUnique, PTL DEF Spec
<1>. QED  BY <1>1, <1>2, StepHonours, PTL DEF Spec, StopsHonoured, Stops!Safety
-----------------------------------------------------------------------------
(* The ring of remembered ids: what one slot and its answers mean.         *)

(* No id has two slots.                                                    *)
Once(ring) == \A s, u \in Slots : ring[s].id = ring[u].id /\ ring[s].id # NoId => s = u

Standing(c) == IF c.started THEN 2 ELSE 1

(* A slot that holds a live id holds the answer its live state gives.      *)
Truthful(cmds, flush, ring) ==
    \A s \in Slots :
        /\ \A t \in DOMAIN cmds : cmds[t].req.id = ring[s].id => ring[s].state = Standing(cmds[t])
        /\ \A i \in DOMAIN flush : flush[i].id = ring[s].id => ring[s].state = 4

OnceLive(cmds, flush) ==
    /\ \A t, u \in DOMAIN cmds : cmds[t].req.id = cmds[u].req.id => t = u
    /\ \A t \in DOMAIN cmds, i \in DOMAIN flush : cmds[t].req.id # flush[i].id

Answer(cmds, flush, ring, id) ==
    IF \E t \in DOMAIN cmds : cmds[t].req.id = id
    THEN IF \E t \in DOMAIN cmds : cmds[t].req.id = id /\ cmds[t].started THEN 2 ELSE 1
    ELSE IF \E i \in DOMAIN flush : flush[i].id = id THEN 4
    ELSE IF \E s \in Slots : ring[s].id = id
         THEN (CHOOSE e \in {ring[s] : s \in Slots} : e.id = id).state
    ELSE 0

RInv ==
    /\ UInv
    /\ Once(recent)
    /\ Truthful(commands, flushStops, recent)

LEMMA LiveAnswer ==
    ASSUME NEW cmds, NEW flush, NEW ring, OnceLive(cmds, flush), NEW t \in DOMAIN cmds
    PROVE  Answer(cmds, flush, ring, cmds[t].req.id) = Standing(cmds[t])
<1>1. \A u \in DOMAIN cmds : cmds[u].req.id = cmds[t].req.id => u = t  BY DEF OnceLive
<1>. QED  BY <1>1 DEF Answer, Standing

LEMMA FlushAnswer ==
    ASSUME NEW cmds, NEW flush, NEW ring, OnceLive(cmds, flush), NEW i \in DOMAIN flush
    PROVE  Answer(cmds, flush, ring, flush[i].id) = 4
<1>1. \A u \in DOMAIN cmds : cmds[u].req.id # flush[i].id  BY DEF OnceLive
<1>. QED  BY <1>1 DEF Answer

LEMMA RingAnswer ==
    ASSUME NEW cmds, NEW flush, NEW ring, OnceLive(cmds, flush), Once(ring),
           Truthful(cmds, flush, ring), NEW s \in Slots, ring[s].id # NoId
    PROVE  Answer(cmds, flush, ring, ring[s].id) = ring[s].state
<1>1. CASE \E t \in DOMAIN cmds : cmds[t].req.id = ring[s].id
  <2>1. PICK t \in DOMAIN cmds : cmds[t].req.id = ring[s].id  BY <1>1
  <2>2. ring[s].state = Standing(cmds[t])  BY <2>1 DEF Truthful
  <2>. QED  BY <2>1, <2>2, LiveAnswer
<1>2. CASE \E i \in DOMAIN flush : flush[i].id = ring[s].id
  <2>1. PICK i \in DOMAIN flush : flush[i].id = ring[s].id  BY <1>2
  <2>2. ring[s].state = 4  BY <2>1 DEF Truthful
  <2>3. Answer(cmds, flush, ring, flush[i].id) = 4  BY <2>1, FlushAnswer
  <2>. QED  BY <2>1, <2>2, <2>3
<1>3. CASE /\ ~ \E t \in DOMAIN cmds : cmds[t].req.id = ring[s].id
           /\ ~ \E i \in DOMAIN flush : flush[i].id = ring[s].id
  <2>1. PICK x : x = CHOOSE e \in {ring[u] : u \in Slots} : e.id = ring[s].id  OBVIOUS
  <2>2. x \in {ring[u] : u \in Slots} /\ x.id = ring[s].id  BY <2>1
  <2>3. PICK u \in Slots : x = ring[u]  BY <2>2
  <2>4. u = s  BY <2>2, <2>3 DEF Once
  <2>. QED  BY <1>3, <2>1, <2>3, <2>4 DEF Answer
<1>. QED  BY <1>1, <1>2, <1>3

LEMMA NoAnswer ==
    ASSUME NEW cmds, NEW flush, NEW ring, NEW id,
           \A t \in DOMAIN cmds : cmds[t].req.id # id,
           \A i \in DOMAIN flush : flush[i].id # id,
           \A s \in Slots : ring[s].id # id
    PROVE  Answer(cmds, flush, ring, id) = 0
BY DEF Answer

(* The answers before and after a step.                                    *)
Before(id) == Answer(commands, flushStops, recent, id)
After(id) == Answer(commands', flushStops', recent', id)

LEMMA AnswersNow ==
    ASSUME RInv, NEW id \in Ids
    PROVE  /\ ReplayState(id) = Before(id)
           /\ id # NoId
           /\ \A t \in DOMAIN commands : commands[t].req.id = id => Before(id) = Standing(commands[t])
           /\ \A i \in DOMAIN flushStops : flushStops[i].id = id => Before(id) = 4
           /\ \A s \in Slots : recent[s].id = id => Before(id) = recent[s].state
           /\ \/ Before(id) = 0
              \/ \E t \in DOMAIN commands : commands[t].req.id = id
              \/ \E i \in DOMAIN flushStops : flushStops[i].id = id
              \/ \E s \in Slots : recent[s].id = id
<1>1. ReplayState(id) = Before(id)  BY DEF ReplayState, Before, Answer, SeenRecently
<1>2. id # NoId  BY RequestAssumption DEF Ids
<1>3. OnceLive(commands, flushStops)  BY DEF RInv, UInv, LiveIdsUnique, OnceLive
<1>4. Once(recent) /\ Truthful(commands, flushStops, recent)  BY DEF RInv
<1>5. \A t \in DOMAIN commands : commands[t].req.id = id => Before(id) = Standing(commands[t])
  BY <1>3, LiveAnswer DEF Before
<1>6. \A i \in DOMAIN flushStops : flushStops[i].id = id => Before(id) = 4
  BY <1>3, FlushAnswer DEF Before
<1>7. \A s \in Slots : recent[s].id = id => Before(id) = recent[s].state
  BY <1>2, <1>3, <1>4, RingAnswer DEF Before
<1>8. \/ Before(id) = 0
      \/ \E t \in DOMAIN commands : commands[t].req.id = id
      \/ \E i \in DOMAIN flushStops : flushStops[i].id = id
      \/ \E s \in Slots : recent[s].id = id
  BY NoAnswer DEF Before
<1>. QED  BY <1>1, <1>2, <1>5, <1>6, <1>7, <1>8

LEMMA AnswersThen ==
    ASSUME RInv', NEW id \in Ids
    PROVE  /\ ReplayState(id)' = After(id)
           /\ \A t \in DOMAIN commands' : commands'[t].req.id = id => After(id) = Standing(commands'[t])
           /\ \A i \in DOMAIN flushStops' : flushStops'[i].id = id => After(id) = 4
           /\ \A s \in Slots : recent'[s].id = id => After(id) = recent'[s].state
           /\ \/ After(id) = 0
              \/ \E t \in DOMAIN commands' : commands'[t].req.id = id
              \/ \E i \in DOMAIN flushStops' : flushStops'[i].id = id
              \/ \E s \in Slots : recent'[s].id = id
<1>1. ReplayState(id)' = After(id)  BY DEF ReplayState, After, Answer, SeenRecently
<1>2. id # NoId  BY RequestAssumption DEF Ids
<1>3. OnceLive(commands', flushStops')  BY DEF RInv, UInv, LiveIdsUnique, OnceLive
<1>4. Once(recent') /\ Truthful(commands', flushStops', recent')
  <2>1. Once(recent')  BY DEF RInv, Once
  <2>2. Truthful(commands', flushStops', recent')  BY DEF RInv, Truthful, Standing
  <2>. QED  BY <2>1, <2>2
<1>5. \A t \in DOMAIN commands' : commands'[t].req.id = id => After(id) = Standing(commands'[t])
  BY <1>3, LiveAnswer DEF After
<1>6. \A i \in DOMAIN flushStops' : flushStops'[i].id = id => After(id) = 4
  BY <1>3, FlushAnswer DEF After
<1>7. \A s \in Slots : recent'[s].id = id => After(id) = recent'[s].state
  BY <1>2, <1>3, <1>4, RingAnswer DEF After
<1>8. \/ After(id) = 0
      \/ \E t \in DOMAIN commands' : commands'[t].req.id = id
      \/ \E i \in DOMAIN flushStops' : flushStops'[i].id = id
      \/ \E s \in Slots : recent'[s].id = id
  BY NoAnswer DEF After
<1>. QED  BY <1>1, <1>5, <1>6, <1>7, <1>8

-----------------------------------------------------------------------------
(* remember_ writes one slot: the id's own, or one whose id is not live.   *)
WrittenAt(v, ring, id, state, active) ==
    /\ recent'[v] = [id |-> id, state |-> state]
    /\ \A s \in Slots : s # v => recent'[s] = ring[s] /\ ring[s].id # id
    /\ \/ ring[v].id = id
       \/ ring[v].id \notin active
       \/ \A s \in Slots : ring[s].id \in active

LEMMA RememberShape ==
    ASSUME NEW ring \in Ring, Once(ring), recentCursor \in Slots, NEW id \in Ids,
           NEW state \in 0 .. 4, NEW active, Remember(ring, id, state, active)
    PROVE  /\ Once(recent')
           /\ \E v \in Slots : WrittenAt(v, ring, id, state, active)
<1>1. id # NoId  BY RequestAssumption DEF Ids
<1>2. CASE \E s \in Slots : ring[s].id = id
  <2>1. PICK v \in Slots : ring[v].id = id  BY <1>2
  <2>2. recent' = Marked(ring, {id}, state)  BY <1>2 DEF Remember
  <2>3. \A s \in Slots : recent'[s] = IF ring[s].id = id THEN [ring[s] EXCEPT !.state = state]
                                      ELSE ring[s]
    BY <2>2 DEF Marked
  <2>4. \A s \in Slots : s # v => ring[s].id # id  BY <1>1, <2>1 DEF Once
  <2>5. recent'[v] = [id |-> id, state |-> state]  BY <2>1, <2>3 DEF Ring
  <2>6. WrittenAt(v, ring, id, state, active)  BY <2>1, <2>3, <2>4, <2>5 DEF WrittenAt
  <2>7. \A s \in Slots : recent'[s].id = ring[s].id  BY <2>1, <2>3, <2>4, <2>5
  <2>8. Once(recent')  BY <2>7 DEF Once
  <2>. QED  BY <2>6, <2>8
<1>3. CASE ~ \E s \in Slots : ring[s].id = id
  <2>1. PICK v \in Slots : /\ IsVictim(v, ring, active)
                           /\ recent' = [ring EXCEPT ![v] = [id |-> id, state |-> state]]
    BY <1>3 DEF Remember
  <2>2. recent'[v] = [id |-> id, state |-> state] /\ \A s \in Slots : s # v => recent'[s] = ring[s]
    BY <2>1 DEF Ring
  <2>3. ring[v].id \notin active \/ \A s \in Slots : ring[s].id \in active
    BY <2>1 DEF IsVictim
  <2>4. WrittenAt(v, ring, id, state, active)  BY <1>3, <2>2, <2>3 DEF WrittenAt
  <2>5. recent'[v].id = id /\ \A s \in Slots : s # v => recent'[s].id = ring[s].id
    BY <2>2
  <2>6. Once(recent')  BY <1>3, <2>5 DEF Once
  <2>. QED  BY <2>4, <2>6
<1>. QED  BY <1>2, <1>3

LEMMA MarkedShape ==
    ASSUME NEW ring \in Ring, NEW ids, NEW state \in 0 .. 4
    PROVE  /\ Marked(ring, ids, state) \in Ring
           /\ \A s \in Slots :
                 /\ Marked(ring, ids, state)[s].id = ring[s].id
                 /\ Marked(ring, ids, state)[s].state = IF ring[s].id \in ids THEN state ELSE ring[s].state
           /\ Once(ring) => Once(Marked(ring, ids, state))
<1>1. Marked(ring, ids, state) \in Ring  BY MarkedType
<1>2. ASSUME NEW s \in Slots
      PROVE  /\ Marked(ring, ids, state)[s].id = ring[s].id
             /\ Marked(ring, ids, state)[s].state = IF ring[s].id \in ids THEN state ELSE ring[s].state
  BY DEF Marked, Ring
<1>. QED  BY <1>1, <1>2 DEF Once

(* Steps that admit nothing, start nothing and leave the ring alone.       *)
LEMMA QuietRing ==
    ASSUME RInv, UInv', KeptCommands, \E h : CarriedBy(h), UNCHANGED recent,
           \A t \in DOMAIN commands' : commands'[t].started = commands[t].started
    PROVE  RInv'
<1>1. Once(recent')  BY DEF RInv, Once
<1>2. PICK h : CarriedBy(h)  OBVIOUS
<1>3. /\ \A t \in DOMAIN commands' :
            t \in DOMAIN commands /\ commands'[t].req = commands[t].req
            /\ Standing(commands'[t]) = Standing(commands[t])
      /\ \A i \in DOMAIN flushStops' :
            h[i] \in DOMAIN flushStops /\ flushStops'[i].id = flushStops[h[i]].id
  BY <1>2 DEF KeptCommands, CarriedBy, Standing
<1>4. Truthful(commands', flushStops', recent')
  BY <1>3 DEF RInv, Truthful
<1>. QED  BY <1>1, <1>4 DEF RInv, Once, Truthful, Standing

LEMMA QuietAnswers ==
    ASSUME RInv, RInv', KeptCommands, \E h : CarriedBy(h), UNCHANGED recent,
           \A t \in DOMAIN commands' : commands'[t].started = commands[t].started,
           NEW id \in Ids
    PROVE  After(id) = Before(id) \/ After(id) = 0
<1>1. PICK h : CarriedBy(h)  OBVIOUS
<1>2. /\ \A t \in DOMAIN commands' :
            t \in DOMAIN commands /\ commands'[t].req = commands[t].req
            /\ Standing(commands'[t]) = Standing(commands[t])
      /\ \A i \in DOMAIN flushStops' :
            h[i] \in DOMAIN flushStops /\ flushStops'[i].id = flushStops[h[i]].id
  BY <1>1 DEF KeptCommands, CarriedBy, Standing
<1>3. CASE \E s \in Slots : recent'[s].id = id  BY <1>3, AnswersNow, AnswersThen
<1>4. CASE \E t \in DOMAIN commands' : commands'[t].req.id = id
  BY <1>2, <1>4, AnswersNow, AnswersThen
<1>5. CASE \E i \in DOMAIN flushStops' : flushStops'[i].id = id
  BY <1>2, <1>5, AnswersNow, AnswersThen
<1>. QED  BY <1>3, <1>4, <1>5, AnswersThen

(* An answer after a step may be the one before, be forgotten, be          *)
(* displaced or disarmed, or follow an unknown id.                         *)
Advances(id) ==
    \/ Before(id) = 0 \/ After(id) = 0 \/ After(id) = Before(id) \/ After(id) = 4
    \/ Before(id) = 1 /\ After(id) = 2

LEMMA RefuseRing ==
    ASSUME RInv, UInv', NEW r \in Requests, Refuse(r)
    PROVE  RInv' /\ \A id \in Ids : Advances(id)
<1>1. /\ r.id \in Ids /\ UNCHANGED <<commands, flushStops>>
      /\ r.id \notin ActiveIds(commands, flushStops)
      /\ \A s \in Slots : recent[s].id # r.id
      /\ Remember(recent, r.id, 3, ActiveIds(commands, flushStops))
  BY RequestType DEF Refuse, IsDuplicate, SeenRecently
<1>2. recent \in Ring /\ recentCursor \in Slots /\ Once(recent)  BY Typed DEF RInv, UInv
<1>3. /\ Once(recent')
      /\ \E v \in Slots : WrittenAt(v, recent, r.id, 3, ActiveIds(commands, flushStops))
  BY <1>1, <1>2, RememberShape
<1>4. PICK v \in Slots : /\ recent'[v] = [id |-> r.id, state |-> 3]
                         /\ \A s \in Slots : s # v => recent'[s] = recent[s]
  BY <1>3 DEF WrittenAt
<1>5. /\ \A t \in DOMAIN commands' : commands'[t].req.id # r.id
      /\ \A i \in DOMAIN flushStops' : flushStops'[i].id # r.id
  BY <1>1 DEF ActiveIds
<1>6. Truthful(commands', flushStops', recent')
  <2>. SUFFICES ASSUME NEW s \in Slots
                PROVE  /\ \A t \in DOMAIN commands' : commands'[t].req.id = recent'[s].id =>
                             recent'[s].state = Standing(commands'[t])
                       /\ \A i \in DOMAIN flushStops' : flushStops'[i].id = recent'[s].id =>
                             recent'[s].state = 4
    BY DEF Truthful
  <2>1. CASE s = v  BY <1>4, <1>5, <2>1
  <2>2. CASE s # v  BY <1>1, <1>4, <2>2 DEF RInv, Truthful
  <2>. QED  BY <2>1, <2>2
<1>7. RInv'  BY <1>3, <1>6 DEF RInv, Once, Truthful, Standing
<1>8. ASSUME NEW id \in Ids PROVE Advances(id)
  <2>1. CASE id = r.id
    <3>1. Before(id) = 0  BY <1>1, <1>5, <2>1, NoAnswer DEF Before
    <3>. QED  BY <3>1 DEF Advances
  <2>2. CASE id # r.id
    <3>1. \A s \in Slots : recent'[s].id = id => recent'[s] = recent[s]  BY <1>4, <2>2
    <3>2. After(id) = Before(id) \/ After(id) = 0
      <4>1. CASE \E s \in Slots : recent'[s].id = id
        BY <1>7, <3>1, <4>1, AnswersNow, AnswersThen
      <4>2. CASE \E t \in DOMAIN commands' : commands'[t].req.id = id
        BY <1>1, <1>7, <4>2, AnswersNow, AnswersThen
      <4>3. CASE \E i \in DOMAIN flushStops' : flushStops'[i].id = id
        BY <1>1, <1>7, <4>3, AnswersNow, AnswersThen
      <4>. QED  BY <1>7, <4>1, <4>2, <4>3, AnswersThen
    <3>. QED  BY <3>2 DEF Advances
  <2>. QED  BY <2>1, <2>2
<1>. QED  BY <1>7, <1>8

LEMMA DisarmRing ==
    ASSUME RInv, UInv', NEW gone \in Ids, Disarm(gone)
    PROVE  RInv' /\ \A id \in Ids : Advances(id)
<1>1. /\ DOMAIN commands' = {t \in DOMAIN commands : commands[t].req.id # gone}
      /\ \A t \in DOMAIN commands' : commands'[t] = commands[t]
  BY DisarmShape DEF RInv, UInv
<1>2. PICK h : SparedBy(h, gone)  BY DisarmShape DEF RInv, UInv
<1>3. \A i \in DOMAIN flushStops' :
         /\ h[i] \in DOMAIN flushStops
         /\ flushStops'[i] = flushStops[h[i]] /\ flushStops'[i].id # gone
  BY <1>2 DEF SparedBy, CarriedBy
<1>4. Remember(recent, gone, 4, ActiveIds(commands', flushStops'))  BY DEF Disarm
<1>5. recent \in Ring /\ recentCursor \in Slots /\ Once(recent)  BY Typed DEF RInv, UInv
<1>6. /\ Once(recent')
      /\ \E v \in Slots : WrittenAt(v, recent, gone, 4, ActiveIds(commands', flushStops'))
  BY <1>4, <1>5, RememberShape
<1>7. PICK v \in Slots : /\ recent'[v] = [id |-> gone, state |-> 4]
                         /\ \A s \in Slots : s # v => recent'[s] = recent[s]
  BY <1>6 DEF WrittenAt
<1>8. Truthful(commands', flushStops', recent')
  <2>. SUFFICES ASSUME NEW s \in Slots
                PROVE  /\ \A t \in DOMAIN commands' : commands'[t].req.id = recent'[s].id =>
                             recent'[s].state = Standing(commands'[t])
                       /\ \A i \in DOMAIN flushStops' : flushStops'[i].id = recent'[s].id =>
                             recent'[s].state = 4
    BY DEF Truthful
  <2>1. CASE s = v  BY <1>1, <1>3, <1>7, <2>1
  <2>2. CASE s # v  BY <1>1, <1>3, <1>7, <2>2 DEF RInv, Truthful
  <2>. QED  BY <2>1, <2>2
<1>9. RInv'  BY <1>6, <1>8 DEF RInv, Once, Truthful, Standing
<1>10. ASSUME NEW id \in Ids PROVE Advances(id)
  <2>1. CASE id = gone
    <3>1. After(id) = 4  BY <1>7, <1>9, <2>1, AnswersThen
    <3>. QED  BY <3>1 DEF Advances
  <2>2. CASE id # gone
    <3>1. \A s \in Slots : recent'[s].id = id => recent'[s] = recent[s]  BY <1>7, <2>2
    <3>2. After(id) = Before(id) \/ After(id) = 0
      <4>1. CASE \E s \in Slots : recent'[s].id = id
        BY <1>9, <3>1, <4>1, AnswersNow, AnswersThen
      <4>2. CASE \E t \in DOMAIN commands' : commands'[t].req.id = id
        BY <1>1, <1>9, <4>2, AnswersNow, AnswersThen
      <4>3. CASE \E i \in DOMAIN flushStops' : flushStops'[i].id = id
        BY <1>3, <1>9, <4>3, AnswersNow, AnswersThen
      <4>. QED  BY <1>9, <4>1, <4>2, <4>3, AnswersThen
    <3>. QED  BY <3>2 DEF Advances
  <2>. QED  BY <2>1, <2>2
<1>. QED  BY <1>9, <1>10

LEMMA DrainRing ==
    ASSUME RInv, UInv', DrainArmedStops
    PROVE  RInv' /\ \A id \in Ids : Advances(id)
<1>1. DOMAIN commands' = {} /\ DOMAIN flushStops' = {} /\ UNCHANGED recent
  BY DEF DrainArmedStops
<1>2. Once(recent') /\ Truthful(commands', flushStops', recent')
  BY <1>1 DEF RInv, Once, Truthful
<1>3. RInv'  BY <1>2 DEF RInv, Once, Truthful, Standing
<1>4. ASSUME NEW id \in Ids PROVE Advances(id)
  <2>1. CASE \E s \in Slots : recent'[s].id = id
    BY <1>1, <1>3, <2>1, AnswersNow, AnswersThen DEF Advances
  <2>2. CASE ~ \E s \in Slots : recent'[s].id = id
    BY <1>1, <1>3, <2>2, AnswersThen DEF Advances
  <2>. QED  BY <2>1, <2>2
<1>. QED  BY <1>3, <1>4

(* Where the live ids of an admission come from.                           *)
LEMMA AdmitSources ==
    ASSUME IInv, NEW r \in Requests, Admit(r)
    PROVE  /\ \A t \in DOMAIN commands' :
                 \/ commands'[t].req.id = r.id /\ Standing(commands'[t]) = 1
                 \/ t \in Retained(r.target) /\ commands'[t] = commands[t]
           /\ \A i \in DOMAIN flushStops' :
                 \/ i \in DOMAIN flushStops /\ flushStops'[i] = flushStops[i]
                 \/ \E t \in Overlapped(r.target) : flushStops'[i].id = commands[t].req.id
<1>. DEFINE D == Overlapped(r.target)
<1>1. /\ DOMAIN commands' = Retained(r.target) \cup {r.target}
      /\ commands'[r.target] = NewCommand(r)
      /\ \A t \in Retained(r.target) : commands'[t] = commands[t]
      /\ \E debtors, m : MovedBy(debtors, m, D)
  BY AdmitShape
<1>2. PICK debtors, m : MovedBy(debtors, m, D)  BY <1>1
<1>3. PICK n : n = Len(flushStops)  OBVIOUS
<1>4. n \in Nat /\ DOMAIN flushStops = 1 .. n  BY <1>3, Typed
<1>5. /\ m \in Nat /\ debtors \in [1 .. m -> Owing(D)]
      /\ DOMAIN flushStops' = 1 .. n + m
      /\ \A i \in 1 .. n : flushStops'[i] = flushStops[i]
      /\ \A k \in 1 .. m : flushStops'[n + k] = FlushStop(commands[debtors[k]])
  BY <1>2, <1>3 DEF MovedBy
<1>6. \A t : FlushStop(commands[t]).id = commands[t].req.id  BY DEF FlushStop
<1>7. \A k \in 1 .. m : debtors[k] \in D  BY <1>5 DEF Owing
<1>8. ASSUME NEW i \in 1 .. n + m
      PROVE  \/ i \in 1 .. n /\ flushStops'[i] = flushStops[i]
             \/ \E t \in D : flushStops'[i].id = commands[t].req.id
  <2>1. CASE i <= n
    <3>1. i \in 1 .. n  BY <1>4, <1>5, <2>1
    <3>. QED  BY <1>5, <3>1
  <2>2. CASE ~ (i <= n)
    <3>1. i - n \in 1 .. m /\ i = n + (i - n)  BY <1>4, <1>5, <2>2
    <3>2. PICK k \in 1 .. m : i = n + k  BY <3>1
    <3>3. flushStops'[i].id = commands[debtors[k]].req.id  BY <1>5, <1>6, <3>2
    <3>. QED  BY <1>7, <3>2, <3>3
  <2>. QED  BY <2>1, <2>2
<1>9. NewCommand(r).req.id = r.id /\ Standing(NewCommand(r)) = 1  BY DEF NewCommand, Standing
<1>10. \A t \in DOMAIN commands' :
          \/ commands'[t].req.id = r.id /\ Standing(commands'[t]) = 1
          \/ t \in Retained(r.target) /\ commands'[t] = commands[t]
  BY <1>1, <1>9
<1>11. \A i \in DOMAIN flushStops' :
          \/ i \in DOMAIN flushStops /\ flushStops'[i] = flushStops[i]
          \/ \E t \in D : flushStops'[i].id = commands[t].req.id
  BY <1>4, <1>5, <1>8
<1>. QED  BY <1>10, <1>11

LEMMA AdmitRing ==
    ASSUME RInv, UInv', NEW r \in Requests, Admit(r)
    PROVE  RInv' /\ \A id \in Ids : Advances(id)
<1>. DEFINE D == Overlapped(r.target)
            ids == {commands[t].req.id : t \in D}
<1>1. PICK ring : ring = Marked(recent, ids, 4)  OBVIOUS
<1>2. recent \in Ring /\ recentCursor \in Slots /\ Once(recent)  BY Typed DEF RInv, UInv
<1>3. ring \in Ring /\ Once(ring) /\ \A s \in Slots :
         ring[s].id = recent[s].id /\ ring[s].state = IF recent[s].id \in ids THEN 4 ELSE recent[s].state
  BY <1>1, <1>2, MarkedShape
<1>4. /\ r.id \in Ids
      /\ r.id \notin ActiveIds(commands, flushStops)
      /\ \A s \in Slots : recent[s].id # r.id
      /\ Remember(ring, r.id, 1, ActiveIds(commands', flushStops'))
  BY <1>1, RequestType DEF Admit, IsDuplicate, SeenRecently
<1>5. /\ Once(recent')
      /\ \E v \in Slots : WrittenAt(v, ring, r.id, 1, ActiveIds(commands', flushStops'))
  BY <1>2, <1>3, <1>4, RememberShape
<1>6. PICK v \in Slots : /\ recent'[v] = [id |-> r.id, state |-> 1]
                         /\ \A s \in Slots : s # v => recent'[s] = ring[s]
  BY <1>5 DEF WrittenAt
<1>7. /\ \A t \in DOMAIN commands' :
            \/ commands'[t].req.id = r.id /\ Standing(commands'[t]) = 1
            \/ t \in Retained(r.target) /\ commands'[t] = commands[t]
      /\ \A i \in DOMAIN flushStops' :
            \/ i \in DOMAIN flushStops /\ flushStops'[i] = flushStops[i]
            \/ \E t \in D : flushStops'[i].id = commands[t].req.id
  BY AdmitSources DEF RInv, UInv
<1>8. /\ \A t \in DOMAIN commands : commands[t].req.id # r.id
      /\ \A i \in DOMAIN flushStops : flushStops[i].id # r.id
  BY <1>4 DEF ActiveIds
<1>9. D \subseteq DOMAIN commands /\ Retained(r.target) \subseteq DOMAIN commands
      /\ D \cap Retained(r.target) = {}
  BY DEF Overlapped, Retained
<1>10. /\ \A t \in Retained(r.target) : commands[t].req.id \notin ids
       /\ \A i \in DOMAIN flushStops : flushStops[i].id \notin ids
  BY <1>9 DEF RInv, UInv, LiveIdsUnique
<1>11. \A i \in DOMAIN flushStops' : flushStops'[i].id # r.id  BY <1>7, <1>8, <1>9
<1>12. Truthful(commands', flushStops', recent')
  <2>1. ASSUME NEW s \in Slots, NEW t \in DOMAIN commands', commands'[t].req.id = recent'[s].id
        PROVE  recent'[s].state = Standing(commands'[t])
    <3>1. CASE s = v
      <4>1. commands'[t].req.id = r.id  BY <1>6, <2>1, <3>1
      <4>2. Standing(commands'[t]) = 1  BY <1>7, <1>8, <1>9, <4>1
      <4>. QED  BY <1>6, <3>1, <4>2
    <3>2. CASE s # v
      <4>1. commands'[t].req.id = recent[s].id  BY <1>3, <1>6, <2>1, <3>2
      <4>2. commands'[t].req.id # r.id  BY <1>4, <4>1
      <4>3. t \in Retained(r.target) /\ commands'[t] = commands[t]  BY <1>7, <4>2
      <4>4. recent[s].id \notin ids  BY <1>10, <4>1, <4>3
      <4>5. recent'[s].state = recent[s].state  BY <1>3, <1>6, <3>2, <4>4
      <4>6. recent[s].state = Standing(commands[t])  BY <1>9, <4>1, <4>3 DEF RInv, Truthful
      <4>. QED  BY <4>3, <4>5, <4>6
    <3>. QED  BY <3>1, <3>2
  <2>2. ASSUME NEW s \in Slots, NEW i \in DOMAIN flushStops', flushStops'[i].id = recent'[s].id
        PROVE  recent'[s].state = 4
    <3>1. s # v  BY <1>6, <1>11, <2>2
    <3>2. /\ recent'[s].state = IF recent[s].id \in ids THEN 4 ELSE recent[s].state
          /\ recent'[s].id = recent[s].id
      BY <1>3, <1>6, <3>1
    <3>3. CASE i \in DOMAIN flushStops /\ flushStops'[i] = flushStops[i]
      BY <2>2, <3>2, <3>3 DEF RInv, Truthful
    <3>4. CASE \E t \in D : flushStops'[i].id = commands[t].req.id
      BY <2>2, <3>2, <3>4
    <3>. QED  BY <1>7, <3>3, <3>4
  <2>. QED  BY <2>1, <2>2 DEF Truthful
<1>13. RInv'  BY <1>5, <1>12 DEF RInv, Once, Truthful, Standing
<1>14. ASSUME NEW id \in Ids PROVE Advances(id)
  <2>1. CASE id = r.id
    <3>1. Before(id) = 0  BY <1>4, <1>8, <2>1, NoAnswer DEF Before
    <3>. QED  BY <3>1 DEF Advances
  <2>2. CASE id # r.id
    <3>1. After(id) = Before(id) \/ After(id) = 0 \/ After(id) = 4
      <4>1. CASE \E s \in Slots : recent'[s].id = id
        <5>1. PICK s \in Slots : recent'[s].id = id  BY <4>1
        <5>2. s # v  BY <1>6, <2>2, <5>1
        <5>3. recent[s].id = id /\ (recent'[s].state = 4 \/ recent'[s].state = recent[s].state)
          BY <1>3, <1>6, <5>1, <5>2
        <5>. QED  BY <1>13, <5>1, <5>3, AnswersNow, AnswersThen
      <4>2. CASE \E t \in DOMAIN commands' : commands'[t].req.id = id
        <5>1. PICK t \in DOMAIN commands' : commands'[t].req.id = id  BY <4>2
        <5>2. t \in DOMAIN commands /\ commands'[t] = commands[t]  BY <1>7, <1>9, <2>2, <5>1
        <5>. QED  BY <1>13, <5>1, <5>2, AnswersNow, AnswersThen
      <4>3. CASE \E i \in DOMAIN flushStops' : flushStops'[i].id = id
        BY <1>13, <4>3, AnswersThen
      <4>. QED  BY <1>13, <4>1, <4>2, <4>3, AnswersThen
    <3>. QED  BY <3>1 DEF Advances
  <2>. QED  BY <2>1, <2>2
<1>. QED  BY <1>13, <1>14

LEMMA QuietStep ==
    ASSUME RInv, UInv', KeptCommands, \E h : CarriedBy(h), UNCHANGED recent,
           \A t \in DOMAIN commands' : commands'[t].started = commands[t].started
    PROVE  RInv' /\ \A id \in Ids : Advances(id)
<1>1. RInv'  BY QuietRing
<1>. QED  BY <1>1, QuietAnswers DEF Advances

(* A hand-off marks the id of a command it starts, and no other.           *)
LEMMA DispatchRing ==
    ASSUME RInv, UInv', NEW i \in Entries, Dispatch(i),
           Armed[order[i + 1]].phase \in {"ACTION", "TRAILER", "STOP"}
    PROVE  RInv' /\ \A id \in Ids : Advances(id)
<1>1. PICK u : u = order[i + 1]  OBVIOUS
<1>2. PICK c : c = Armed[u]  OBVIOUS
<1>3. /\ u \in DOMAIN commands
      /\ DOMAIN commands' \subseteq DOMAIN commands
      /\ \A t \in DOMAIN commands' : commands'[t] = IF t = u THEN Handed(c) ELSE Armed[t]
      /\ UNCHANGED flushStops
  BY <1>1, <1>2, DispatchCommands DEF RInv, UInv
<1>4. recent' = IF Starts(c) THEN Marked(recent, {c.req.id}, 2) ELSE recent
  BY <1>1, <1>2 DEF Dispatch
<1>5. \A t \in DOMAIN commands : /\ Armed[t].req = commands[t].req
                                 /\ Armed[t].started = commands[t].started
  BY ArmedShape DEF RInv, UInv
<1>6. CommandOk(c) /\ c.phase \in {"ACTION", "TRAILER", "STOP"} /\ c.started \in BOOLEAN
  <2>1. CommandOk(c)  BY <1>2, <1>3, ArmedShape DEF RInv, UInv
  <2>. QED  BY <1>1, <1>2, <2>1 DEF CommandOk, Command
<1>7. /\ Handed(c).req = c.req
      /\ c.phase = "STOP" => Handed(c).started = c.started
      /\ c.phase \in {"ACTION", "TRAILER"} => Handed(c).started = (c.started \/ Starts(c))
  <2>1. now \in Instants  BY Typed DEF RInv, UInv
  <2>. QED  BY <1>6, <2>1, HandedShape
<1>8. KeptCommands
  BY <1>2, <1>3, <1>5, <1>7 DEF KeptCommands
<1>9. \E h : CarriedBy(h)  BY <1>3, UnchangedCarried
<1>10. CASE ~ Starts(c)
  <2>1. Handed(c).started = c.started
    <3>1. CASE c.phase = "STOP"  BY <1>7, <3>1
    <3>2. CASE c.phase \in {"ACTION", "TRAILER"}
      <4>1. (c.started \/ Starts(c)) = c.started  BY <1>6, <1>10
      <4>. QED  BY <1>7, <3>2, <4>1
    <3>. QED  BY <1>6, <3>1, <3>2
  <2>2. \A t \in DOMAIN commands' : commands'[t].started = commands[t].started
    BY <1>2, <1>3, <1>5, <2>1
  <2>3. UNCHANGED recent  BY <1>4, <1>10
  <2>. QED  BY <1>8, <1>9, <2>2, <2>3, QuietStep
<1>11. CASE Starts(c)
  <2>1. recent \in Ring /\ Once(recent)  BY Typed DEF RInv, UInv
  <2>2. /\ Once(recent')
        /\ \A s \in Slots :
              /\ recent'[s].id = recent[s].id
              /\ recent'[s].state = IF recent[s].id = c.req.id THEN 2 ELSE recent[s].state
    BY <1>4, <1>11, <2>1, MarkedShape
  <2>3. c.req.id = commands[u].req.id /\ ~ commands[u].started
    BY <1>2, <1>3, <1>5, <1>11 DEF Starts
  <2>4. Standing(Handed(c)) = 2
    <3>1. c.phase \in {"ACTION", "TRAILER"}  BY <1>11 DEF Starts
    <3>2. Handed(c).started  BY <1>7, <1>11, <3>1
    <3>. QED  BY <3>2 DEF Standing
  <2>5. \A t \in DOMAIN commands' :
           /\ t \in DOMAIN commands /\ commands'[t].req.id = commands[t].req.id
           /\ Standing(commands'[t]) = IF t = u THEN 2 ELSE Standing(commands[t])
    BY <1>2, <1>3, <1>5, <1>7, <2>4 DEF Standing
  <2>6. /\ \A t \in DOMAIN commands : t # u => commands[t].req.id # c.req.id
        /\ \A k \in DOMAIN flushStops : flushStops[k].id # c.req.id
    BY <1>3, <2>3 DEF RInv, UInv, LiveIdsUnique
  <2>7. Truthful(commands', flushStops', recent')
    <3>1. ASSUME NEW s \in Slots, NEW t \in DOMAIN commands', commands'[t].req.id = recent'[s].id
          PROVE  recent'[s].state = Standing(commands'[t])
      <4>1. commands[t].req.id = recent[s].id /\ t \in DOMAIN commands  BY <2>2, <2>5, <3>1
      <4>2. CASE t = u  BY <2>2, <2>3, <2>5, <4>1, <4>2
      <4>3. CASE t # u
        <5>1. recent'[s].state = recent[s].state  BY <2>2, <2>6, <4>1, <4>3
        <5>2. recent[s].state = Standing(commands[t])  BY <4>1 DEF RInv, Truthful
        <5>. QED  BY <2>5, <4>3, <5>1, <5>2
      <4>. QED  BY <4>2, <4>3
    <3>2. ASSUME NEW s \in Slots, NEW k \in DOMAIN flushStops', flushStops'[k].id = recent'[s].id
          PROVE  recent'[s].state = 4
      <4>1. k \in DOMAIN flushStops /\ flushStops[k].id = recent[s].id  BY <1>3, <2>2, <3>2
      <4>2. recent'[s].state = recent[s].state  BY <2>2, <2>6, <4>1
      <4>. QED  BY <4>1, <4>2 DEF RInv, Truthful
    <3>. QED  BY <3>1, <3>2 DEF Truthful
  <2>8. RInv'  BY <2>2, <2>7 DEF RInv, Once, Truthful, Standing
  <2>9. ASSUME NEW id \in Ids PROVE Advances(id)
    <3>1. CASE id = c.req.id
      <4>1. Before(id) = 1
        <5>1. Before(id) = Standing(commands[u])  BY <1>3, <2>3, <3>1, AnswersNow
        <5>. QED  BY <2>3, <5>1 DEF Standing
      <4>2. After(id) = 2 \/ After(id) = 0
        <5>1. CASE \E s \in Slots : recent'[s].id = id
          BY <2>2, <2>8, <3>1, <5>1, AnswersThen
        <5>2. CASE \E t \in DOMAIN commands' : commands'[t].req.id = id
          <6>1. PICK t \in DOMAIN commands' : commands'[t].req.id = id  BY <5>2
          <6>2. t = u  BY <2>5, <2>6, <3>1, <6>1
          <6>3. Standing(commands'[t]) = 2  BY <2>5, <6>1, <6>2
          <6>. QED  BY <2>8, <6>1, <6>3, AnswersThen
        <5>3. ~ \E k \in DOMAIN flushStops' : flushStops'[k].id = id  BY <1>3, <2>6, <3>1
        <5>. QED  BY <2>8, <5>1, <5>2, <5>3, AnswersThen
      <4>. QED  BY <4>1, <4>2 DEF Advances
    <3>2. CASE id # c.req.id
      <4>1. After(id) = Before(id) \/ After(id) = 0
        <5>1. CASE \E s \in Slots : recent'[s].id = id
          <6>1. PICK s \in Slots : recent'[s].id = id  BY <5>1
          <6>2. recent[s].id = id /\ recent'[s].state = recent[s].state  BY <2>2, <3>2, <6>1
          <6>. QED  BY <2>8, <6>1, <6>2, AnswersNow, AnswersThen
        <5>2. CASE \E t \in DOMAIN commands' : commands'[t].req.id = id
          <6>1. PICK t \in DOMAIN commands' : commands'[t].req.id = id  BY <5>2
          <6>2. t # u  BY <1>3, <2>3, <2>5, <3>2, <6>1
          <6>3. commands[t].req.id = id /\ Standing(commands'[t]) = Standing(commands[t])
                /\ t \in DOMAIN commands
            BY <2>5, <6>1, <6>2
          <6>. QED  BY <2>8, <6>1, <6>3, AnswersNow, AnswersThen
        <5>3. CASE \E k \in DOMAIN flushStops' : flushStops'[k].id = id
          BY <1>3, <2>8, <5>3, AnswersNow, AnswersThen
        <5>. QED  BY <2>8, <5>1, <5>2, <5>3, AnswersThen
      <4>. QED  BY <4>1 DEF Advances
    <3>. QED  BY <3>1, <3>2
  <2>. QED  BY <2>8, <2>9
<1>. QED  BY <1>10, <1>11

LEMMA StepRing ==
    ASSUME RInv, [Next]_vars
    PROVE  RInv' /\ \A id \in Ids : Advances(id)
<1>1. UInv'  BY NextUnique DEF RInv
<1>2. IInv  BY DEF RInv, UInv
<1>3. CASE \E r \in Requests : Admit(r)  BY <1>1, <1>3, AdmitRing
<1>4. CASE \E r \in Requests : Refuse(r)  BY <1>1, <1>4, RefuseRing
<1>5. CASE \E id \in Ids : Disarm(id)  BY <1>1, <1>5, DisarmRing
<1>6. CASE DrainArmedStops  BY <1>1, <1>6, DrainRing
<1>7. CASE /\ UNCHANGED recent /\ UNCHANGED flushStops
           /\ UNCHANGED commands \/ commands' = Armed
  <2>1. KeptCommands
    <3>1. CASE UNCHANGED commands  BY <3>1 DEF KeptCommands
    <3>2. CASE commands' = Armed  BY <1>2, <3>2, ArmedKept
    <3>. QED  BY <1>7, <3>1, <3>2
  <2>2. \A t \in DOMAIN commands' : commands'[t].started = commands[t].started
    <3>1. CASE UNCHANGED commands  BY <3>1
    <3>2. CASE commands' = Armed
      <4>1. DOMAIN commands' = DOMAIN commands  BY <3>2 DEF Armed
      <4>. QED  BY <1>2, <3>2, <4>1, ArmedShape
    <3>. QED  BY <1>7, <3>1, <3>2
  <2>3. \E h : CarriedBy(h)  BY <1>7, UnchangedCarried
  <2>. QED  BY <1>1, <1>7, <2>1, <2>2, <2>3, QuietStep
<1>8. CASE SendFlushStop
  <2>1. commands' = Armed /\ UNCHANGED recent  BY <1>8 DEF SendFlushStop
  <2>2. \E h : CarriedBy(h)  BY <1>2, <1>8, SendFlushStopShape DEF FirstPaidBy
  <2>3. \A t \in DOMAIN commands' : commands'[t].started = commands[t].started
    <3>1. DOMAIN commands' = DOMAIN commands  BY <2>1 DEF Armed
    <3>. QED  BY <1>2, <2>1, <3>1, ArmedShape
  <2>. QED  BY <1>1, <1>2, <2>1, <2>2, <2>3, ArmedKept, QuietStep
<1>9. CASE SendScheduledStop \/ SendAction
  <2>1. PICK i \in Entries : Dispatch(i) /\ Armed[order[i + 1]].phase \in {"ACTION", "TRAILER", "STOP"}
    BY <1>9 DEF SendScheduledStop, SendAction, ActionCandidates, FirstFromCursor, StopReady,
                ActionReady, AirOwners, Entry
  <2>. QED  BY <1>1, <2>1, DispatchRing
<1>10. CASE Poll
  <2>1. CASE PollIdle \/ PollAirBusy \/ PollNothingDue
    BY <1>7, <2>1 DEF PollIdle, PollAirBusy, PollNothingDue
  <2>. QED  BY <1>8, <1>9, <1>10, <2>1 DEF Poll, NextCall
<1>11. CASE Elapse  BY <1>7, <1>11 DEF Elapse, schedulerVars
<1>12. CASE UNCHANGED vars  BY <1>7, <1>12 DEF vars
<1>. QED  BY <1>3, <1>4, <1>5, <1>6, <1>10, <1>11, <1>12 DEF Next

LEMMA NextRing == RInv /\ [Next]_vars => RInv'
BY StepRing

LEMMA InitRing == Init => RInv
<1>. SUFFICES ASSUME Init PROVE RInv  OBVIOUS
<1>1. DOMAIN commands = {} /\ DOMAIN flushStops = {} /\ \A s \in Slots : recent[s].id = NoId
  BY DEF Init
<1>. QED  BY <1>1, InitUnique DEF RInv, Once, Truthful

(* What a redelivery of an id is told only moves forward: an answer may be *)
(* forgotten, but admitted never follows started, and nothing follows      *)
(* displaced or rejected except a disarm (replay_state, remember_,         *)
(* mark_recent_), whatever the size of the ring.                           *)
THEOREM AnswersAlwaysAdvance == Spec => AnswersOnlyAdvance
<1>1. RInv /\ [Next]_vars =>
         [\A id \in Ids :
            LET before == ReplayState(id)
                after == ReplayState(id)'
            IN  before # 0 /\ after # 0 =>
                    \/ after = before
                    \/ after = 4
                    \/ before = 1 /\ after = 2]_vars
  <2>. SUFFICES ASSUME RInv, [Next]_vars, NEW id \in Ids
                PROVE  LET before == ReplayState(id)
                           after == ReplayState(id)'
                       IN  before # 0 /\ after # 0 =>
                               \/ after = before
                               \/ after = 4
                               \/ before = 1 /\ after = 2
    OBVIOUS
  <2>1. RInv' /\ Advances(id)  BY StepRing
  <2>2. ReplayState(id) = Before(id)  BY AnswersNow
  <2>3. ReplayState(id)' = After(id)  BY <2>1, AnswersThen
  <2>. QED  BY <2>1, <2>2, <2>3 DEF Advances
<1>. QED  BY InitRing, NextRing, <1>1, PTL DEF Spec, AnswersOnlyAdvance

-----------------------------------------------------------------------------
(* The ring never forgets a live id, if it has more slots than ids can be  *)
(* live: commands and flush entries are bounded by MAX_TARGETS each.       *)
LEMMA ImageCount ==
    ASSUME NEW S, NEW f, IsFiniteSet(S)
    PROVE  /\ IsFiniteSet({f[x] : x \in S})
           /\ Cardinality({f[x] : x \in S}) \in Nat /\ Cardinality(S) \in Nat
           /\ Cardinality({f[x] : x \in S}) <= Cardinality(S)
<1>. DEFINE V == {f[x] : x \in S}
            g == [x \in S |-> f[x]]
<1>1. g \in Surjection(S, V)  BY DEF Surjection
<1>2. IsFiniteSet(V) /\ Cardinality(V) <= Cardinality(S)  BY <1>1, FS_Surjection
<1>. QED  BY <1>2, FS_CardinalityType

Few(active) ==
    /\ IsFiniteSet(active)
    /\ Cardinality(active) \in Nat
    /\ Cardinality(active) <= 2 * MaxTargets

FewLive == Few(ActiveIds(commands, flushStops))

LEMMA LiveAreFew == BInv => FewLive
<1>. SUFFICES ASSUME BInv PROVE FewLive  OBVIOUS
<1>1. PICK f : f = [t \in DOMAIN commands |-> commands[t].req.id]  OBVIOUS
<1>2. PICK g : g = [i \in DOMAIN flushStops |-> flushStops[i].id]  OBVIOUS
<1>3. PICK F : F = {f[t] : t \in DOMAIN commands}  OBVIOUS
<1>4. PICK G : G = {g[i] : i \in DOMAIN flushStops}  OBVIOUS
<1>5. ActiveIds(commands, flushStops) = F \cup G  BY <1>1, <1>2, <1>3, <1>4 DEF ActiveIds
<1>6. /\ IsFiniteSet(DOMAIN commands) /\ Cardinality(DOMAIN commands) <= MaxTargets
      /\ Owing(DOMAIN commands) \subseteq DOMAIN commands
  BY CountsFinite DEF BInv, LiveBounded, Owing
<1>7. /\ IsFiniteSet(DOMAIN flushStops) /\ Cardinality(DOMAIN flushStops) <= MaxTargets
  <2>1. Cardinality(Owing(DOMAIN commands)) \in Nat  BY <1>6, CountsFinite DEF BInv
  <2>2. Len(flushStops) <= MaxTargets /\ Len(flushStops) \in Nat
    BY <2>1, LimitAssumption, CountsFinite DEF BInv, ObligationsBounded
  <2>3. DOMAIN flushStops = 1 .. Len(flushStops)  BY Typed DEF BInv
  <2>. QED  BY <2>2, <2>3, IntervalCount
<1>8. IsFiniteSet(F) /\ Cardinality(F) \in Nat /\ Cardinality(F) <= MaxTargets
  <2>1. /\ IsFiniteSet(F) /\ Cardinality(F) \in Nat /\ Cardinality(DOMAIN commands) \in Nat
        /\ Cardinality(F) <= Cardinality(DOMAIN commands)
    BY <1>3, <1>6, ImageCount
  <2>. QED  BY <1>6, <2>1, LimitAssumption
<1>9. IsFiniteSet(G) /\ Cardinality(G) \in Nat /\ Cardinality(G) <= MaxTargets
  <2>1. /\ IsFiniteSet(G) /\ Cardinality(G) \in Nat /\ Cardinality(DOMAIN flushStops) \in Nat
        /\ Cardinality(G) <= Cardinality(DOMAIN flushStops)
    BY <1>4, <1>7, ImageCount
  <2>. QED  BY <1>7, <2>1, LimitAssumption
<1>10. /\ IsFiniteSet(F \cup G)
       /\ Cardinality(F \cup G) = Cardinality(F) + Cardinality(G) - Cardinality(F \cap G)
       /\ Cardinality(F \cap G) \in Nat
  <2>1. IsFiniteSet(F \cap G)
    <3>1. F \cap G \subseteq F  OBVIOUS
    <3>. QED  BY <1>8, <3>1, FS_Subset
  <2>2. Cardinality(F \cap G) \in Nat  BY <2>1, FS_CardinalityType
  <2>. QED  BY <1>8, <1>9, <2>2, FS_Union
<1>11. Cardinality(F \cup G) <= 2 * MaxTargets /\ Cardinality(F \cup G) \in Nat
  BY <1>8, <1>9, <1>10, LimitAssumption, FS_CardinalityType
<1>. QED  BY <1>5, <1>10, <1>11 DEF FewLive, Few

LEMMA LiveAreFewThen == BInv' => FewLive'
BY LiveAreFew, PTL

(* So a ring in which no id is twice has a slot that is not live.          *)
LEMMA VacantSlot ==
    ASSUME RingSize > 2 * MaxTargets, NEW ring, Once(ring),
           NEW active, Few(active), NoId \notin active
    PROVE  ~ \A s \in Slots : ring[s].id \in active
<1>. SUFFICES ASSUME \A s \in Slots : ring[s].id \in active PROVE FALSE  OBVIOUS
<1>1. PICK f : f = [s \in Slots |-> ring[s].id]  OBVIOUS
<1>2. f \in [Slots -> active] /\ \A s, u \in Slots : f[s] = f[u] => s = u
  BY <1>1 DEF Once
<1>3. f \in Injection(Slots, active)  BY <1>2 DEF Injection, IsInjective
<1>4. IsFiniteSet(Slots) /\ Cardinality(Slots) = RingSize
  <2>1. RingSize \in Nat \ {0}  BY LimitAssumption
  <2>2. /\ IsFiniteSet(0 .. RingSize - 1)
        /\ Cardinality(0 .. RingSize - 1) = IF 0 > RingSize - 1 THEN 0 ELSE RingSize - 1 - 0 + 1
    BY <2>1, FS_Interval
  <2>. QED  BY <2>1, <2>2 DEF Slots
<1>5. Cardinality(Slots) <= Cardinality(active)  BY <1>3, FS_Injection DEF Few
<1>. QED  BY <1>4, <1>5, LimitAssumption DEF Few

LEMMA RememberKeeps ==
    ASSUME RingSize > 2 * MaxTargets, NEW ring \in Ring, Once(ring), recentCursor \in Slots,
           NEW id \in Ids, NEW state \in 0 .. 4, NEW active, Few(active), NoId \notin active,
           Remember(ring, id, state, active)
    PROVE  /\ \E u \in Slots : recent'[u].id = id
           /\ \A s \in Slots : ring[s].id \in active => \E u \in Slots : recent'[u].id = ring[s].id
<1>1. PICK v \in Slots : WrittenAt(v, ring, id, state, active)  BY RememberShape
<1>2. ~ \A s \in Slots : ring[s].id \in active  BY VacantSlot
<1>3. /\ recent'[v].id = id
      /\ \A s \in Slots : s # v => recent'[s] = ring[s]
      /\ ring[v].id = id \/ ring[v].id \notin active
  BY <1>1, <1>2 DEF WrittenAt
<1>. QED  BY <1>3

MInv == RInv /\ BInv /\ LiveIdsRemembered

(* Steps that forget no slot and make no id live.                          *)
LEMMA SlotsKept ==
    ASSUME LiveIdsRemembered,
           ActiveIds(commands', flushStops') \subseteq ActiveIds(commands, flushStops),
           \A s \in Slots : recent'[s].id = recent[s].id
    PROVE  LiveIdsRemembered'
<1>1. \A id \in ActiveIds(commands, flushStops) : \E s \in Slots : recent[s].id = id
  BY DEF LiveIdsRemembered, SeenRecently
<1>2. \A id \in ActiveIds(commands', flushStops') : \E s \in Slots : recent'[s].id = id
  BY <1>1
<1>3. ActiveIds(commands', flushStops') = ActiveIds(commands, flushStops)'  BY DEF ActiveIds
<1>. QED  BY <1>2, <1>3 DEF LiveIdsRemembered, SeenRecently

LEMMA KeptIds ==
    ASSUME KeptCommands, \E h : CarriedBy(h)
    PROVE  ActiveIds(commands', flushStops') \subseteq ActiveIds(commands, flushStops)
<1>1. PICK h : CarriedBy(h)  OBVIOUS
<1>2. /\ \A t \in DOMAIN commands' : t \in DOMAIN commands /\ commands'[t].req = commands[t].req
      /\ \A i \in DOMAIN flushStops' :
            h[i] \in DOMAIN flushStops /\ flushStops'[i].id = flushStops[h[i]].id
  BY <1>1 DEF KeptCommands, CarriedBy
<1>. QED  BY <1>2 DEF ActiveIds

LEMMA ActiveType ==
    ASSUME IInv
    PROVE  ActiveIds(commands, flushStops) \subseteq Ids
<1>1. \A t \in DOMAIN commands : commands[t].req.id \in Ids
  BY Typed, RequestType DEF Command
<1>2. \A i \in DOMAIN flushStops : flushStops[i].id \in Ids  BY Typed DEF QueuedStop
<1>. QED  BY <1>1, <1>2 DEF ActiveIds

(* Steps that remember an id, with the ids that stay live.                 *)
LEMMA RememberedKept ==
    ASSUME RingSize > 2 * MaxTargets, MInv, IInv', BInv', NEW ring \in Ring, Once(ring),
           \A s \in Slots : ring[s].id = recent[s].id,
           NEW id \in Ids, NEW state \in 0 .. 4, NEW active, Few(active), active \subseteq Ids,
           Remember(ring, id, state, active),
           ActiveIds(commands', flushStops') \subseteq active,
           ActiveIds(commands', flushStops') \subseteq ActiveIds(commands, flushStops) \cup {id}
    PROVE  LiveIdsRemembered'
<1>1. NoId \notin active  BY RequestAssumption DEF Ids
<1>2. recentCursor \in Slots  BY Typed DEF MInv, BInv
<1>3. /\ \E u \in Slots : recent'[u].id = id
      /\ \A s \in Slots : ring[s].id \in active => \E u \in Slots : recent'[u].id = ring[s].id
  BY <1>1, <1>2, RememberKeeps
<1>4. \A x \in ActiveIds(commands, flushStops) : \E s \in Slots : recent[s].id = x
  BY DEF MInv, LiveIdsRemembered, SeenRecently
<1>5. ASSUME NEW x \in ActiveIds(commands', flushStops')
      PROVE  \E u \in Slots : recent'[u].id = x
  <2>1. CASE x = id  BY <1>3, <2>1
  <2>2. CASE x # id
    <3>1. PICK s \in Slots : recent[s].id = x  BY <1>4, <1>5, <2>2
    <3>. QED  BY <1>3, <1>5, <3>1
  <2>. QED  BY <2>1, <2>2
<1>6. ActiveIds(commands', flushStops') = ActiveIds(commands, flushStops)'  BY DEF ActiveIds
<1>. QED  BY <1>5, <1>6 DEF LiveIdsRemembered, SeenRecently

LEMMA NextMemory ==
    ASSUME RingSize > 2 * MaxTargets
    PROVE  MInv /\ [Next]_vars => MInv'
<1>. SUFFICES ASSUME MInv, [Next]_vars PROVE MInv'  OBVIOUS
<1>1. RInv' /\ BInv' /\ IInv'  BY NextRing, NextBound DEF MInv, BInv
<1>2. /\ IInv /\ recent \in Ring /\ Once(recent) /\ recentCursor \in Slots
  BY Typed DEF MInv, BInv, RInv
<1>3. FewLive /\ FewLive'  BY <1>1, LiveAreFew, LiveAreFewThen DEF MInv
<1>4. /\ Few(ActiveIds(commands, flushStops)) /\ Few(ActiveIds(commands', flushStops'))
      /\ ActiveIds(commands, flushStops) \subseteq Ids
  BY <1>2, <1>3, ActiveType DEF FewLive, Few, ActiveIds
<1>5. CASE \E r \in Requests : Admit(r)
  <2>1. PICK r \in Requests : Admit(r)  BY <1>5
  <2>2. PICK ids : ids = {commands[t].req.id : t \in Overlapped(r.target)}  OBVIOUS
  <2>3. PICK ring : ring = Marked(recent, ids, 4)  OBVIOUS
  <2>4. ring \in Ring /\ Once(ring) /\ \A s \in Slots : ring[s].id = recent[s].id
    BY <1>2, <2>3, MarkedShape
  <2>5. Remember(ring, r.id, 1, ActiveIds(commands', flushStops'))
    BY <2>1, <2>2, <2>3 DEF Admit
  <2>6. r.id \in Ids  BY RequestType
  <2>7. ActiveIds(commands', flushStops') \subseteq ActiveIds(commands, flushStops) \cup {r.id}
    <3>1. /\ \A t \in DOMAIN commands' :
                \/ commands'[t].req.id = r.id
                \/ t \in Retained(r.target) /\ commands'[t] = commands[t]
          /\ \A i \in DOMAIN flushStops' :
                \/ i \in DOMAIN flushStops /\ flushStops'[i] = flushStops[i]
                \/ \E t \in Overlapped(r.target) : flushStops'[i].id = commands[t].req.id
      BY <1>2, <2>1, AdmitSources
    <3>2. Retained(r.target) \subseteq DOMAIN commands /\ Overlapped(r.target) \subseteq DOMAIN commands
      BY DEF Retained, Overlapped
    <3>. QED  BY <3>1, <3>2 DEF ActiveIds
  <2>8. ActiveIds(commands', flushStops') \subseteq Ids  BY <1>4, <2>6, <2>7
  <2>. QED  BY <1>1, <1>4, <2>4, <2>5, <2>6, <2>7, <2>8, RememberedKept DEF MInv
<1>6. CASE ~ \E r \in Requests : Admit(r)
  <2>1. ActiveIds(commands', flushStops') \subseteq ActiveIds(commands, flushStops)
    BY <1>2, <1>6, StepKeeps, KeptIds
  <2>2. CASE \E r \in Requests : Refuse(r)
    <3>1. PICK r \in Requests : Refuse(r)  BY <2>2
    <3>2. Remember(recent, r.id, 3, ActiveIds(commands, flushStops)) /\ r.id \in Ids
      BY <3>1, RequestType DEF Refuse
    <3>. QED  BY <1>1, <1>2, <1>4, <2>1, <3>2, RememberedKept DEF MInv
  <2>3. CASE \E id \in Ids : Disarm(id)
    <3>1. PICK id \in Ids : Disarm(id)  BY <2>3
    <3>2. Remember(recent, id, 4, ActiveIds(commands', flushStops'))  BY <3>1 DEF Disarm
    <3>3. ActiveIds(commands', flushStops') \subseteq Ids  BY <1>4, <2>1
    <3>. QED  BY <1>1, <1>2, <1>4, <2>1, <3>2, <3>3, RememberedKept DEF MInv
  <2>4. CASE ~ (\E r \in Requests : Refuse(r)) /\ ~ (\E id \in Ids : Disarm(id))
    <3>1. \/ UNCHANGED recent
          \/ \E ids : recent' = Marked(recent, ids, 2)
      <4>1. CASE Poll
        <5>1. CASE SendScheduledStop \/ SendAction
          BY <5>1 DEF SendScheduledStop, SendAction, Dispatch
        <5>. QED  BY <4>1, <5>1 DEF Poll, NextCall, PollIdle, PollAirBusy, PollNothingDue, SendFlushStop
      <4>2. CASE DrainArmedStops  BY <4>2 DEF DrainArmedStops
      <4>3. CASE Elapse  BY <4>3 DEF Elapse, schedulerVars
      <4>4. CASE UNCHANGED vars  BY <4>4 DEF vars
      <4>. QED  BY <1>6, <2>4, <4>1, <4>2, <4>3, <4>4 DEF Next
    <3>2. \A s \in Slots : recent'[s].id = recent[s].id
      <4>1. CASE UNCHANGED recent  BY <4>1
      <4>2. CASE \E ids : recent' = Marked(recent, ids, 2)
        <5>1. PICK ids : recent' = Marked(recent, ids, 2)  BY <4>2
        <5>. QED  BY <1>2, <5>1, MarkedShape
      <4>. QED  BY <3>1, <4>1, <4>2
    <3>. QED  BY <1>1, <2>1, <3>2, SlotsKept DEF MInv
  <2>. QED  BY <2>2, <2>3, <2>4
<1>. QED  BY <1>5, <1>6

(* "so remember_ always finds an inactive slot and never overwrites a live *)
(* id" (COMMAND_ID_RING_SIZE): a ring with more than twice MAX_TARGETS     *)
(* slots, 64 against 16 in the source, holds every id that is scheduled or *)
(* flushing, whatever was refused, disarmed or displaced in between.       *)
THEOREM LiveIdsAlwaysRemembered ==
    ASSUME RingSize > 2 * MaxTargets
    PROVE  Spec => []LiveIdsRemembered
<1>1. Init => MInv
  <2>. SUFFICES ASSUME Init PROVE MInv  OBVIOUS
  <2>1. DOMAIN commands = {} /\ DOMAIN flushStops = {}  BY DEF Init
  <2>2. LiveIdsRemembered  BY <2>1 DEF LiveIdsRemembered, ActiveIds
  <2>. QED  BY <2>2, InitRing, InitBound DEF MInv
<1>2. MInv /\ [Next]_vars => MInv'  BY NextMemory
<1>3. MInv => LiveIdsRemembered  BY DEF MInv
<1>. QED  BY <1>1, <1>2, <1>3, PTL DEF Spec

-----------------------------------------------------------------------------
(* The wait of a first STOP copy.  Distances on the wheel, as numbers.      *)
LEMMA SinceValue ==
    ASSUME NEW x \in Instants, NEW y \in Instants
    PROVE  /\ Since(x, y) = IF x >= y THEN x - y ELSE x - y + Wheel
           /\ Since(x, y) \in 0 .. Wheel - 1
<1>1. Wheel \in Nat /\ Wheel > 0  BY WheelAssumption
<1>2. CASE x >= y  BY <1>1, <1>2 DEF Since, Instants
<1>3. CASE x < y
  <2>1. x - y + Wheel \in 0 .. Wheel - 1  BY <1>1, <1>3 DEF Instants
  <2>. QED  BY <1>1, <1>3, <2>1 DEF Since, Instants
<1>. QED  BY <1>2, <1>3 DEF Instants

LEMMA LaterValue ==
    ASSUME NEW x \in Instants, NEW d \in 0 .. Wheel
    PROVE  /\ Later(x, d) = IF x + d < Wheel THEN x + d ELSE x + d - Wheel
           /\ Later(x, d) \in Instants
<1>1. Wheel \in Nat /\ Wheel > 0  BY WheelAssumption
<1>2. CASE x + d < Wheel  BY <1>1, <1>2 DEF Later, Instants
<1>3. CASE ~ (x + d < Wheel)
  <2>1. x + d - Wheel \in 0 .. Wheel - 1  BY <1>1, <1>3 DEF Instants
  <2>2. x + d = Wheel * 1 + (x + d - Wheel)  BY <1>1 DEF Instants
  <2>. QED  BY <1>1, <1>3, <2>1, <2>2 DEF Later, Instants
<1>. QED  BY <1>2, <1>3

(* Time that passes after an instant adds to its distance.                 *)
LEMMA PassedDistance ==
    ASSUME NEW x \in Instants, NEW s \in Instants, NEW d \in Nat, Since(x, s) + d < Wheel
    PROVE  Since(Later(x, d), s) = Since(x, s) + d
<1>1. Wheel \in Nat /\ Wheel > 0  BY WheelAssumption
<1>2. PICK z : z = Since(x, s)  OBVIOUS
<1>3. z = (IF x >= s THEN x - s ELSE x - s + Wheel) /\ z \in 0 .. Wheel - 1
  BY <1>2, SinceValue
<1>4. d \in 0 .. Wheel /\ z + d < Wheel  BY <1>1, <1>2, <1>3
<1>5. PICK w : w = Later(x, d)  OBVIOUS
<1>6. w = (IF x + d < Wheel THEN x + d ELSE x + d - Wheel) /\ w \in Instants
  BY <1>4, <1>5, LaterValue
<1>7. Since(w, s) = IF w >= s THEN w - s ELSE w - s + Wheel  BY <1>6, SinceValue
<1>8. Since(w, s) = z + d  BY <1>1, <1>3, <1>4, <1>6, <1>7 DEF Instants
<1>. QED  BY <1>2, <1>5, <1>8

(* Distances from a common origin compare and subtract.                    *)
LEMMA CommonOrigin ==
    ASSUME NEW x \in Instants, NEW y \in Instants, NEW s \in Instants
    PROVE  Since(x, y) = IF Since(x, s) >= Since(y, s) THEN Since(x, s) - Since(y, s)
                         ELSE Since(x, s) - Since(y, s) + Wheel
<1>1. Wheel \in Nat /\ Wheel > 0  BY WheelAssumption
<1>2. PICK a : a = Since(x, s)  OBVIOUS
<1>3. PICK b : b = Since(y, s)  OBVIOUS
<1>4. PICK z : z = Since(x, y)  OBVIOUS
<1>5. a = (IF x >= s THEN x - s ELSE x - s + Wheel)  BY <1>2, SinceValue
<1>6. b = (IF y >= s THEN y - s ELSE y - s + Wheel)  BY <1>3, SinceValue
<1>7. z = (IF x >= y THEN x - y ELSE x - y + Wheel)  BY <1>4, SinceValue
<1>8. z = IF a >= b THEN a - b ELSE a - b + Wheel
  BY <1>1, <1>5, <1>6, <1>7 DEF Instants
<1>. QED  BY <1>2, <1>3, <1>4, <1>8

(* The origin of a deadline: the instant it was set, a delay before it.    *)
LEMMA OriginOfDeadline ==
    ASSUME NEW x \in Instants, NEW d \in 0 .. Wheel - 1
    PROVE  /\ Later(x, Wheel - d) \in Instants
           /\ Since(x, Later(x, Wheel - d)) = d
           /\ Later(Later(x, d), Wheel - d) = x
<1>1. Wheel \in Nat /\ Wheel > 0  BY WheelAssumption
<1>2. PICK y : y = Later(x, Wheel - d)  OBVIOUS
<1>3. Wheel - d \in 0 .. Wheel  BY <1>1
<1>4. y = (IF x + (Wheel - d) < Wheel THEN x + (Wheel - d) ELSE x + (Wheel - d) - Wheel)
      /\ y \in Instants
  BY <1>2, <1>3, LaterValue
<1>5. Since(x, y) = d
  <2>1. Since(x, y) = IF x >= y THEN x - y ELSE x - y + Wheel  BY <1>4, SinceValue
  <2>. QED  BY <1>1, <1>4, <2>1 DEF Instants
<1>6. PICK w : w = Later(x, d)  OBVIOUS
<1>7. w = (IF x + d < Wheel THEN x + d ELSE x + d - Wheel) /\ w \in Instants
  BY <1>1, <1>6, LaterValue
<1>8. Later(w, Wheel - d) = IF w + (Wheel - d) < Wheel THEN w + (Wheel - d)
                            ELSE w + (Wheel - d) - Wheel
  BY <1>3, <1>7, LaterValue
<1>9. Later(w, Wheel - d) = x  BY <1>1, <1>7, <1>8 DEF Instants
<1>. QED  BY <1>2, <1>4, <1>5, <1>6, <1>9

(* Who comes first in a round that starts at "from".                       *)
Precedes(from, j, i) ==
    \/ from <= j /\ j < i
    \/ j < i /\ i < from
    \/ i < from /\ from <= j

(* The first candidate from the cursor comes before any other one.         *)
LEMMA FirstPrecedes ==
    ASSUME NEW n \in Nat, NEW i \in 0 .. n - 1, NEW j \in 0 .. n - 1, NEW from \in 0 .. n - 1,
           (i - from) % n <= (j - from) % n, i # j
    PROVE  Precedes(from, i, j)
<1>1. (i - from) % n = IF i >= from THEN i - from ELSE i - from + n
  <2>1. CASE i >= from  BY <2>1
  <2>2. CASE i < from
    <3>1. i - from + n \in 0 .. n - 1  BY <2>2
    <3>. QED  BY <2>2, <3>1
  <2>. QED  BY <2>1, <2>2
<1>2. (j - from) % n = IF j >= from THEN j - from ELSE j - from + n
  <2>1. CASE j >= from  BY <2>1
  <2>2. CASE j < from
    <3>1. j - from + n \in 0 .. n - 1  BY <2>2
    <3>. QED  BY <2>2, <3>1
  <2>. QED  BY <2>1, <2>2
<1>. QED  BY <1>1, <1>2 DEF Precedes

(* When the round resumes after i, i comes last, and the others before t   *)
(* came before it already.                                                 *)
LEMMA ResumedRound ==
    ASSUME NEW n \in Nat, NEW i \in 0 .. n - 1, NEW t \in 0 .. n - 1, NEW from \in 0 .. n - 1,
           NEW j \in 0 .. n - 1, Precedes(from, i, t), Precedes((i + 1) % n, j, t)
    PROVE  Precedes(from, j, t) /\ j # i
<1>1. (i + 1) % n = IF i + 1 = n THEN 0 ELSE i + 1
  <2>1. CASE i + 1 = n  BY <2>1
  <2>2. CASE i + 1 # n  BY <2>2
  <2>. QED  BY <2>1, <2>2
<1>. QED  BY <1>1 DEF Precedes

(* A set of positions with all the positions before its own is counted by  *)
(* its last one.                                                           *)
LEMMA InitialSegment ==
    ASSUME NEW n \in Nat, NEW S, S \subseteq 1 .. n,
           \A k \in S, j \in 1 .. n : j < k => j \in S
    PROVE  Cardinality(S) \in 0 .. n /\ S = 1 .. Cardinality(S)
<1>1. CASE S = {}
  <2>1. Cardinality(S) = 0  BY <1>1, FS_EmptySet
  <2>. QED  BY <1>1, <2>1
<1>2. CASE S # {}
  <2>1. PICK m \in S : \A j \in S : m >= j  BY <1>2, GreatestNat
  <2>2. m \in 1 .. n /\ m \in Nat  BY <2>1
  <2>3. S = 1 .. m
    <3>1. ASSUME NEW j \in 1 .. m PROVE j \in S
      <4>1. j \in 1 .. n /\ (j < m \/ j = m)  BY <2>2
      <4>. QED  BY <2>1, <4>1
    <3>2. ASSUME NEW j \in S PROVE j \in 1 .. m
      <4>1. j \in 1 .. n /\ m >= j  BY <2>1
      <4>. QED  BY <2>2, <4>1
    <3>. QED  BY <3>1, <3>2
  <2>4. Cardinality(1 .. m) = m  BY <2>2, IntervalCount
  <2>5. Cardinality(S) = m  BY <2>3, <2>4
  <2>. QED  BY <2>2, <2>3, <2>5
<1>. QED  BY <1>1, <1>2

(* An erase keeps the round: what comes before another entry in the closed *)
(* up vector came before it, from the cursor that was moved.               *)
LEMMA RoundAfterErase ==
    ASSUME order \in Seq(Targets), NEW D, NEW kept \in Survivors(D), NEW from \in Nat,
           NEW j \in DOMAIN kept, NEW i \in DOMAIN kept,
           Precedes(CursorAfter(kept, from), j - 1, i - 1)
    PROVE  Precedes(from, kept[j] - 1, kept[i] - 1)
<1>1. PICK n \in Nat : kept \in [1 .. n -> {p \in DOMAIN order : order[p] \notin D}]
  BY SurvivorsShape
<1>2. DOMAIN kept = 1 .. n /\ Len(kept) = n  BY <1>1
<1>3. \A k \in 1 .. n : kept[k] \in Int  BY <1>1
<1>4. \A k, l \in 1 .. n : k < l => kept[k] < kept[l]  BY <1>2, SurvivorsShape
<1>5. PICK S : S = {k \in DOMAIN kept : kept[k] - 1 < from}  OBVIOUS
<1>6. \A k \in S, l \in 1 .. n : l < k => l \in S
  <2>. SUFFICES ASSUME NEW k \in S, NEW l \in 1 .. n, l < k PROVE l \in S  OBVIOUS
  <2>1. k \in 1 .. n /\ kept[k] - 1 < from  BY <1>2, <1>5
  <2>2. kept[l] < kept[k] /\ kept[l] \in Int /\ kept[k] \in Int  BY <1>3, <1>4, <2>1
  <2>3. kept[l] - 1 < from  BY <2>1, <2>2
  <2>. QED  BY <1>2, <1>5, <2>3
<1>7. S \subseteq 1 .. n  BY <1>2, <1>5
<1>8. PICK m : m = Cardinality(S)  OBVIOUS
<1>9. m \in 0 .. n /\ S = 1 .. m  BY <1>6, <1>7, <1>8, InitialSegment
<1>10. j \in 1 .. n /\ i \in 1 .. n /\ n > 0  BY <1>2
<1>11. CursorAfter(kept, from) = IF m = n THEN 0 ELSE m
  <2>1. kept # << >>  BY <1>2, <1>10
  <2>2. CursorAfter(kept, from) = m % n  BY <1>2, <1>5, <1>8, <2>1 DEF CursorAfter
  <2>3. m % n = IF m = n THEN 0 ELSE m
    <3>1. CASE m = n  BY <1>10, <3>1
    <3>2. CASE m # n  BY <1>9, <1>10, <3>2
    <3>. QED  BY <3>1, <3>2
  <2>. QED  BY <2>2, <2>3
<1>12. PICK a : a = kept[j] - 1  OBVIOUS
<1>13. PICK b : b = kept[i] - 1  OBVIOUS
<1>14. a \in Int /\ b \in Int  BY <1>3, <1>10, <1>12, <1>13
<1>15. (j <= m <=> a < from) /\ (i <= m <=> b < from)
  <2>1. (j \in S <=> a < from) /\ (i \in S <=> b < from)
    BY <1>5, <1>12, <1>13
  <2>. QED  BY <1>9, <1>10, <2>1
<1>16. (j < i => a < b) /\ (i < j => b < a)
  <2>1. j < i => kept[j] < kept[i]  BY <1>4, <1>10
  <2>2. i < j => kept[i] < kept[j]  BY <1>4, <1>10
  <2>3. kept[i] \in Int /\ kept[j] \in Int  BY <1>3, <1>10
  <2>. QED  BY <1>12, <1>13, <2>1, <2>2, <2>3
<1>17. Precedes(IF m = n THEN 0 ELSE m, j - 1, i - 1)  BY <1>11
<1>18. Precedes(from, a, b)
  BY <1>9, <1>10, <1>14, <1>15, <1>16, <1>17 DEF Precedes
<1>. QED  BY <1>12, <1>13, <1>18

(* u is listed, and comes before t in the round that starts at "from".     *)
BeforeIn(line, from, u, t) ==
    \E j, i \in DOMAIN line : line[j] = u /\ line[i] = t /\ Precedes(from, j - 1, i - 1)

LEMMA EraseKeepsRound ==
    ASSUME order \in Seq(Targets), NEW D, NEW kept \in Survivors(D), NEW from \in Nat,
           NEW u, NEW t, BeforeIn(OrderAfter(kept), CursorAfter(kept, from), u, t)
    PROVE  BeforeIn(order, from, u, t)
<1>1. PICK line : line = OrderAfter(kept)  OBVIOUS
<1>2. DOMAIN line = DOMAIN kept /\ \A k \in DOMAIN kept : line[k] = order[kept[k]]
  BY <1>1 DEF OrderAfter
<1>3. PICK j \in DOMAIN kept, i \in DOMAIN kept :
         line[j] = u /\ line[i] = t /\ Precedes(CursorAfter(kept, from), j - 1, i - 1)
  BY <1>1, <1>2 DEF BeforeIn
<1>4. Precedes(from, kept[j] - 1, kept[i] - 1)  BY <1>3, RoundAfterErase
<1>5. kept[j] \in DOMAIN order /\ kept[i] \in DOMAIN order  BY SurvivorsShape
<1>. QED  BY <1>2, <1>3, <1>4, <1>5 DEF BeforeIn

(* A newcomer at the back does not come between the others.                *)
LEMMA NewcomerLast ==
    ASSUME NEW T, NEW line \in Seq(T), NEW x \in T, NEW from, NEW u, NEW t, u # x, t # x,
           BeforeIn(Append(line, x), from, u, t)
    PROVE  BeforeIn(line, from, u, t)
<1>1. PICK longer : longer = Append(line, x)  OBVIOUS
<1>2. /\ DOMAIN longer = 1 .. Len(line) + 1 /\ longer[Len(line) + 1] = x
      /\ \A i \in 1 .. Len(line) : longer[i] = line[i]
      /\ DOMAIN line = 1 .. Len(line) /\ Len(line) \in Nat
  BY <1>1, Appended
<1>3. PICK j \in DOMAIN longer, i \in DOMAIN longer :
         longer[j] = u /\ longer[i] = t /\ Precedes(from, j - 1, i - 1)
  BY <1>1 DEF BeforeIn
<1>4. j \in DOMAIN line /\ i \in DOMAIN line  BY <1>2, <1>3
<1>. QED  BY <1>2, <1>3, <1>4 DEF BeforeIn

-----------------------------------------------------------------------------
(* The commands that owe a STOP and come before t in the round.            *)
Rivals(t) == {u \in Owing(DOMAIN commands) : BeforeIn(order, cursor, u, t)}

(* A deadline is armed by the start of a timed train, and only an armed    *)
(* deadline begins a STOP train.                                           *)
DeadlineOk(c) ==
    /\ c.deadlineArmed => c.started /\ Timed(c.req)
    /\ c.phase = "STOP" => c.deadlineArmed /\ c.remaining <= c.req.repeats

DeadlinesOk == \A t \in DOMAIN commands : DeadlineOk(commands[t])

(* The first STOP copy has still to be handed over.                        *)
Waits(c) == c.deadlineArmed /\ (c.phase = "STOP" => c.remaining = c.req.repeats)

LEMMA WaitsOwes ==
    ASSUME NEW c \in Command, DeadlineOk(c)
    PROVE  /\ Waits(c) => OwesStop(c)
           /\ c.phase = "STOP" => OwesStop(c)
<1>1. c.remaining \in 1 .. 20  BY DEF Command
<1>. QED  BY <1>1 DEF Waits, DeadlineOk, OwesStop

LEMMA OrderShape ==
    ASSUME IInv
    PROVE  /\ order \in Seq(Targets) /\ Len(order) \in Nat /\ DOMAIN order = 1 .. Len(order)
           /\ \A i \in DOMAIN order : order[i] \in DOMAIN commands
           /\ \A t \in DOMAIN commands : \E i \in DOMAIN order : order[i] = t
           /\ \A i, j \in DOMAIN order : order[i] = order[j] => i = j
           /\ cursor \in Nat
           /\ Len(order) > 0 => cursor \in 0 .. Len(order) - 1
<1>1. /\ order \in Seq(Targets) /\ cursor \in Nat
      /\ {order[i] : i \in DOMAIN order} = DOMAIN commands
      /\ \A i, j \in DOMAIN order : order[i] = order[j] => i = j
      /\ IF order = << >> THEN cursor = 0 ELSE cursor < Len(order)
  BY DEF IInv, TypeOK, OrderMatchesCommands
<1>. QED  BY <1>1

(* With t itself and the displaced debts they are no more than the places. *)
LEMMA RivalsFew ==
    ASSUME BInv, NEW t \in DOMAIN commands, OwesStop(commands[t])
    PROVE  /\ IsFiniteSet(Rivals(t))
           /\ Cardinality(Rivals(t)) \in Nat
           /\ Len(flushStops) \in Nat
           /\ Cardinality(Rivals(t)) + 1 + Len(flushStops) <= MaxTargets
<1>1. PICK O : O = Owing(DOMAIN commands)  OBVIOUS
<1>2. O \subseteq DOMAIN commands  BY <1>1 DEF Owing
<1>3. /\ IsFiniteSet(O) /\ Cardinality(O) \in Nat /\ Len(flushStops) \in Nat
      /\ Len(flushStops) + Cardinality(O) <= MaxTargets
  BY <1>1, <1>2, CountsFinite DEF BInv, ObligationsBounded
<1>4. t \in O  BY <1>1 DEF Owing
<1>5. t \notin Rivals(t)
  <2>. SUFFICES ASSUME t \in Rivals(t) PROVE FALSE  OBVIOUS
  <2>1. PICK j \in DOMAIN order, i \in DOMAIN order :
           order[j] = t /\ order[i] = t /\ Precedes(cursor, j - 1, i - 1)
    BY DEF Rivals, BeforeIn
  <2>2. i = j /\ i \in Int /\ cursor \in Int  BY <2>1, OrderShape DEF BInv
  <2>. QED  BY <2>1, <2>2 DEF Precedes
<1>6. Rivals(t) \subseteq O \ {t}  BY <1>1, <1>5 DEF Rivals
<1>7. IsFiniteSet(O \ {t}) /\ Cardinality(O \ {t}) = Cardinality(O) - 1
  BY <1>3, <1>4, FS_RemoveElement
<1>8. /\ IsFiniteSet(Rivals(t)) /\ Cardinality(Rivals(t)) \in Nat
      /\ Cardinality(Rivals(t)) <= Cardinality(O \ {t})
  BY <1>6, <1>7, FS_Subset, FS_CardinalityType
<1>. QED  BY <1>3, <1>7, <1>8, LimitAssumption

(* A step never adds a rival: what is owed was owed, and the round is kept. *)
LEMMA RivalsThen ==
    ASSUME NEW t
    PROVE  Rivals(t)' = {u \in DOMAIN commands' :
                            OwesStop(commands'[u]) /\ BeforeIn(order', cursor', u, t)}
BY DEF Rivals, Owing, OwesStop, Timed, BeforeIn

LEMMA SameRoundRivals ==
    ASSUME UNCHANGED <<order, cursor>>,
           DOMAIN commands' \subseteq DOMAIN commands,
           \A u \in DOMAIN commands' : OwesStop(commands'[u]) => OwesStop(commands[u]),
           NEW t
    PROVE  Rivals(t)' \subseteq Rivals(t)
<1>. SUFFICES ASSUME NEW u \in Rivals(t)' PROVE u \in Rivals(t)  OBVIOUS
<1>1. /\ u \in DOMAIN commands' /\ OwesStop(commands'[u])
      /\ BeforeIn(order', cursor', u, t)
  BY RivalsThen
<1>2. BeforeIn(order, cursor, u, t)  BY <1>1 DEF BeforeIn
<1>. QED  BY <1>1, <1>2 DEF Rivals, Owing

LEMMA AdmitRivals ==
    ASSUME IInv, NEW r \in Requests, Admit(r), NEW t, t # r.target
    PROVE  Rivals(t)' \subseteq Rivals(t)
<1>. SUFFICES ASSUME NEW u \in Rivals(t)' PROVE u \in Rivals(t)  OBVIOUS
<1>1. /\ u \in DOMAIN commands' /\ OwesStop(commands'[u])
      /\ BeforeIn(order', cursor', u, t)
  BY RivalsThen
<1>2. /\ DOMAIN commands' = Retained(r.target) \cup {r.target}
      /\ commands'[r.target] = NewCommand(r)
      /\ \A v \in Retained(r.target) : commands'[v] = commands[v]
  BY AdmitShape
<1>3. u # r.target
  <2>1. ~ OwesStop(NewCommand(r))  BY DEF OwesStop, NewCommand
  <2>. QED  BY <1>1, <1>2, <2>1
<1>4. u \in DOMAIN commands /\ OwesStop(commands[u])
  BY <1>1, <1>2, <1>3 DEF Retained
<1>5. PICK kept \in Survivors(Overlapped(r.target)) :
         order' = Append(OrderAfter(kept), r.target) /\ cursor' = CursorAfter(kept, cursor)
  BY DEF Admit
<1>6. OrderAfter(kept) \in Seq(Targets) /\ r.target \in Targets /\ order \in Seq(Targets)
      /\ cursor \in Nat
  BY <1>5, OrderAfterType, OrderShape, RequestType
<1>7. BeforeIn(Append(OrderAfter(kept), r.target), CursorAfter(kept, cursor), u, t)
  BY <1>1, <1>5
<1>8. BeforeIn(OrderAfter(kept), CursorAfter(kept, cursor), u, t)
  BY <1>3, <1>6, <1>7, NewcomerLast
<1>9. BeforeIn(order, cursor, u, t)  BY <1>6, <1>8, EraseKeepsRound
<1>. QED  BY <1>4, <1>9 DEF Rivals, Owing

LEMMA DisarmRivals ==
    ASSUME IInv, NEW id \in Ids, Disarm(id), NEW t
    PROVE  Rivals(t)' \subseteq Rivals(t)
<1>. SUFFICES ASSUME NEW u \in Rivals(t)' PROVE u \in Rivals(t)  OBVIOUS
<1>1. /\ u \in DOMAIN commands' /\ OwesStop(commands'[u])
      /\ BeforeIn(order', cursor', u, t)
  BY RivalsThen
<1>2. u \in DOMAIN commands /\ OwesStop(commands[u])  BY <1>1, DisarmShape
<1>3. PICK kept \in Survivors({v \in DOMAIN commands : commands[v].req.id = id}) :
         order' = OrderAfter(kept) /\ cursor' = CursorAfter(kept, cursor)
  BY DEF Disarm
<1>4. BeforeIn(OrderAfter(kept), CursorAfter(kept, cursor), u, t)  BY <1>1, <1>3
<1>5. BeforeIn(order, cursor, u, t)  BY <1>4, EraseKeepsRound, OrderShape
<1>. QED  BY <1>2, <1>5 DEF Rivals, Owing

(* The turn of a due STOP train is taken by a rival, which comes behind    *)
(* every other train then.                                                 *)
LEMMA TurnTaken ==
    ASSUME IInv, DeadlinesOk, NEW i \in FirstFromCursor(StopReady(Armed)), Dispatch(i),
           NEW t \in DOMAIN commands, t # order[i + 1],
           Armed[t].phase = "STOP", Due(now, Armed[t].nextAt)
    PROVE  /\ order[i + 1] \in Rivals(t)
           /\ Rivals(t)' \subseteq Rivals(t) \ {order[i + 1]}
<1>. DEFINE p == order[i + 1]
            n == Len(order)
<1>1. i \in Entries /\ Armed[p].phase = "STOP" /\ i \in StopReady(Armed)
  BY DEF FirstFromCursor, StopReady, Entry
<1>2. PICK q \in DOMAIN order : order[q] = t  BY OrderShape
<1>3. /\ n \in Nat /\ q \in 1 .. n /\ i \in 0 .. n - 1 /\ cursor \in 0 .. n - 1
      /\ i + 1 \in DOMAIN order
  BY <1>1, <1>2, OrderShape DEF Entries
<1>4. q - 1 \in StopReady(Armed)
  <2>1. q - 1 \in Entries /\ (q - 1) + 1 = q  BY <1>3 DEF Entries
  <2>. QED  BY <1>2, <2>1 DEF StopReady, Entry
<1>5. i # q - 1
  <2>1. i = q - 1 => i + 1 = q  BY <1>3
  <2>. QED  BY <1>2, <2>1
<1>6. Precedes(cursor, i, q - 1)
  <2>1. (i - cursor) % n <= ((q - 1) - cursor) % n  BY <1>4 DEF FirstFromCursor
  <2>2. q - 1 \in 0 .. n - 1  BY <1>3
  <2>. QED  BY <1>3, <1>5, <2>1, <2>2, FirstPrecedes
<1>7. p \in DOMAIN commands /\ commands[p] \in Command /\ DeadlineOk(commands[p])
  BY <1>3, OrderShape, Typed DEF DeadlinesOk
<1>8. OwesStop(commands[p])
  <2>1. Armed[p] \in Command  BY <1>7, ArmedShape DEF CommandOk
  <2>2. Armed[p] = commands[p] \/ commands[p].deadlineArmed  BY <1>7 DEF Armed
  <2>3. OwesStop(Armed[p])
    <3>1. Armed[p].remaining \in 1 .. 20  BY <2>1 DEF Command
    <3>2. Armed[p].started = commands[p].started /\ Armed[p].req = commands[p].req
      BY <1>7, ArmedShape
    <3>3. commands[p].deadlineArmed  BY <1>1, <1>7, <2>2 DEF DeadlineOk
    <3>. QED  BY <1>7, <3>1, <3>2, <3>3 DEF OwesStop, DeadlineOk
  <2>. QED  BY <1>7, <2>3, ArmedShape
<1>9. p \in Rivals(t)
  <2>1. (i + 1) - 1 = i  BY <1>3
  <2>2. BeforeIn(order, cursor, p, t)
    BY <1>2, <1>3, <1>6, <2>1 DEF BeforeIn
  <2>. QED  BY <1>7, <1>8, <2>2 DEF Rivals, Owing
<1>10. ASSUME NEW u \in Rivals(t)'
       PROVE  u \in Rivals(t) /\ u # p
  <2>1. /\ u \in DOMAIN commands' /\ OwesStop(commands'[u])
        /\ BeforeIn(order', cursor', u, t)
    BY RivalsThen
  <2>2. /\ u \in DOMAIN commands
        /\ commands'[u] = IF u = p THEN Handed(Armed[u]) ELSE Armed[u]
    BY <1>1, <2>1, DispatchCommands
  <2>3. OwesStop(commands[u])
    <3>1. CASE u = p  BY <1>8, <3>1
    <3>2. CASE u # p  BY <2>1, <2>2, <3>2, ArmedShape
    <3>. QED  BY <3>1, <3>2
  <2>4. BeforeIn(order, (i + 1) % n, u, t)
    <3>1. CASE Completes(Armed[p])
      <4>1. PICK kept \in Survivors({p}) :
               order' = OrderAfter(kept) /\ cursor' = CursorAfter(kept, (i + 1) % n)
        BY <3>1 DEF Dispatch
      <4>2. (i + 1) % n \in Nat  BY <1>3
      <4>3. BeforeIn(OrderAfter(kept), CursorAfter(kept, (i + 1) % n), u, t)  BY <2>1, <4>1
      <4>. QED  BY <4>2, <4>3, EraseKeepsRound, OrderShape
    <3>2. CASE ~ Completes(Armed[p])
      <4>1. order' = order /\ cursor' = (i + 1) % n  BY <3>2 DEF Dispatch
      <4>. QED  BY <2>1, <4>1
    <3>. QED  BY <3>1, <3>2
  <2>5. PICK j \in DOMAIN order, k \in DOMAIN order :
           order[j] = u /\ order[k] = t /\ Precedes((i + 1) % n, j - 1, k - 1)
    BY <2>4 DEF BeforeIn
  <2>6. k = q /\ j - 1 \in 0 .. n - 1 /\ q - 1 \in 0 .. n - 1 /\ j \in Int
    BY <1>2, <1>3, <2>5, OrderShape
  <2>7. Precedes(cursor, j - 1, q - 1) /\ j - 1 # i
    <3>1. Precedes((i + 1) % n, j - 1, q - 1)  BY <2>5, <2>6
    <3>. QED  BY <1>3, <1>6, <2>6, <3>1, ResumedRound
  <2>8. u # p
    <3>1. j # i + 1  BY <1>3, <2>6, <2>7
    <3>. QED  BY <1>3, <2>5, <3>1, OrderShape
  <2>9. BeforeIn(order, cursor, u, t)
    BY <1>2, <2>5, <2>6, <2>7 DEF BeforeIn
  <2>. QED  BY <2>2, <2>3, <2>8, <2>9 DEF Rivals, Owing
<1>. QED  BY <1>9, <1>10

-----------------------------------------------------------------------------
(* What a hand-off and the arming do to a deadline.                        *)
LEMMA HandedDeadline ==
    ASSUME NEW c, CommandOk(c), now \in Instants
    PROVE  /\ Handed(c).phase = "STOP" => c.phase = "STOP"
           /\ ~ (Starts(c) /\ Timed(c.req)) =>
                 /\ Handed(c).deadlineArmed = c.deadlineArmed
                 /\ Handed(c).deadlineAt = c.deadlineAt
           /\ Starts(c) /\ Timed(c.req) =>
                 /\ Handed(c).deadlineArmed
                 /\ Handed(c).deadlineAt = Later(now, c.req.stopAfter)
<1>1. PICK s : s = WithStart(c)  OBVIOUS
<1>2. PICK k : k = WithCopy(s)  OBVIOUS
<1>3. PICK d : d = WithAdvance(k)  OBVIOUS
<1>4. Handed(c) = WithPacing(d)  BY <1>1, <1>2, <1>3 DEF Handed
<1>5. CommandOk(s) /\ s.phase = c.phase  BY <1>1, WithStartOk
<1>6. /\ ~ (Starts(c) /\ Timed(c.req)) =>
            s.deadlineArmed = c.deadlineArmed /\ s.deadlineAt = c.deadlineAt
      /\ Starts(c) /\ Timed(c.req) =>
            s.deadlineArmed /\ s.deadlineAt = Later(now, c.req.stopAfter)
  BY <1>1 DEF WithStart, CommandOk, Command
<1>7. /\ k \in Copied /\ CountOk(k) /\ k.phase = s.phase
      /\ k.deadlineArmed = s.deadlineArmed /\ k.deadlineAt = s.deadlineAt
  <2>1. k \in Copied /\ CountOk(k) /\ k.phase = s.phase  BY <1>2, <1>5, WithCopyOk
  <2>2. k.deadlineArmed = s.deadlineArmed /\ k.deadlineAt = s.deadlineAt
    BY <1>2, <1>5 DEF WithCopy, CommandOk, Command
  <2>. QED  BY <2>1, <2>2
<1>8. d \in Copied  BY <1>3, <1>7, WithAdvanceOk
<1>9. /\ d.deadlineArmed = k.deadlineArmed /\ d.deadlineAt = k.deadlineAt
      /\ d.phase = "STOP" => k.phase = "STOP"
  <2>1. ASSUME NEW ph \in {"TRAILER", "WAIT_STOP"},
               d = [k EXCEPT !.phase = ph, !.remaining = k.req.repeats]
        PROVE  /\ d.deadlineArmed = k.deadlineArmed /\ d.deadlineAt = k.deadlineAt
               /\ d.phase = ph
    <3>1. PICK x : x = [k EXCEPT !.phase = ph]  OBVIOUS
    <3>2. d = [x EXCEPT !.remaining = k.req.repeats]  BY <2>1, <3>1
    <3>3. /\ DOMAIN x = DOMAIN k /\ x.phase = ph
          /\ x.deadlineArmed = k.deadlineArmed /\ x.deadlineAt = k.deadlineAt
          /\ DOMAIN k = {"req", "phase", "remaining", "delivered", "started",
                         "deadlineArmed", "deadlineAt", "nextAt"}
      BY <1>7, <3>1 DEF Copied
    <3>. QED  BY <3>2, <3>3
  <2>2. CASE k.remaining > 0
    <3>1. d = k  BY <1>3, <2>2 DEF WithAdvance
    <3>. QED  BY <3>1
  <2>3. CASE k.remaining = 0 /\ HasTrailerNext(k)
    <3>1. d = [k EXCEPT !.phase = "TRAILER", !.remaining = k.req.repeats]
      BY <1>3, <2>3 DEF WithAdvance
    <3>. QED  BY <2>1, <3>1
  <2>4. CASE k.remaining = 0 /\ ~ HasTrailerNext(k) /\ HasStopNext(k)
    <3>1. d = [k EXCEPT !.phase = "WAIT_STOP", !.remaining = k.req.repeats]
      BY <1>3, <2>4 DEF WithAdvance
    <3>. QED  BY <2>1, <3>1
  <2>5. CASE k.remaining = 0 /\ ~ HasTrailerNext(k) /\ ~ HasStopNext(k)
    <3>1. d = k  BY <1>3, <2>5 DEF WithAdvance
    <3>. QED  BY <3>1
  <2>6. k.remaining > 0 \/ k.remaining = 0
    <3>1. k \in Copied  BY <1>7
    <3>2. k.remaining \in 0 .. 20  BY <3>1 DEF Copied
    <3>. QED  BY <3>2
  <2>. QED  BY <2>2, <2>3, <2>4, <2>5, <2>6
<1>10. /\ Handed(c).phase = d.phase /\ Handed(c).deadlineArmed = d.deadlineArmed
       /\ Handed(c).deadlineAt = d.deadlineAt
  BY <1>4, <1>8 DEF WithPacing, Copied
<1>. QED  BY <1>5, <1>6, <1>7, <1>9, <1>10

LEMMA ArmedDeadline ==
    ASSUME IInv, NEW t \in DOMAIN commands
    PROVE  IF /\ commands[t].deadlineArmed /\ commands[t].phase # "STOP"
              /\ Due(now, commands[t].deadlineAt)
           THEN /\ Armed[t].req = commands[t].req
                /\ Armed[t].started = commands[t].started
                /\ Armed[t].deadlineArmed = commands[t].deadlineArmed
                /\ Armed[t].deadlineAt = commands[t].deadlineAt
                /\ Armed[t].phase = "STOP"
                /\ Armed[t].remaining = commands[t].req.repeats
                /\ Armed[t].nextAt = now
           ELSE Armed[t] = commands[t]
<1>1. PICK c : c = commands[t]  OBVIOUS
<1>2. c \in Command  BY <1>1, Typed
<1>3. CASE c.deadlineArmed /\ c.phase # "STOP" /\ Due(now, c.deadlineAt)
  <2>1. Armed[t] = [c EXCEPT !.phase = "STOP", !.remaining = c.req.repeats, !.nextAt = now]
    BY <1>1, <1>3 DEF Armed
  <2>2. PICK a : a = Armed[t]  OBVIOUS
  <2>3. /\ a.req = c.req /\ a.started = c.started /\ a.deadlineArmed = c.deadlineArmed
        /\ a.deadlineAt = c.deadlineAt /\ a.phase = "STOP" /\ a.remaining = c.req.repeats
        /\ a.nextAt = now
    BY <1>2, <2>1, <2>2 DEF Command
  <2>. QED  BY <1>1, <1>3, <2>2, <2>3
<1>4. CASE ~ (c.deadlineArmed /\ c.phase # "STOP" /\ Due(now, c.deadlineAt))
  <2>1. Armed[t] = c  BY <1>1, <1>4 DEF Armed
  <2>. QED  BY <1>1, <1>4, <2>1
<1>. QED  BY <1>3, <1>4

(* An overdue deadline that waits is a due STOP train once it is armed.    *)
LEMMA ArmedDeadlineOk ==
    ASSUME IInv, NEW t \in DOMAIN commands, DeadlineOk(commands[t])
    PROVE  /\ DeadlineOk(Armed[t])
           /\ Waits(Armed[t]) <=> Waits(commands[t])
<1>1. CASE Armed[t] = commands[t]  BY <1>1
<1>2. CASE Armed[t] # commands[t]
  <2>1. /\ commands[t].deadlineArmed /\ commands[t].phase # "STOP"
        /\ Armed[t].req = commands[t].req /\ Armed[t].started = commands[t].started
        /\ Armed[t].deadlineArmed /\ Armed[t].phase = "STOP"
        /\ Armed[t].remaining = commands[t].req.repeats
    BY <1>2, ArmedDeadline
  <2>2. commands[t].req.repeats \in 1 .. 20  BY Typed, RequestType DEF Command
  <2>. QED  BY <2>1, <2>2 DEF DeadlineOk, Waits
<1>. QED  BY <1>1, <1>2

LEMMA HandedDeadlineOk ==
    ASSUME NEW c, CommandOk(c), now \in Instants, DeadlineOk(c), c.phase # "WAIT_STOP"
    PROVE  /\ DeadlineOk(Handed(c))
           /\ Waits(Handed(c)) => c.phase \in {"ACTION", "TRAILER"} /\ Handed(c).phase # "STOP"
<1>1. /\ c.phase \in {"ACTION", "TRAILER", "STOP"} /\ c.remaining \in 1 .. 20
      /\ c.req.repeats \in 1 .. 20
  BY RequestType DEF CommandOk, Command, Phases
<1>2. Handed(c).req = c.req  BY HandedShape
<1>3. CASE c.phase = "STOP"
  <2>1. /\ Handed(c).phase = "STOP" /\ Handed(c).started = c.started
        /\ Handed(c).remaining = c.remaining - 1
    BY <1>3, HandedShape
  <2>2. Handed(c).deadlineArmed = c.deadlineArmed
    BY <1>3, HandedDeadline DEF Starts
  <2>3. c.deadlineArmed /\ c.started /\ Timed(c.req) /\ c.remaining <= c.req.repeats
    BY <1>3 DEF DeadlineOk
  <2>4. DeadlineOk(Handed(c))  BY <1>1, <1>2, <2>1, <2>2, <2>3 DEF DeadlineOk
  <2>5. Handed(c).remaining # c.req.repeats  BY <1>1, <2>1, <2>3
  <2>6. ~ Waits(Handed(c))  BY <1>2, <2>1, <2>5 DEF Waits
  <2>. QED  BY <2>4, <2>6
<1>4. CASE c.phase \in {"ACTION", "TRAILER"}
  <2>1. Handed(c).phase # "STOP" /\ Handed(c).started = (c.started \/ Starts(c))
    BY <1>4, HandedShape
  <2>2. Handed(c).deadlineArmed => Handed(c).started /\ Timed(c.req)
    <3>1. CASE Starts(c) /\ Timed(c.req)  BY <2>1, <3>1
    <3>2. CASE ~ (Starts(c) /\ Timed(c.req))
      <4>1. Handed(c).deadlineArmed = c.deadlineArmed  BY <3>2, HandedDeadline
      <4>. QED  BY <2>1, <4>1 DEF DeadlineOk
    <3>. QED  BY <3>1, <3>2
  <2>. QED  BY <1>2, <1>4, <2>1, <2>2 DEF DeadlineOk
<1>. QED  BY <1>1, <1>3, <1>4

(* What a step makes of each command that is live afterwards.              *)
LEMMA CommandSteps ==
    ASSUME IInv, [Next]_vars, NEW t \in DOMAIN commands'
    PROVE  \/ t \in DOMAIN commands /\ commands'[t] = commands[t]
           \/ t \in DOMAIN commands /\ commands'[t] = Armed[t]
           \/ /\ t \in DOMAIN commands /\ commands'[t] = Handed(Armed[t])
              /\ Armed[t].phase \in {"ACTION", "TRAILER", "STOP"}
           \/ \E r \in Requests : commands'[t] = NewCommand(r)
<1>1. CASE \E r \in Requests : Admit(r)
  <2>1. PICK r \in Requests : Admit(r)  BY <1>1
  <2>2. /\ DOMAIN commands' = Retained(r.target) \cup {r.target}
        /\ commands'[r.target] = NewCommand(r)
        /\ \A u \in Retained(r.target) : commands'[u] = commands[u]
    BY <2>1, AdmitShape
  <2>. QED  BY <2>2 DEF Retained
<1>2. CASE \E r \in Requests : Refuse(r)  BY <1>2 DEF Refuse
<1>3. CASE \E id \in Ids : Disarm(id)  BY <1>3, DisarmShape
<1>4. CASE DrainArmedStops
  <2>1. DOMAIN commands' = {}  BY <1>4 DEF DrainArmedStops
  <2>. QED  BY <2>1
<1>5. CASE Poll
  <2>1. CASE PollIdle  BY <2>1 DEF PollIdle
  <2>2. CASE PollAirBusy \/ PollNothingDue \/ SendFlushStop
    <3>1. commands' = Armed  BY <2>2 DEF PollAirBusy, PollNothingDue, SendFlushStop
    <3>2. DOMAIN Armed = DOMAIN commands  BY DEF Armed
    <3>. QED  BY <3>1, <3>2
  <2>3. CASE SendScheduledStop \/ SendAction
    <3>1. PICK i \in Entries : /\ Dispatch(i)
                               /\ Armed[order[i + 1]].phase \in {"ACTION", "TRAILER", "STOP"}
      BY <2>3 DEF SendScheduledStop, SendAction, ActionCandidates, FirstFromCursor, StopReady,
                  ActionReady, AirOwners, Entry
    <3>2. /\ t \in DOMAIN commands
          /\ commands'[t] = IF t = order[i + 1] THEN Handed(Armed[t]) ELSE Armed[t]
      BY <3>1, DispatchShape
    <3>. QED  BY <3>1, <3>2
  <2>. QED  BY <1>5, <2>1, <2>2, <2>3 DEF Poll, NextCall
<1>6. CASE Elapse  BY <1>6 DEF Elapse, schedulerVars
<1>7. CASE UNCHANGED vars  BY <1>7 DEF vars
<1>. QED  BY <1>1, <1>2, <1>3, <1>4, <1>5, <1>6, <1>7 DEF Next

LEMMA NextDeadlines ==
    ASSUME IInv, DeadlinesOk, [Next]_vars
    PROVE  DeadlinesOk'
<1>1. ASSUME NEW t \in DOMAIN commands'
      PROVE  DeadlineOk(commands'[t])
  <2>1. CASE t \in DOMAIN commands /\ commands'[t] = commands[t]
    BY <2>1 DEF DeadlinesOk
  <2>2. CASE t \in DOMAIN commands /\ commands'[t] = Armed[t]
    BY <2>2, ArmedDeadlineOk DEF DeadlinesOk
  <2>3. CASE /\ t \in DOMAIN commands /\ commands'[t] = Handed(Armed[t])
             /\ Armed[t].phase \in {"ACTION", "TRAILER", "STOP"}
    <3>1. CommandOk(Armed[t]) /\ now \in Instants  BY <2>3, ArmedShape, Typed
    <3>2. DeadlineOk(Armed[t])  BY <2>3, ArmedDeadlineOk DEF DeadlinesOk
    <3>. QED  BY <2>3, <3>1, <3>2, HandedDeadlineOk
  <2>4. CASE \E r \in Requests : commands'[t] = NewCommand(r)
    BY <2>4 DEF NewCommand, DeadlineOk
  <2>. QED  BY <2>1, <2>2, <2>3, <2>4, CommandSteps
<1>2. DeadlinesOk' = \A t \in DOMAIN commands' : DeadlineOk(commands'[t])
  BY DEF DeadlinesOk, DeadlineOk, Timed
<1>. QED  BY <1>1, <1>2

-----------------------------------------------------------------------------
(* How long a first STOP copy may still wait.  A turn is a frame and the    *)
(* pause of the loop after it.                                             *)
TurnTime == LongestHold + MaxStall - 1
WaitBound == (2 * MaxTargets - 1) * TurnTime

(* Delays and waits stay on the near half of the wheel, and the air of a   *)
(* command that waits is never taken for stale.                            *)
ClockFits ==
    /\ LongestHold > 0
    /\ 2 * WaitBound <= Wheel
    /\ \A r \in Requests :
          2 * r.stopAfter <= Wheel /\ r.stopAfter + WaitBound + MaxRepeatGap <= Wheel

LEMMA LongestHoldType ==
    /\ LongestHold \in Nat /\ LongestHold <= MaxRepeatGap
    /\ \A f \in Frames : Occupancy(f) <= LongestHold
<1>1. PICK S : S = {Occupancy(f) : f \in Frames}  OBVIOUS
<1>2. \A m \in S : m \in Nat /\ m <= MaxRepeatGap
  BY <1>1, OccupancyType, AirAssumption
<1>3. \E m \in S : \A f \in Frames : Occupancy(f) <= m
  <2>1. PICK T : T = {m + 1 : m \in S}  OBVIOUS
  <2>2. T \subseteq 1 .. MaxRepeatGap + 1
    <3>1. MaxRepeatGap \in Nat  BY LimitAssumption
    <3>. QED  BY <1>2, <2>1, <3>1
  <2>3. T # {}
    <3>1. NoFrame \in Frames  BY DEF Frames
    <3>. QED  BY <1>1, <2>1, <3>1
  <2>4. MaxRepeatGap + 1 \in Nat  BY LimitAssumption
  <2>5. PICK top \in T : \A j \in T : top >= j  BY <2>2, <2>3, <2>4, GreatestNat
  <2>6. PICK m \in S : top = m + 1  BY <2>1
  <2>7. ASSUME NEW f \in Frames PROVE Occupancy(f) <= m
    <3>1. Occupancy(f) \in S /\ Occupancy(f) \in Nat  BY <1>1, OccupancyType
    <3>2. Occupancy(f) + 1 \in T  BY <2>1, <3>1
    <3>3. top >= Occupancy(f) + 1  BY <2>5, <3>2
    <3>. QED  BY <1>2, <2>6, <3>1, <3>3
  <2>. QED  BY <2>7
<1>4. LongestHold \in S /\ \A f \in Frames : Occupancy(f) <= LongestHold
  BY <1>1, <1>3 DEF LongestHold
<1>. QED  BY <1>2, <1>4

LEMMA Scaled ==
    ASSUME NEW g \in Nat, NEW a \in Nat, NEW b \in Nat
    PROVE  /\ a * g \in Nat
           /\ a <= b => a * g <= b * g
           /\ a + 1 <= b => a * g + g <= b * g
<1>1. a * g \in Nat /\ b * g \in Nat  OBVIOUS
<1>2. ASSUME NEW c \in Nat, NEW d \in Nat, c <= d PROVE c * g <= d * g
  <2>1. PICK e \in Nat : d = c + e  BY <1>2
  <2>2. d * g = c * g + e * g  BY <2>1
  <2>3. e * g \in Nat /\ c * g \in Nat  OBVIOUS
  <2>. QED  BY <2>2, <2>3
<1>3. (a + 1) * g = a * g + g  OBVIOUS
<1>. QED  BY <1>1, <1>2, <1>3

LEMMA BoundType ==
    ASSUME ClockFits
    PROVE  /\ MaxTargets \in Nat \ {0} /\ MaxStall \in Nat \ {0}
           /\ LongestHold \in Nat \ {0} /\ LongestHold <= MaxRepeatGap
           /\ TurnTime \in Nat \ {0} /\ TurnTime = LongestHold + MaxStall - 1
           /\ WaitBound \in Nat
           /\ \A k \in 0 .. 2 * MaxTargets - 2 :
                 k * TurnTime \in Nat /\ k * TurnTime + TurnTime <= WaitBound
<1>1. /\ MaxTargets \in Nat \ {0} /\ MaxStall \in Nat \ {0}
      /\ LongestHold \in Nat \ {0} /\ LongestHold <= MaxRepeatGap
  BY LimitAssumption, LongestHoldType DEF ClockFits
<1>2. TurnTime \in Nat \ {0} /\ TurnTime = LongestHold + MaxStall - 1
  BY <1>1 DEF TurnTime
<1>3. PICK m : m = 2 * MaxTargets - 1  OBVIOUS
<1>4. m \in Nat  BY <1>1, <1>3
<1>5. WaitBound = m * TurnTime  BY <1>3 DEF WaitBound
<1>6. WaitBound \in Nat  BY <1>2, <1>4, <1>5, Scaled
<1>7. ASSUME NEW k \in 0 .. 2 * MaxTargets - 2
      PROVE  k * TurnTime \in Nat /\ k * TurnTime + TurnTime <= WaitBound
  <2>1. k \in Nat /\ k + 1 <= m  BY <1>1, <1>3
  <2>. QED  BY <1>2, <1>4, <1>5, <2>1, Scaled
<1>. QED  BY <1>1, <1>2, <1>6, <1>7

(* The turns others may take first: the flush queue and the rivals          *)
(* alternate, and when every place is a rival's the queue is empty.        *)
TurnsAhead(rivals, last) ==
    IF rivals = MaxTargets - 1 \/ last THEN 2 * rivals ELSE 2 * rivals + 1

LEMMA TurnsCount ==
    ASSUME NEW k \in 0 .. MaxTargets - 1, NEW j \in 0 .. MaxTargets - 1, NEW last \in BOOLEAN,
           j <= k
    PROVE  /\ TurnsAhead(k, last) \in 0 .. 2 * MaxTargets - 2
           /\ TurnsAhead(j, last) <= TurnsAhead(k, last)
           /\ j < k => TurnsAhead(j, FALSE) + 1 <= TurnsAhead(k, last)
           /\ k < MaxTargets - 1 => TurnsAhead(j, TRUE) + 1 <= TurnsAhead(k, FALSE)
<1>1. MaxTargets \in Nat \ {0}  BY LimitAssumption
<1>. QED  BY <1>1 DEF TurnsAhead

(* The start of a timed train, as its deadline remembers it; ages are      *)
(* counted from there, so that nothing wraps while the command waits.      *)
Origin(c) == Later(c.deadlineAt, Wheel - c.req.stopAfter)

(* How long it may still take until the next frame can go out.             *)
Pause(age, horizon, called) ==
    IF horizon > age THEN horizon - age + MaxStall - 1
    ELSE IF called THEN MaxStall ELSE 0

(* What is promised to a command whose first STOP copy waits: the time it  *)
(* has waited, the pause and a turn for everyone ahead stay below the      *)
(* bound.                                                                  *)
Promised(c, at, busy, called, turns) ==
    LET age == Since(at, Origin(c))
        horizon == Since(busy, Origin(c))
    IN  /\ horizon <= age + LongestHold
        /\ age >= c.req.stopAfter =>
              (age - c.req.stopAfter) + Pause(age, horizon, called) + turns * TurnTime < WaitBound
        /\ c.phase = "STOP" =>
              age >= c.req.stopAfter /\ Since(at, c.nextAt) <= age - c.req.stopAfter

LEMMA PromisedTypes ==
    ASSUME ClockFits, NEW c \in Command, Timed(c.req), NEW at \in Instants, NEW busy \in Instants
    PROVE  /\ c.req.stopAfter \in Nat \ {0}
           /\ 2 * c.req.stopAfter <= Wheel
           /\ c.req.stopAfter + WaitBound + MaxRepeatGap <= Wheel
           /\ c.deadlineAt \in Instants /\ c.nextAt \in Instants
           /\ Origin(c) \in Instants
           /\ Since(c.deadlineAt, Origin(c)) = c.req.stopAfter
           /\ Since(at, Origin(c)) \in 0 .. Wheel - 1
           /\ Since(busy, Origin(c)) \in 0 .. Wheel - 1
           /\ Wheel \in Nat /\ Wheel > 1 /\ 2 * (Wheel \div 2) = Wheel
           /\ MaxRepeatGap \in Nat /\ 2 * MaxRepeatGap < Wheel
<1>1. c.req \in Requests /\ c.deadlineAt \in Instants /\ c.nextAt \in Instants  BY DEF Command
<1>2. c.req.stopAfter \in Nat \ {0}  BY <1>1, RequestType DEF Timed
<1>3. /\ 2 * c.req.stopAfter <= Wheel
      /\ c.req.stopAfter + WaitBound + MaxRepeatGap <= Wheel
  BY <1>1 DEF ClockFits
<1>4. Wheel \in Nat /\ Wheel > 1 /\ Wheel % 2 = 0  BY WheelAssumption
<1>5. 2 * (Wheel \div 2) = Wheel  BY <1>4
<1>6. MaxRepeatGap \in Nat /\ 2 * MaxRepeatGap < Wheel  BY LimitAssumption, AirAssumption
<1>7. c.req.stopAfter \in 0 .. Wheel - 1  BY <1>2, <1>3, <1>4
<1>8. Origin(c) \in Instants /\ Since(c.deadlineAt, Origin(c)) = c.req.stopAfter
  BY <1>1, <1>7, OriginOfDeadline DEF Origin
<1>9. Since(at, Origin(c)) \in 0 .. Wheel - 1 /\ Since(busy, Origin(c)) \in 0 .. Wheel - 1
  BY <1>8, SinceValue
<1>. QED  BY <1>1, <1>2, <1>3, <1>4, <1>5, <1>6, <1>8, <1>9

(* What the promise says of the clock comparisons next() makes.            *)
LEMMA PromisedReads ==
    ASSUME ClockFits, NEW c \in Command, Timed(c.req), NEW at \in Instants, NEW busy \in Instants,
           NEW called \in BOOLEAN, NEW turns \in 0 .. 2 * MaxTargets - 2,
           Promised(c, at, busy, called, turns)
    PROVE  LET age == Since(at, Origin(c))
               horizon == Since(busy, Origin(c))
           IN  /\ age < c.req.stopAfter + WaitBound
               /\ Due(at, c.deadlineAt) <=> age >= c.req.stopAfter
               /\ age >= c.req.stopAfter => Since(at, c.deadlineAt) = age - c.req.stopAfter
               /\ c.phase = "STOP" => Due(at, c.nextAt)
               /\ Due(at, busy) \/ Since(busy, at) > MaxRepeatGap <=> horizon <= age
<1>1. PICK o : o = Origin(c)  OBVIOUS
<1>2. PICK e : e = Since(at, o)  OBVIOUS
<1>3. PICK b : b = Since(busy, o)  OBVIOUS
<1>4. PICK d : d = c.req.stopAfter  OBVIOUS
<1>5. PICK x : x = turns * TurnTime  OBVIOUS
<1>6. /\ d \in Nat \ {0} /\ 2 * d <= Wheel /\ d + WaitBound + MaxRepeatGap <= Wheel
      /\ c.deadlineAt \in Instants /\ c.nextAt \in Instants /\ o \in Instants
      /\ Since(c.deadlineAt, o) = d
      /\ e \in 0 .. Wheel - 1 /\ b \in 0 .. Wheel - 1
      /\ Wheel \in Nat /\ Wheel > 1 /\ 2 * (Wheel \div 2) = Wheel
      /\ MaxRepeatGap \in Nat /\ 2 * MaxRepeatGap < Wheel
  BY <1>1, <1>2, <1>3, <1>4, PromisedTypes
<1>7. /\ WaitBound \in Nat /\ 2 * WaitBound <= Wheel /\ x \in Nat /\ x + TurnTime <= WaitBound
      /\ TurnTime \in Nat \ {0}
      /\ LongestHold \in Nat /\ LongestHold <= MaxRepeatGap /\ MaxStall \in Nat \ {0}
  BY <1>5, BoundType DEF ClockFits
<1>8. PICK w : w = Pause(e, b, called)  OBVIOUS
<1>9. w \in Nat  BY <1>6, <1>7, <1>8 DEF Pause
<1>10. /\ b <= e + LongestHold
       /\ e >= d => (e - d) + w + x < WaitBound
       /\ c.phase = "STOP" => e >= d /\ Since(at, c.nextAt) <= e - d
  BY <1>1, <1>2, <1>3, <1>4, <1>5, <1>8 DEF Promised
<1>11. e < d + WaitBound  BY <1>6, <1>7, <1>9, <1>10
<1>12. PICK half : half = Wheel \div 2  OBVIOUS
<1>13. half \in Nat /\ 2 * half = Wheel  BY <1>6, <1>12
<1>14. Since(at, c.deadlineAt) = IF e >= d THEN e - d ELSE e - d + Wheel
  BY <1>2, <1>6, CommonOrigin
<1>15. Due(at, c.deadlineAt) <=> e >= d
  <2>1. Due(at, c.deadlineAt) <=> Since(at, c.deadlineAt) < half  BY <1>12 DEF Due
  <2>2. CASE e >= d
    <3>1. e - d < half  BY <1>6, <1>7, <1>11, <1>13, <2>2
    <3>. QED  BY <1>14, <2>1, <2>2, <3>1
  <2>3. CASE ~ (e >= d)
    <3>1. ~ (e - d + Wheel < half)  BY <1>6, <1>13, <2>3
    <3>. QED  BY <1>14, <2>1, <2>3, <3>1
  <2>. QED  BY <2>2, <2>3
<1>16. c.phase = "STOP" => Due(at, c.nextAt)
  <2>. SUFFICES ASSUME c.phase = "STOP" PROVE Due(at, c.nextAt)  OBVIOUS
  <2>1. PICK y : y = Since(at, c.nextAt)  OBVIOUS
  <2>2. y \in 0 .. Wheel - 1  BY <1>6, <2>1, SinceValue
  <2>3. y <= e - d /\ e >= d  BY <1>10, <2>1
  <2>4. y < half  BY <1>6, <1>7, <1>11, <1>13, <2>2, <2>3
  <2>. QED  BY <1>12, <2>1, <2>4 DEF Due
<1>17. Due(at, busy) \/ Since(busy, at) > MaxRepeatGap <=> b <= e
  <2>1. Since(at, busy) = IF e >= b THEN e - b ELSE e - b + Wheel
    BY <1>2, <1>3, <1>6, CommonOrigin
  <2>2. Since(busy, at) = IF b >= e THEN b - e ELSE b - e + Wheel
    BY <1>2, <1>3, <1>6, CommonOrigin
  <2>3. Due(at, busy) <=> Since(at, busy) < half  BY <1>12 DEF Due
  <2>4. CASE b <= e /\ e - b < half  BY <1>6, <2>1, <2>3, <2>4
  <2>5. CASE b <= e /\ ~ (e - b < half)
    <3>1. b # e  BY <1>6, <1>13, <2>5
    <3>2. b - e + Wheel > MaxRepeatGap  BY <1>6, <1>7, <1>11
    <3>. QED  BY <1>6, <2>2, <2>5, <3>1, <3>2
  <2>6. CASE ~ (b <= e)
    <3>1. ~ (e - b + Wheel < half)  BY <1>6, <1>7, <1>10, <1>13, <2>6
    <3>2. ~ (b - e > MaxRepeatGap)  BY <1>6, <1>7, <1>10, <2>6
    <3>. QED  BY <1>6, <2>1, <2>2, <2>3, <2>6, <3>1, <3>2
  <2>. QED  BY <2>4, <2>5, <2>6
<1>18. e >= d => Since(at, c.deadlineAt) = e - d  BY <1>14
<1>. QED  BY <1>1, <1>2, <1>3, <1>4, <1>11, <1>15, <1>16, <1>17, <1>18

-----------------------------------------------------------------------------
(* How a promise is kept, by every kind of step.                            *)

(* Fewer turns ahead.                                                      *)
LEMMA PromiseWithFewer ==
    ASSUME ClockFits, NEW c \in Command, Timed(c.req), NEW at \in Instants, NEW busy \in Instants,
           NEW called \in BOOLEAN, NEW turns \in 0 .. 2 * MaxTargets - 2,
           NEW fewer \in 0 .. 2 * MaxTargets - 2, fewer <= turns,
           Promised(c, at, busy, called, turns)
    PROVE  Promised(c, at, busy, called, fewer)
<1>1. PICK e : e = Since(at, Origin(c))  OBVIOUS
<1>2. PICK b : b = Since(busy, Origin(c))  OBVIOUS
<1>3. PICK d : d = c.req.stopAfter  OBVIOUS
<1>4. PICK w : w = Pause(e, b, called)  OBVIOUS
<1>5. PICK x : x = turns * TurnTime  OBVIOUS
<1>6. PICK y : y = fewer * TurnTime  OBVIOUS
<1>7. /\ d \in Nat /\ e \in Nat /\ b \in Nat  BY <1>1, <1>2, <1>3, PromisedTypes
<1>8. /\ WaitBound \in Nat /\ x \in Nat /\ y \in Nat /\ y <= x /\ MaxStall \in Nat
  <2>1. TurnTime \in Nat /\ turns \in Nat /\ fewer \in Nat  BY BoundType
  <2>. QED  BY <1>5, <1>6, <2>1, Scaled, BoundType
<1>9. w \in Int  BY <1>4, <1>7, <1>8 DEF Pause
<1>10. /\ b <= e + LongestHold
       /\ e >= d => (e - d) + w + x < WaitBound
       /\ c.phase = "STOP" => e >= d /\ Since(at, c.nextAt) <= e - d
  BY <1>1, <1>2, <1>3, <1>4, <1>5 DEF Promised
<1>11. e >= d => (e - d) + w + y < WaitBound  BY <1>7, <1>8, <1>9, <1>10
<1>. QED  BY <1>1, <1>2, <1>3, <1>4, <1>6, <1>10, <1>11 DEF Promised

(* The clock moves.                                                        *)
LEMMA PromiseAsTimePasses ==
    ASSUME ClockFits, NEW c \in Command, Timed(c.req), NEW at \in Instants, NEW busy \in Instants,
           NEW turns \in 0 .. 2 * MaxTargets - 2, Promised(c, at, busy, TRUE, turns),
           NEW delay \in 1 .. MaxStall
    PROVE  Promised(c, Later(at, delay), busy, FALSE, turns)
<1>1. PICK o : o = Origin(c)  OBVIOUS
<1>2. PICK e : e = Since(at, o)  OBVIOUS
<1>3. PICK b : b = Since(busy, o)  OBVIOUS
<1>4. PICK d : d = c.req.stopAfter  OBVIOUS
<1>5. PICK x : x = turns * TurnTime  OBVIOUS
<1>6. /\ d \in Nat \ {0} /\ d + WaitBound + MaxRepeatGap <= Wheel /\ MaxRepeatGap \in Nat
      /\ c.nextAt \in Instants /\ o \in Instants
      /\ e \in Nat /\ b \in Nat /\ Wheel \in Nat
  BY <1>1, <1>2, <1>3, <1>4, PromisedTypes
<1>7. /\ WaitBound \in Nat /\ x \in Nat /\ x + TurnTime <= WaitBound
      /\ TurnTime = LongestHold + MaxStall - 1 /\ LongestHold \in Nat \ {0} /\ MaxStall \in Nat \ {0}
  BY <1>5, BoundType
<1>8. /\ b <= e + LongestHold
      /\ e >= d => (e - d) + Pause(e, b, TRUE) + x < WaitBound
      /\ c.phase = "STOP" => e >= d /\ Since(at, c.nextAt) <= e - d
  BY <1>1, <1>2, <1>3, <1>4, <1>5 DEF Promised
<1>9. delay \in Nat /\ delay >= 1 /\ delay <= MaxStall  BY <1>7
<1>10. e + delay < Wheel
  <2>1. CASE e >= d
    <3>1. PICK w : w = Pause(e, b, TRUE)  OBVIOUS
    <3>2. w \in Nat /\ w >= delay  BY <1>6, <1>7, <1>9, <3>1 DEF Pause
    <3>3. (e - d) + w + x < WaitBound  BY <1>8, <2>1, <3>1
    <3>4. (e - d) + delay < WaitBound  BY <1>6, <1>7, <1>9, <3>2, <3>3
    <3>. QED  BY <1>6, <1>7, <1>9, <3>4
  <2>2. CASE ~ (e >= d)  BY <1>6, <1>7, <1>9, <2>2
  <2>. QED  BY <2>1, <2>2
<1>11. PICK f : f = e + delay  OBVIOUS
<1>12. f \in Nat /\ f > e /\ f <= e + MaxStall /\ f = e + delay  BY <1>6, <1>7, <1>9, <1>11
<1>13. Since(Later(at, delay), o) = f  BY <1>2, <1>6, <1>9, <1>10, <1>11, PassedDistance
<1>14. f >= d => (f - d) + Pause(f, b, FALSE) + x < WaitBound
  <2>1. CASE e >= d
    <3>1. PICK w : w = Pause(e, b, TRUE)  OBVIOUS
    <3>2. (e - d) + w + x < WaitBound  BY <1>8, <2>1, <3>1
    <3>. QED  BY <1>6, <1>7, <1>12, <2>1, <3>1, <3>2 DEF Pause
  <2>2. CASE ~ (e >= d)  BY <1>6, <1>7, <1>8, <1>12, <2>2 DEF Pause
  <2>. QED  BY <2>1, <2>2
<1>15. c.phase = "STOP" => f >= d /\ Since(Later(at, delay), c.nextAt) <= f - d
  <2>. SUFFICES ASSUME c.phase = "STOP"
                PROVE  f >= d /\ Since(Later(at, delay), c.nextAt) <= f - d
    OBVIOUS
  <2>1. PICK y : y = Since(at, c.nextAt)  OBVIOUS
  <2>2. y \in Nat /\ y <= e - d /\ e >= d
    <3>1. y \in 0 .. Wheel - 1  BY <1>6, <2>1, SinceValue
    <3>. QED  BY <1>6, <1>8, <2>1, <3>1
  <2>3. y + delay < Wheel
    <3>1. y <= e  BY <1>6, <2>2
    <3>. QED  BY <1>6, <1>9, <1>10, <2>2, <3>1
  <2>4. Since(Later(at, delay), c.nextAt) = y + delay
    BY <1>6, <1>9, <2>1, <2>3, PassedDistance
  <2>. QED  BY <1>6, <1>9, <1>12, <2>2, <2>4
<1>16. b <= f + LongestHold  BY <1>6, <1>7, <1>8, <1>12
<1>. QED  BY <1>1, <1>3, <1>4, <1>5, <1>13, <1>14, <1>15, <1>16 DEF Promised

(* next() finds the air busy.                                              *)
LEMMA PromiseInBusyAir ==
    ASSUME NEW c, NEW at, NEW busy, NEW called \in BOOLEAN, NEW turns,
           Promised(c, at, busy, called, turns),
           Since(busy, Origin(c)) > Since(at, Origin(c))
    PROVE  Promised(c, at, busy, TRUE, turns)
BY DEF Promised, Pause

(* Before the deadline only the frame on the air counts.                   *)
LEMMA PromiseBeforeDeadline ==
    ASSUME NEW c, NEW at, NEW busy, NEW called, NEW turns,
           Since(busy, Origin(c)) <= Since(at, Origin(c)) + LongestHold,
           ~ (Since(at, Origin(c)) >= c.req.stopAfter), c.phase # "STOP"
    PROVE  Promised(c, at, busy, called, turns)
BY DEF Promised

(* The horizon of a frame that has just gone out.                          *)
LEMMA HorizonOfFrame ==
    ASSUME ClockFits, NEW c \in Command, Timed(c.req), NEW at \in Instants,
           NEW hold \in 0 .. LongestHold,
           Since(at, Origin(c)) < c.req.stopAfter + WaitBound
    PROVE  /\ Later(at, hold) \in Instants
           /\ Since(Later(at, hold), Origin(c)) = Since(at, Origin(c)) + hold
<1>1. PICK e : e = Since(at, Origin(c))  OBVIOUS
<1>2. PICK d : d = c.req.stopAfter  OBVIOUS
<1>3. /\ d \in Nat /\ d + WaitBound + MaxRepeatGap <= Wheel /\ MaxRepeatGap \in Nat
      /\ Origin(c) \in Instants /\ e \in Nat /\ Wheel \in Nat
  BY <1>1, <1>2, PromisedTypes
<1>4. /\ WaitBound \in Nat /\ LongestHold \in Nat /\ LongestHold <= MaxRepeatGap
  BY BoundType
<1>5. hold \in Nat /\ hold <= MaxRepeatGap  BY <1>3, <1>4
<1>6. e + hold < Wheel  BY <1>1, <1>2, <1>3, <1>4, <1>5
<1>7. Since(Later(at, hold), Origin(c)) = e + hold  BY <1>1, <1>3, <1>5, <1>6, PassedDistance
<1>8. Later(at, hold) \in Instants  BY <1>5, LaterType
<1>. QED  BY <1>1, <1>7, <1>8

(* Another frame goes out, and a turn is over.                             *)
LEMMA PromiseAfterTurn ==
    ASSUME ClockFits, NEW c \in Command, Timed(c.req), NEW at \in Instants, NEW busy \in Instants,
           NEW called \in BOOLEAN, NEW turns \in 0 .. 2 * MaxTargets - 2,
           Promised(c, at, busy, called, turns),
           Since(busy, Origin(c)) <= Since(at, Origin(c)),
           NEW hold \in 0 .. LongestHold,
           NEW fewer \in 0 .. 2 * MaxTargets - 2, fewer + 1 <= turns, NEW after
    PROVE  Promised(c, at, Later(at, hold), after, fewer)
<1>1. PICK o : o = Origin(c)  OBVIOUS
<1>2. PICK e : e = Since(at, o)  OBVIOUS
<1>3. PICK b : b = Since(busy, o)  OBVIOUS
<1>4. PICK d : d = c.req.stopAfter  OBVIOUS
<1>5. PICK x : x = turns * TurnTime  OBVIOUS
<1>6. PICK y : y = fewer * TurnTime  OBVIOUS
<1>7. d \in Nat /\ e \in Nat /\ b \in Nat  BY <1>1, <1>2, <1>3, <1>4, PromisedTypes
<1>8. /\ WaitBound \in Nat /\ TurnTime = LongestHold + MaxStall - 1
      /\ LongestHold \in Nat \ {0} /\ MaxStall \in Nat \ {0}
      /\ x \in Nat /\ y \in Nat /\ y + TurnTime <= x
  <2>1. TurnTime \in Nat /\ turns \in Nat /\ fewer \in Nat  BY BoundType
  <2>. QED  BY <1>5, <1>6, <2>1, Scaled, BoundType
<1>9. /\ e >= d => (e - d) + Pause(e, b, called) + x < WaitBound
      /\ c.phase = "STOP" => e >= d /\ Since(at, c.nextAt) <= e - d
  BY <1>1, <1>2, <1>3, <1>4, <1>5 DEF Promised
<1>10. Pause(e, b, called) \in Nat  BY <1>7, <1>8 DEF Pause
<1>11. e < d + WaitBound  BY <1>7, <1>8, <1>9, <1>10
<1>12. Since(Later(at, hold), o) = e + hold  BY <1>1, <1>2, <1>4, <1>11, HorizonOfFrame
<1>13. hold \in Nat /\ hold <= LongestHold  BY <1>8
<1>14. Pause(e, e + hold, after) \in Nat /\ Pause(e, e + hold, after) <= TurnTime
  BY <1>7, <1>8, <1>13 DEF Pause
<1>15. e >= d => (e - d) + Pause(e, e + hold, after) + y < WaitBound
  <2>1. PICK v : v = Pause(e, b, called)  OBVIOUS
  <2>2. PICK w : w = Pause(e, e + hold, after)  OBVIOUS
  <2>3. v \in Nat /\ w \in Nat /\ w <= TurnTime  BY <1>10, <1>14, <2>1, <2>2
  <2>4. e >= d => (e - d) + v + x < WaitBound  BY <1>9, <2>1
  <2>5. e >= d => (e - d) + w + y < WaitBound  BY <1>7, <1>8, <2>3, <2>4
  <2>. QED  BY <2>2, <2>5
<1>16. e + hold <= e + LongestHold  BY <1>7, <1>8, <1>13
<1>. QED  BY <1>1, <1>2, <1>4, <1>6, <1>9, <1>12, <1>15, <1>16 DEF Promised

(* The arming of a deadline that has fallen due.                           *)
LEMMA PromiseWhenArmed ==
    ASSUME ClockFits, NEW c \in Command, Timed(c.req), NEW at \in Instants, NEW busy \in Instants,
           NEW called \in BOOLEAN, NEW turns, Promised(c, at, busy, called, turns),
           Since(at, Origin(c)) >= c.req.stopAfter,
           NEW a, a.req = c.req, a.deadlineAt = c.deadlineAt, a.nextAt = at
    PROVE  Promised(a, at, busy, called, turns)
<1>1. Origin(a) = Origin(c)  BY DEF Origin
<1>2. Since(at, at) = 0
  <2>1. Since(at, at) = at - at  BY SinceValue DEF Instants
  <2>2. at \in Int  BY WheelAssumption DEF Instants
  <2>. QED  BY <2>1, <2>2
<1>3. Since(at, Origin(c)) \in Int /\ c.req.stopAfter \in Int  BY PromisedTypes
<1>4. Since(at, a.nextAt) <= Since(at, Origin(a)) - a.req.stopAfter
  BY <1>1, <1>2, <1>3
<1>. QED  BY <1>1, <1>4 DEF Promised

(* The first copy of a timed train sets its deadline.                      *)
LEMMA PromiseAtStart ==
    ASSUME ClockFits, NEW c \in Command, Timed(c.req), NEW at \in Instants,
           c.deadlineAt = Later(at, c.req.stopAfter), c.phase # "STOP",
           NEW hold \in 0 .. LongestHold, NEW called, NEW turns
    PROVE  Promised(c, at, Later(at, hold), called, turns)
<1>1. PICK d : d = c.req.stopAfter  OBVIOUS
<1>2. d \in Nat \ {0} /\ 2 * d <= Wheel /\ Wheel \in Nat /\ Wheel > 1  BY <1>1, PromisedTypes
<1>3. Origin(c) = at
  <2>1. d \in 0 .. Wheel - 1  BY <1>2
  <2>. QED  BY <1>1, <2>1, OriginOfDeadline DEF Origin
<1>4. Since(at, at) = 0
  <2>1. Since(at, at) = at - at  BY SinceValue DEF Instants
  <2>2. at \in Int  BY WheelAssumption DEF Instants
  <2>. QED  BY <2>1, <2>2
<1>5. WaitBound \in Nat /\ LongestHold \in Nat  BY BoundType
<1>6. Since(at, Origin(c)) < c.req.stopAfter + WaitBound  BY <1>1, <1>2, <1>3, <1>4, <1>5
<1>7. Since(Later(at, hold), Origin(c)) = 0 + hold  BY <1>3, <1>4, <1>6, HorizonOfFrame
<1>8. hold \in Nat /\ hold <= LongestHold  BY <1>5
<1>9. Since(Later(at, hold), Origin(c)) <= Since(at, Origin(c)) + LongestHold
  BY <1>3, <1>4, <1>5, <1>7, <1>8
<1>10. ~ (Since(at, Origin(c)) >= c.req.stopAfter)  BY <1>1, <1>2, <1>3, <1>4
<1>. QED  BY <1>9, <1>10, PromiseBeforeDeadline

-----------------------------------------------------------------------------
(* Every command whose first STOP copy waits is promised its turn.         *)
TurnsOf(t) == TurnsAhead(Cardinality(Rivals(t)), flushLast)

TurnPromised(t) ==
    rfDispatched /\ Promised(commands[t], now, rfBusyUntil, polled, TurnsOf(t))

WInv ==
    /\ BInv
    /\ DeadlinesOk
    /\ \A t \in DOMAIN commands : Waits(commands[t]) => TurnPromised(t)

LEMMA WaitingFacts ==
    ASSUME ClockFits, WInv, NEW t \in DOMAIN commands, Waits(commands[t])
    PROVE  /\ commands[t] \in Command /\ Timed(commands[t].req)
           /\ now \in Instants /\ rfBusyUntil \in Instants
           /\ polled \in BOOLEAN /\ flushLast \in BOOLEAN
           /\ IsFiniteSet(Rivals(t))
           /\ Cardinality(Rivals(t)) \in 0 .. MaxTargets - 1
           /\ flushStops # << >> => Cardinality(Rivals(t)) < MaxTargets - 1
           /\ TurnsOf(t) \in 0 .. 2 * MaxTargets - 2
           /\ TurnPromised(t)
<1>1. /\ commands[t] \in Command /\ DeadlineOk(commands[t])
      /\ flushStops \in Seq(QueuedStop)
  BY Typed DEF WInv, BInv, DeadlinesOk
<1>2. Timed(commands[t].req)  BY <1>1 DEF Waits, DeadlineOk
<1>3. now \in Instants /\ rfBusyUntil \in Instants /\ polled \in BOOLEAN /\ flushLast \in BOOLEAN
  BY DEF WInv, BInv, IInv, TypeOK
<1>4. OwesStop(commands[t])  BY <1>1, WaitsOwes
<1>5. /\ IsFiniteSet(Rivals(t)) /\ Cardinality(Rivals(t)) \in Nat /\ Len(flushStops) \in Nat
      /\ Cardinality(Rivals(t)) + 1 + Len(flushStops) <= MaxTargets
  BY <1>4, RivalsFew DEF WInv
<1>6. Cardinality(Rivals(t)) \in 0 .. MaxTargets - 1  BY <1>5, LimitAssumption
<1>7. flushStops # << >> => Cardinality(Rivals(t)) < MaxTargets - 1
  <2>1. flushStops # << >> => Len(flushStops) > 0  BY <1>1
  <2>. QED  BY <1>5, <2>1, LimitAssumption
<1>8. TurnsOf(t) \in 0 .. 2 * MaxTargets - 2
  <2>1. PICK k : k = Cardinality(Rivals(t))  OBVIOUS
  <2>2. k \in 0 .. MaxTargets - 1 /\ k <= k  BY <1>6, <2>1
  <2>3. TurnsAhead(k, flushLast) \in 0 .. 2 * MaxTargets - 2  BY <1>3, <2>2, TurnsCount
  <2>. QED  BY <2>1, <2>3 DEF TurnsOf
<1>9. TurnPromised(t)  BY DEF WInv
<1>. QED  BY <1>1, <1>2, <1>3, <1>5, <1>6, <1>7, <1>8, <1>9

(* What next() makes of it.                                                *)
LEMMA WaitingReads ==
    ASSUME ClockFits, WInv, NEW t \in DOMAIN commands, Waits(commands[t])
    PROVE  LET age == Since(now, Origin(commands[t]))
               horizon == Since(rfBusyUntil, Origin(commands[t]))
               delay == commands[t].req.stopAfter
           IN  /\ age < delay + WaitBound
               /\ RfAirClear <=> horizon <= age
               /\ Due(now, commands[t].deadlineAt) <=> age >= delay
               /\ age >= delay => /\ Since(now, commands[t].deadlineAt) = age - delay
                                  /\ Armed[t].phase = "STOP" /\ Due(now, Armed[t].nextAt)
               /\ ~ (age >= delay) => Armed[t] = commands[t] /\ commands[t].phase # "STOP"
               /\ Armed[t] \in Command /\ Armed[t].req = commands[t].req
               /\ Armed[t].deadlineAt = commands[t].deadlineAt
               /\ Origin(Armed[t]) = Origin(commands[t])
               /\ Promised(Armed[t], now, rfBusyUntil, polled, TurnsOf(t))
<1>. DEFINE age == Since(now, Origin(commands[t]))
            horizon == Since(rfBusyUntil, Origin(commands[t]))
            delay == commands[t].req.stopAfter
<1>1. /\ commands[t] \in Command /\ Timed(commands[t].req)
      /\ now \in Instants /\ rfBusyUntil \in Instants /\ polled \in BOOLEAN
      /\ TurnsOf(t) \in 0 .. 2 * MaxTargets - 2
      /\ rfDispatched /\ Promised(commands[t], now, rfBusyUntil, polled, TurnsOf(t))
  BY WaitingFacts DEF TurnPromised
<1>2. /\ age < delay + WaitBound
      /\ Due(now, commands[t].deadlineAt) <=> age >= delay
      /\ age >= delay => Since(now, commands[t].deadlineAt) = age - delay
      /\ commands[t].phase = "STOP" => Due(now, commands[t].nextAt)
      /\ Due(now, rfBusyUntil) \/ Since(rfBusyUntil, now) > MaxRepeatGap <=> horizon <= age
  BY <1>1, PromisedReads
<1>3. RfAirClear <=> horizon <= age  BY <1>1, <1>2 DEF RfAirClear
<1>4. commands[t].deadlineArmed  BY DEF Waits
<1>5. IInv  BY DEF WInv, BInv
<1>6. Due(now, now)
  <2>1. Since(now, now) = now - now /\ now \in Int
    BY <1>1, SinceValue, WheelAssumption DEF Instants
  <2>2. Wheel \div 2 > 0  BY WheelAssumption
  <2>. QED  BY <2>1, <2>2 DEF Due
<1>7. age >= delay => Armed[t].phase = "STOP" /\ Due(now, Armed[t].nextAt)
  BY <1>2, <1>4, <1>5, <1>6, ArmedDeadline
<1>8. ~ (age >= delay) => commands[t].phase # "STOP"
  BY <1>1 DEF Promised
<1>9. ~ (age >= delay) => Armed[t] = commands[t]
  BY <1>2, <1>5, ArmedDeadline
<1>10. Armed[t] \in Command  BY <1>5, ArmedShape DEF CommandOk
<1>11. Armed[t].req = commands[t].req /\ Armed[t].deadlineAt = commands[t].deadlineAt
  BY <1>5, ArmedDeadline
<1>12. Origin(Armed[t]) = Origin(commands[t])  BY <1>11 DEF Origin
<1>13. Promised(Armed[t], now, rfBusyUntil, polled, TurnsOf(t))
  <2>1. CASE Armed[t] = commands[t]  BY <1>1, <2>1
  <2>2. CASE Armed[t] # commands[t]
    <3>1. Armed[t].nextAt = now /\ age >= delay  BY <1>2, <1>5, <2>2, ArmedDeadline
    <3>. QED  BY <1>1, <1>11, <3>1, PromiseWhenArmed
  <2>. QED  BY <2>1, <2>2
<1>. QED  BY <1>2, <1>3, <1>7, <1>8, <1>9, <1>10, <1>11, <1>12, <1>13

-----------------------------------------------------------------------------
(* A due STOP train is a candidate of the round.                           *)
LEMMA ReadyListed ==
    ASSUME IInv, NEW t \in DOMAIN commands, Armed[t].phase = "STOP", Due(now, Armed[t].nextAt)
    PROVE  StopReady(Armed) # {}
<1>1. PICK q \in DOMAIN order : order[q] = t  BY OrderShape
<1>2. q - 1 \in Entries /\ (q - 1) + 1 = q  BY OrderShape DEF Entries
<1>3. q - 1 \in StopReady(Armed)  BY <1>1, <1>2 DEF StopReady, Entry
<1>. QED  BY <1>3

(* The promise as a step leaves it.                                        *)
PromisedThen(t) ==
    /\ rfDispatched'
    /\ Promised(commands'[t], now', rfBusyUntil', polled',
                TurnsAhead(Cardinality(Rivals(t)'), flushLast'))

(* Fewer rivals, fewer turns; a turn of the queue or of a rival is one     *)
(* turn less.                                                              *)
LEMMA TurnsFewer ==
    ASSUME ClockFits, WInv, NEW t \in DOMAIN commands, Waits(commands[t]),
           NEW S, S \subseteq Rivals(t)
    PROVE  /\ \A last \in BOOLEAN : TurnsAhead(Cardinality(S), last) \in 0 .. 2 * MaxTargets - 2
           /\ TurnsAhead(Cardinality(S), flushLast) <= TurnsOf(t)
           /\ flushStops # << >> /\ ~ flushLast => TurnsAhead(Cardinality(S), TRUE) + 1 <= TurnsOf(t)
           /\ S # Rivals(t) => TurnsAhead(Cardinality(S), FALSE) + 1 <= TurnsOf(t)
<1>1. PICK k : k = Cardinality(Rivals(t))  OBVIOUS
<1>2. PICK j : j = Cardinality(S)  OBVIOUS
<1>3. /\ IsFiniteSet(Rivals(t)) /\ k \in 0 .. MaxTargets - 1
      /\ flushStops # << >> => k < MaxTargets - 1
      /\ flushLast \in BOOLEAN /\ TurnsOf(t) = TurnsAhead(k, flushLast)
  BY <1>1, WaitingFacts DEF TurnsOf
<1>4. IsFiniteSet(S) /\ j <= k /\ (S # Rivals(t) => j < k) /\ j \in Nat
  <2>1. IsFiniteSet(S) /\ j <= k /\ (j = k => S = Rivals(t))
    BY <1>1, <1>2, <1>3, FS_Subset
  <2>2. j \in Nat  BY <1>2, <2>1, FS_CardinalityType
  <2>3. k \in Nat  BY <1>3
  <2>. QED  BY <2>1, <2>2, <2>3
<1>5. j \in 0 .. MaxTargets - 1 /\ j <= j  BY <1>3, <1>4, LimitAssumption
<1>6. \A last \in BOOLEAN : TurnsAhead(j, last) \in 0 .. 2 * MaxTargets - 2
  BY <1>5, TurnsCount
<1>7. /\ TurnsAhead(j, flushLast) <= TurnsAhead(k, flushLast)
      /\ j < k => TurnsAhead(j, FALSE) + 1 <= TurnsAhead(k, flushLast)
      /\ k < MaxTargets - 1 => TurnsAhead(j, TRUE) + 1 <= TurnsAhead(k, FALSE)
  BY <1>3, <1>4, <1>5, TurnsCount
<1>8. ~ flushLast => flushLast = FALSE  BY <1>3
<1>. QED  BY <1>2, <1>3, <1>4, <1>6, <1>7, <1>8

(* A step that leaves the command, the clock and the air alone.            *)
LEMMA QuietPromise ==
    ASSUME ClockFits, WInv, NEW t \in DOMAIN commands, Waits(commands[t]),
           commands'[t] = commands[t], Rivals(t)' \subseteq Rivals(t),
           UNCHANGED <<now, rfBusyUntil, rfDispatched, polled, flushLast>>
    PROVE  PromisedThen(t)
<1>1. PICK fewer : fewer = TurnsAhead(Cardinality(Rivals(t)'), flushLast)  OBVIOUS
<1>2. fewer \in 0 .. 2 * MaxTargets - 2 /\ fewer <= TurnsOf(t)
  BY <1>1, TurnsFewer, WaitingFacts
<1>3. Promised(commands[t], now, rfBusyUntil, polled, fewer)
  BY <1>2, WaitingFacts, PromiseWithFewer DEF TurnPromised
<1>. QED  BY <1>1, <1>3, WaitingFacts DEF PromisedThen, TurnPromised

(* The hold of a frame on the air.                                         *)
LEMMA FrameHold ==
    ASSUME NEW f \in Frames
    PROVE  Occupancy(f) \in 0 .. LongestHold
BY LongestHoldType, OccupancyType

LEMMA DispatchAir ==
    ASSUME IInv, NEW i \in Entries, Dispatch(i)
    PROVE  /\ rfDispatched' /\ flushLast' = FALSE
           /\ \E hold \in 0 .. LongestHold : rfBusyUntil' = Later(now, hold)
<1>1. PICK c : c = Armed[order[i + 1]]  OBVIOUS
<1>2. c.req \in Requests
  <2>1. order[i + 1] \in DOMAIN commands  BY DispatchShape
  <2>. QED  BY <1>1, <2>1, ArmedShape DEF CommandOk, Command
<1>3. PhaseFrame(c) \in Frames  BY <1>2, RequestType DEF PhaseFrame
<1>4. rfDispatched' /\ flushLast' = FALSE /\ rfBusyUntil' = Later(now, Occupancy(PhaseFrame(c)))
  BY <1>1 DEF Dispatch, RecordDispatch
<1>. QED  BY <1>3, <1>4, FrameHold

(* A call of next() long before the deadline.                              *)
LEMMA EarlyPromise ==
    ASSUME ClockFits, WInv, NEW t \in DOMAIN commands, Waits(commands[t]),
           ~ (Since(now, Origin(commands[t])) >= commands[t].req.stopAfter),
           commands'[t].req = commands[t].req, commands'[t].deadlineAt = commands[t].deadlineAt,
           commands'[t].phase # "STOP",
           now' = now, rfDispatched',
           \/ rfBusyUntil' = rfBusyUntil
           \/ \E hold \in 0 .. LongestHold : rfBusyUntil' = Later(now, hold)
    PROVE  PromisedThen(t)
<1>1. PICK c : c = commands'[t]  OBVIOUS
<1>2. PICK e : e = Since(now, Origin(commands[t]))  OBVIOUS
<1>3. Origin(c) = Origin(commands[t])  BY <1>1 DEF Origin
<1>4. Since(rfBusyUntil', Origin(commands[t])) <= e + LongestHold
  <2>1. CASE rfBusyUntil' = rfBusyUntil
    BY <1>2, <2>1, WaitingFacts DEF TurnPromised, Promised
  <2>2. CASE \E hold \in 0 .. LongestHold : rfBusyUntil' = Later(now, hold)
    <3>1. PICK hold \in 0 .. LongestHold : rfBusyUntil' = Later(now, hold)  BY <2>2
    <3>2. e < commands[t].req.stopAfter + WaitBound  BY <1>2, WaitingReads
    <3>3. Since(rfBusyUntil', Origin(commands[t])) = e + hold
      BY <1>2, <3>1, <3>2, WaitingFacts, HorizonOfFrame
    <3>4. e \in Int /\ LongestHold \in Nat
      <4>1. e \in 0 .. Wheel - 1  BY <1>2, WaitingFacts, PromisedTypes
      <4>. QED  BY <4>1, BoundType
    <3>. QED  BY <3>3, <3>4
  <2>. QED  BY <2>1, <2>2
<1>5. Promised(c, now, rfBusyUntil', polled', TurnsAhead(Cardinality(Rivals(t)'), flushLast'))
  BY <1>1, <1>2, <1>3, <1>4, PromiseBeforeDeadline
<1>. QED  BY <1>1, <1>5 DEF PromisedThen

(* A frame of another train or of the queue goes out, one turn is over.    *)
LEMMA LatePromise ==
    ASSUME ClockFits, WInv, NEW t \in DOMAIN commands, Waits(commands[t]),
           RfAirClear, commands'[t] = Armed[t], now' = now, rfDispatched',
           NEW hold \in 0 .. LongestHold, rfBusyUntil' = Later(now, hold),
           NEW fewer \in 0 .. 2 * MaxTargets - 2, fewer + 1 <= TurnsOf(t),
           fewer = TurnsAhead(Cardinality(Rivals(t)'), flushLast')
    PROVE  PromisedThen(t)
<1>1. PICK c : c = Armed[t]  OBVIOUS
<1>2. PICK busy : busy = rfBusyUntil  OBVIOUS
<1>3. PICK turns : turns = TurnsOf(t)  OBVIOUS
<1>4. /\ c \in Command /\ Timed(c.req) /\ now \in Instants /\ busy \in Instants
      /\ polled \in BOOLEAN /\ turns \in 0 .. 2 * MaxTargets - 2
  BY <1>1, <1>2, <1>3, WaitingFacts, WaitingReads
<1>5. Promised(c, now, busy, polled, turns)  BY <1>1, <1>2, <1>3, WaitingReads
<1>6. Since(busy, Origin(c)) <= Since(now, Origin(c))  BY <1>1, <1>2, WaitingReads
<1>7. fewer + 1 <= turns  BY <1>3
<1>8. Promised(c, now, Later(now, hold), polled', fewer)
  BY <1>4, <1>5, <1>6, <1>7, PromiseAfterTurn
<1>. QED  BY <1>1, <1>8 DEF PromisedThen

(* schedule(), disarm() and the refusals change neither clock nor air.     *)
LEMMA ScheduleKeepsPromise ==
    ASSUME ClockFits, WInv, \/ \E r \in Requests : Admit(r) \/ Refuse(r)
                            \/ \E id \in Ids : Disarm(id)
                            \/ UNCHANGED vars,
           NEW t \in DOMAIN commands', Waits(commands'[t])
    PROVE  PromisedThen(t)
<1>1. IInv  BY DEF WInv, BInv
<1>2. CASE \E r \in Requests : Admit(r)
  <2>1. PICK r \in Requests : Admit(r)  BY <1>2
  <2>2. /\ DOMAIN commands' = Retained(r.target) \cup {r.target}
        /\ commands'[r.target] = NewCommand(r)
        /\ \A u \in Retained(r.target) : commands'[u] = commands[u]
    BY <1>1, <2>1, AdmitShape
  <2>3. t # r.target
    <3>1. ~ Waits(NewCommand(r))  BY DEF Waits, NewCommand
    <3>. QED  BY <2>2, <3>1
  <2>4. t \in DOMAIN commands /\ commands'[t] = commands[t]  BY <2>2, <2>3 DEF Retained
  <2>5. Rivals(t)' \subseteq Rivals(t)  BY <1>1, <2>1, <2>3, AdmitRivals
  <2>6. UNCHANGED <<now, rfBusyUntil, rfDispatched, polled, flushLast>>
    BY <2>1 DEF Admit, clockVars
  <2>7. Waits(commands[t])  BY <2>4
  <2>. QED  BY <2>4, <2>5, <2>6, <2>7, QuietPromise
<1>3. CASE \E id \in Ids : Disarm(id)
  <2>1. PICK id \in Ids : Disarm(id)  BY <1>3
  <2>2. t \in DOMAIN commands /\ commands'[t] = commands[t]  BY <1>1, <2>1, DisarmShape
  <2>3. Rivals(t)' \subseteq Rivals(t)  BY <1>1, <2>1, DisarmRivals
  <2>4. UNCHANGED <<now, rfBusyUntil, rfDispatched, polled, flushLast>>
    BY <2>1 DEF Disarm, clockVars
  <2>5. Waits(commands[t])  BY <2>2
  <2>. QED  BY <2>2, <2>3, <2>4, <2>5, QuietPromise
<1>4. CASE (\E r \in Requests : Refuse(r)) \/ UNCHANGED vars
  <2>1. UNCHANGED <<commands, order, cursor, now, rfBusyUntil, rfDispatched, polled, flushLast>>
    BY <1>4 DEF Refuse, vars, clockVars
  <2>2. Rivals(t)' \subseteq Rivals(t)  BY <2>1, SameRoundRivals
  <2>3. t \in DOMAIN commands /\ commands'[t] = commands[t] /\ Waits(commands[t])  BY <2>1
  <2>. QED  BY <2>1, <2>2, <2>3, QuietPromise
<1>. QED  BY <1>2, <1>3, <1>4

LEMMA ElapseKeepsPromise ==
    ASSUME ClockFits, WInv, Elapse, NEW t \in DOMAIN commands', Waits(commands'[t])
    PROVE  PromisedThen(t)
<1>1. PICK delay \in 1 .. MaxStall : now' = Later(now, delay)  BY DEF Elapse
<1>2. /\ UNCHANGED <<commands, order, cursor, rfBusyUntil, rfDispatched, flushLast>>
      /\ polled /\ ~ polled'
  BY DEF Elapse, schedulerVars
<1>3. t \in DOMAIN commands /\ commands'[t] = commands[t] /\ Waits(commands[t])  BY <1>2
<1>4. PICK fewer : fewer = TurnsAhead(Cardinality(Rivals(t)'), flushLast)  OBVIOUS
<1>5. fewer \in 0 .. 2 * MaxTargets - 2 /\ fewer <= TurnsOf(t)
  <2>1. Rivals(t)' \subseteq Rivals(t)  BY <1>2, SameRoundRivals
  <2>. QED  BY <1>3, <1>4, <2>1, TurnsFewer, WaitingFacts
<1>6. PICK c : c = commands[t]  OBVIOUS
<1>7. /\ c \in Command /\ Timed(c.req) /\ now \in Instants /\ rfBusyUntil \in Instants
      /\ TurnsOf(t) \in 0 .. 2 * MaxTargets - 2 /\ polled \in BOOLEAN /\ rfDispatched
  BY <1>3, <1>6, WaitingFacts DEF TurnPromised
<1>8. Promised(c, now, rfBusyUntil, polled, fewer)
  BY <1>3, <1>5, <1>6, <1>7, WaitingFacts, PromiseWithFewer DEF TurnPromised
<1>9. Promised(c, now, rfBusyUntil, TRUE, fewer)  BY <1>2, <1>8 DEF Promised, Pause
<1>10. Promised(c, Later(now, delay), rfBusyUntil, FALSE, fewer)
  BY <1>5, <1>7, <1>9, PromiseAsTimePasses
<1>11. Promised(c, now', rfBusyUntil, polled', fewer)  BY <1>1, <1>2, <1>10 DEF Promised, Pause
<1>. QED  BY <1>2, <1>3, <1>4, <1>6, <1>7, <1>11 DEF PromisedThen

(* next() without a frame: the air is busy, or no train is due.            *)
LEMMA WaitingPollKeepsPromise ==
    ASSUME ClockFits, WInv, PollAirBusy \/ PollNothingDue, polled' = TRUE, now' = now,
           NEW t \in DOMAIN commands', Waits(commands'[t])
    PROVE  PromisedThen(t)
<1>1. IInv /\ DeadlinesOk  BY DEF WInv, BInv
<1>2. /\ commands' = Armed /\ UNCHANGED <<order, cursor, rfBusyUntil, rfDispatched>>
      /\ DOMAIN Armed = DOMAIN commands
  BY DEF PollAirBusy, PollNothingDue, Armed
<1>3. t \in DOMAIN commands /\ commands'[t] = Armed[t]  BY <1>2
<1>4. Waits(commands[t])  BY <1>1, <1>3, ArmedDeadlineOk DEF DeadlinesOk
<1>5. PICK c : c = Armed[t]  OBVIOUS
<1>6. /\ c \in Command /\ Timed(c.req) /\ now \in Instants /\ rfBusyUntil \in Instants
      /\ polled \in BOOLEAN /\ TurnsOf(t) \in 0 .. 2 * MaxTargets - 2 /\ rfDispatched
      /\ Promised(c, now, rfBusyUntil, polled, TurnsOf(t))
  BY <1>3, <1>4, <1>5, WaitingFacts, WaitingReads DEF TurnPromised
<1>7. CASE PollAirBusy
  <2>1. Rivals(t)' \subseteq Rivals(t)
    <3>1. \A u \in DOMAIN commands' : OwesStop(commands'[u]) => OwesStop(commands[u])
      BY <1>1, <1>2, ArmedShape
    <3>. QED  BY <1>2, <3>1, SameRoundRivals
  <2>2. PICK fewer : fewer = TurnsAhead(Cardinality(Rivals(t)'), flushLast)  OBVIOUS
  <2>3. fewer \in 0 .. 2 * MaxTargets - 2 /\ fewer <= TurnsOf(t)
    BY <1>3, <1>4, <2>1, <2>2, TurnsFewer, WaitingFacts
  <2>4. Promised(c, now, rfBusyUntil, polled, fewer)  BY <1>6, <2>3, PromiseWithFewer
  <2>5. Since(rfBusyUntil, Origin(c)) > Since(now, Origin(c))
    <3>1. ~ RfAirClear  BY <1>7 DEF PollAirBusy
    <3>2. ~ (Since(rfBusyUntil, Origin(c)) <= Since(now, Origin(c)))
      BY <1>3, <1>4, <1>5, <3>1, WaitingReads
    <3>3. Since(rfBusyUntil, Origin(c)) \in 0 .. Wheel - 1 /\ Since(now, Origin(c)) \in 0 .. Wheel - 1
      BY <1>6, PromisedTypes
    <3>. QED  BY <3>2, <3>3, WheelAssumption
  <2>6. Promised(c, now, rfBusyUntil, TRUE, fewer)  BY <1>6, <2>4, <2>5, PromiseInBusyAir
  <2>7. Promised(c, now, rfBusyUntil, polled', fewer)  BY <2>6 DEF Promised, Pause
  <2>8. UNCHANGED flushLast  BY <1>7 DEF PollAirBusy
  <2>. QED  BY <1>2, <1>3, <1>5, <1>6, <2>2, <2>7, <2>8 DEF PromisedThen
<1>8. CASE PollNothingDue
  <2>1. ~ (Since(now, Origin(commands[t])) >= commands[t].req.stopAfter)
    <3>. SUFFICES ASSUME Since(now, Origin(commands[t])) >= commands[t].req.stopAfter PROVE FALSE
      OBVIOUS
    <3>1. Armed[t].phase = "STOP" /\ Due(now, Armed[t].nextAt)  BY <1>3, <1>4, WaitingReads
    <3>2. StopReady(Armed) # {}  BY <1>1, <1>3, <3>1, ReadyListed
    <3>. QED  BY <1>8, <3>2 DEF PollNothingDue
  <2>2. Armed[t] = commands[t] /\ commands[t].phase # "STOP"  BY <1>3, <1>4, <2>1, WaitingReads
  <2>. QED  BY <1>2, <1>3, <1>4, <1>6, <2>1, <2>2, EarlyPromise
<1>. QED  BY <1>7, <1>8

LEMMA FlushKeepsPromise ==
    ASSUME ClockFits, WInv, SendFlushStop, polled' = TRUE, now' = now,
           NEW t \in DOMAIN commands', Waits(commands'[t])
    PROVE  PromisedThen(t)
<1>1. IInv /\ DeadlinesOk  BY DEF WInv, BInv
<1>2. /\ commands' = Armed /\ UNCHANGED <<order, cursor>> /\ rfDispatched' /\ flushLast' = TRUE
      /\ DOMAIN Armed = DOMAIN commands /\ RfAirClear /\ FlushTurn(Armed)
      /\ rfBusyUntil' = Later(now, Occupancy(Head(flushStops).stop))
  BY DEF SendFlushStop, RecordDispatch, Armed
<1>3. t \in DOMAIN commands /\ commands'[t] = Armed[t]  BY <1>2
<1>4. Waits(commands[t])  BY <1>1, <1>3, ArmedDeadlineOk DEF DeadlinesOk
<1>5. PICK hold \in 0 .. LongestHold : rfBusyUntil' = Later(now, hold)
  <2>1. flushStops # << >>  BY <1>2 DEF FlushTurn
  <2>2. Head(flushStops) \in QueuedStop
    <3>1. flushStops \in Seq(QueuedStop)  BY <1>1, Typed
    <3>. QED  BY <2>1, <3>1
  <2>3. Head(flushStops).stop \in Frames  BY <2>2 DEF QueuedStop
  <2>. QED  BY <1>2, <2>3, FrameHold
<1>6. CASE Since(now, Origin(commands[t])) >= commands[t].req.stopAfter
  <2>1. Armed[t].phase = "STOP" /\ Due(now, Armed[t].nextAt)  BY <1>3, <1>4, <1>6, WaitingReads
  <2>2. flushStops # << >> /\ ~ flushLast
    BY <1>2, <1>3, <2>1 DEF FlushTurn, ScheduledStopDue
  <2>3. Rivals(t)' \subseteq Rivals(t)
    <3>1. \A u \in DOMAIN commands' : OwesStop(commands'[u]) => OwesStop(commands[u])
      BY <1>1, <1>2, ArmedShape
    <3>. QED  BY <1>2, <3>1, SameRoundRivals
  <2>4. PICK fewer : fewer = TurnsAhead(Cardinality(Rivals(t)'), TRUE)  OBVIOUS
  <2>5. fewer \in 0 .. 2 * MaxTargets - 2 /\ fewer + 1 <= TurnsOf(t)
    BY <1>3, <1>4, <2>2, <2>3, <2>4, TurnsFewer
  <2>6. fewer = TurnsAhead(Cardinality(Rivals(t)'), flushLast')  BY <1>2, <2>4 DEF TurnsAhead
  <2>. QED  BY <1>2, <1>3, <1>4, <1>5, <2>5, <2>6, LatePromise
<1>7. CASE ~ (Since(now, Origin(commands[t])) >= commands[t].req.stopAfter)
  <2>1. Armed[t] = commands[t] /\ commands[t].phase # "STOP"  BY <1>3, <1>4, <1>7, WaitingReads
  <2>. QED  BY <1>2, <1>3, <1>4, <1>5, <1>7, <2>1, EarlyPromise
<1>. QED  BY <1>6, <1>7

LEMMA StopKeepsPromise ==
    ASSUME ClockFits, WInv, SendScheduledStop, polled' = TRUE, now' = now,
           NEW t \in DOMAIN commands', Waits(commands'[t])
    PROVE  PromisedThen(t)
<1>1. IInv /\ DeadlinesOk  BY DEF WInv, BInv
<1>2. RfAirClear  BY DEF SendScheduledStop
<1>3. PICK i \in FirstFromCursor(StopReady(Armed)) : Dispatch(i)  BY DEF SendScheduledStop
<1>4. PICK p : p = order[i + 1]  OBVIOUS
<1>5. i \in Entries /\ Armed[p].phase = "STOP"
  BY <1>3, <1>4 DEF FirstFromCursor, StopReady, Entry
<1>6. /\ p \in DOMAIN commands /\ t \in DOMAIN commands
      /\ commands'[t] = IF t = p THEN Handed(Armed[t]) ELSE Armed[t]
  BY <1>1, <1>3, <1>4, <1>5, DispatchShape
<1>7. t # p
  <2>1. CommandOk(Armed[p]) /\ now \in Instants  BY <1>1, <1>6, ArmedShape, Typed
  <2>2. DeadlineOk(Armed[p])  BY <1>1, <1>6, ArmedDeadlineOk DEF DeadlinesOk
  <2>3. ~ Waits(Handed(Armed[p]))  BY <1>5, <2>1, <2>2, HandedDeadlineOk
  <2>. QED  BY <1>6, <2>3
<1>8. commands'[t] = Armed[t]  BY <1>6, <1>7
<1>9. Waits(commands[t])  BY <1>1, <1>6, <1>8, ArmedDeadlineOk DEF DeadlinesOk
<1>10. rfDispatched' /\ flushLast' = FALSE  BY <1>1, <1>3, <1>5, DispatchAir
<1>11. PICK hold \in 0 .. LongestHold : rfBusyUntil' = Later(now, hold)
  BY <1>1, <1>3, <1>5, DispatchAir
<1>12. CASE Since(now, Origin(commands[t])) >= commands[t].req.stopAfter
  <2>1. Armed[t].phase = "STOP" /\ Due(now, Armed[t].nextAt)
    BY <1>6, <1>9, <1>12, WaitingReads
  <2>2. p \in Rivals(t) /\ Rivals(t)' \subseteq Rivals(t) \ {p}
    BY <1>1, <1>3, <1>4, <1>6, <1>7, <2>1, TurnTaken
  <2>3. PICK fewer : fewer = TurnsAhead(Cardinality(Rivals(t)'), FALSE)  OBVIOUS
  <2>4. fewer \in 0 .. 2 * MaxTargets - 2 /\ fewer + 1 <= TurnsOf(t)
    BY <1>6, <1>9, <2>2, <2>3, TurnsFewer
  <2>5. fewer = TurnsAhead(Cardinality(Rivals(t)'), flushLast')
    BY <1>10, <2>3 DEF TurnsAhead
  <2>. QED  BY <1>2, <1>6, <1>8, <1>9, <1>10, <1>11, <2>4, <2>5, LatePromise
<1>13. CASE ~ (Since(now, Origin(commands[t])) >= commands[t].req.stopAfter)
  <2>1. Armed[t] = commands[t] /\ commands[t].phase # "STOP"
    BY <1>6, <1>9, <1>13, WaitingReads
  <2>. QED  BY <1>6, <1>8, <1>9, <1>10, <1>11, <1>13, <2>1, EarlyPromise
<1>. QED  BY <1>12, <1>13

LEMMA ActionKeepsPromise ==
    ASSUME ClockFits, WInv, SendAction, polled' = TRUE, now' = now,
           NEW t \in DOMAIN commands', Waits(commands'[t])
    PROVE  PromisedThen(t)
<1>1. IInv /\ DeadlinesOk  BY DEF WInv, BInv
<1>2. StopReady(Armed) = {}  BY DEF SendAction
<1>3. PICK i \in ActionCandidates(Armed) : Dispatch(i)  BY DEF SendAction
<1>4. PICK p : p = order[i + 1]  OBVIOUS
<1>5. i \in Entries /\ Armed[p].phase \in {"ACTION", "TRAILER"}
  BY <1>3, <1>4 DEF ActionCandidates, FirstFromCursor, ActionReady, AirOwners, Entry
<1>6. /\ p \in DOMAIN commands /\ t \in DOMAIN commands
      /\ commands'[t] = IF t = p THEN Handed(Armed[t]) ELSE Armed[t]
  BY <1>1, <1>3, <1>4, <1>5, DispatchShape
<1>7. rfDispatched'  BY <1>1, <1>3, <1>5, DispatchAir
<1>8. PICK hold \in 0 .. LongestHold : rfBusyUntil' = Later(now, hold)
  BY <1>1, <1>3, <1>5, DispatchAir
<1>9. ASSUME Waits(commands[t])
      PROVE  /\ ~ (Since(now, Origin(commands[t])) >= commands[t].req.stopAfter)
             /\ Armed[t] = commands[t] /\ commands[t].phase # "STOP"
  <2>1. ~ (Since(now, Origin(commands[t])) >= commands[t].req.stopAfter)
    <3>. SUFFICES ASSUME Since(now, Origin(commands[t])) >= commands[t].req.stopAfter PROVE FALSE
      OBVIOUS
    <3>1. Armed[t].phase = "STOP" /\ Due(now, Armed[t].nextAt)  BY <1>6, <1>9, WaitingReads
    <3>. QED  BY <1>1, <1>2, <1>6, <3>1, ReadyListed
  <2>. QED  BY <1>6, <1>9, <2>1, WaitingReads
<1>10. CASE t # p
  <2>1. commands'[t] = Armed[t]  BY <1>6, <1>10
  <2>2. Waits(commands[t])  BY <1>1, <1>6, <2>1, ArmedDeadlineOk DEF DeadlinesOk
  <2>. QED  BY <1>6, <1>7, <1>8, <1>9, <2>1, <2>2, EarlyPromise
<1>11. CASE t = p
  <2>1. PICK a : a = Armed[t]  OBVIOUS
  <2>2. commands'[t] = Handed(a)  BY <1>6, <1>11, <2>1
  <2>3. CommandOk(a) /\ DeadlineOk(a) /\ now \in Instants
    BY <1>1, <1>6, <2>1, ArmedShape, ArmedDeadlineOk, Typed DEF DeadlinesOk
  <2>4. a.phase \in {"ACTION", "TRAILER"}  BY <1>5, <1>11, <2>1
  <2>5. Handed(a).req = a.req /\ Handed(a).phase # "STOP"  BY <2>3, <2>4, HandedShape
  <2>6. CASE Starts(a) /\ Timed(a.req)
    <3>1. Handed(a).deadlineAt = Later(now, a.req.stopAfter)  BY <2>3, <2>6, HandedDeadline
    <3>2. CommandOk(Handed(a))  BY <2>3, <2>4, <2>6, HandedShape, HandedOk
    <3>3. Handed(a) \in Command  BY <3>2 DEF CommandOk
    <3>4. PICK c : c = Handed(a)  OBVIOUS
    <3>5. /\ c \in Command /\ Timed(c.req) /\ c.deadlineAt = Later(now, c.req.stopAfter)
          /\ c.phase # "STOP"
      BY <2>5, <2>6, <3>1, <3>3, <3>4
    <3>6. Promised(c, now, Later(now, hold), polled',
                   TurnsAhead(Cardinality(Rivals(t)'), flushLast'))
      BY <2>3, <3>5, PromiseAtStart
    <3>. QED  BY <1>7, <1>8, <2>2, <3>4, <3>6 DEF PromisedThen
  <2>7. CASE ~ (Starts(a) /\ Timed(a.req))
    <3>1. Handed(a).deadlineArmed = a.deadlineArmed /\ Handed(a).deadlineAt = a.deadlineAt
      BY <2>3, <2>7, HandedDeadline
    <3>2. Waits(a)  BY <2>2, <2>4, <3>1 DEF Waits
    <3>3. Waits(commands[t])  BY <1>1, <1>6, <2>1, <3>2, ArmedDeadlineOk DEF DeadlinesOk
    <3>4. a = commands[t]  BY <1>9, <2>1, <3>3
    <3>. QED  BY <1>6, <1>7, <1>8, <1>9, <2>2, <2>5, <3>1, <3>3, <3>4, EarlyPromise
  <2>. QED  BY <2>6, <2>7
<1>. QED  BY <1>10, <1>11

LEMMA NextWaits ==
    ASSUME ClockFits
    PROVE  WInv /\ [Next]_vars => WInv'
<1>. SUFFICES ASSUME WInv, [Next]_vars PROVE WInv'  OBVIOUS
<1>1. BInv' /\ DeadlinesOk'  BY NextBound, NextDeadlines DEF WInv, BInv
<1>2. ASSUME NEW t \in DOMAIN commands', Waits(commands'[t])
      PROVE  PromisedThen(t)
  <2>1. CASE \/ \E r \in Requests : Admit(r) \/ Refuse(r)
             \/ \E id \in Ids : Disarm(id)
             \/ UNCHANGED vars
    BY <1>2, <2>1, ScheduleKeepsPromise
  <2>2. CASE DrainArmedStops
    <3>1. DOMAIN commands' = {}  BY <2>2 DEF DrainArmedStops
    <3>. QED  BY <1>2, <3>1
  <2>3. CASE Poll
    <3>1. polled' = TRUE /\ now' = now /\ NextCall  BY <2>3 DEF Poll
    <3>2. CASE PollIdle
      <4>1. DOMAIN commands' = {}  BY <3>2 DEF PollIdle, Idle
      <4>. QED  BY <1>2, <4>1
    <3>3. CASE PollAirBusy \/ PollNothingDue
      BY <1>2, <3>1, <3>3, WaitingPollKeepsPromise
    <3>4. CASE SendFlushStop  BY <1>2, <3>1, <3>4, FlushKeepsPromise
    <3>5. CASE SendScheduledStop  BY <1>2, <3>1, <3>5, StopKeepsPromise
    <3>6. CASE SendAction  BY <1>2, <3>1, <3>6, ActionKeepsPromise
    <3>. QED  BY <3>1, <3>2, <3>3, <3>4, <3>5, <3>6 DEF NextCall
  <2>4. CASE Elapse  BY <1>2, <2>4, ElapseKeepsPromise
  <2>. QED  BY <2>1, <2>2, <2>3, <2>4 DEF Next
<1>3. \A t : TurnPromised(t)' <=> PromisedThen(t)
  BY DEF TurnPromised, PromisedThen, TurnsOf, TurnsAhead, Promised, Pause, Origin, TurnTime,
         WaitBound, LongestHold
<1>4. \A t : Waits(commands[t])' <=> Waits(commands'[t])  BY DEF Waits
<1>5. \A t \in DOMAIN commands' : Waits(commands[t])' => TurnPromised(t)'
  BY <1>2, <1>3, <1>4
<1>. QED  BY <1>1, <1>5 DEF WInv

(* A promise bounds the wait.                                              *)
LEMMA PromiseBounds ==
    ASSUME ClockFits
    PROVE  WInv => FirstStopBounded
<1>. SUFFICES ASSUME WInv, NEW t \in DOMAIN commands, FirstStopPending(commands[t])
              PROVE  Since(now, commands[t].deadlineAt)
                         < (2 * MaxTargets - 1) * (LongestHold + MaxStall - 1)
  BY DEF FirstStopBounded
<1>1. Waits(commands[t]) /\ Due(now, commands[t].deadlineAt)  BY DEF FirstStopPending, Waits
<1>2. PICK e : e = Since(now, Origin(commands[t]))  OBVIOUS
<1>3. PICK d : d = commands[t].req.stopAfter  OBVIOUS
<1>4. e >= d /\ Since(now, commands[t].deadlineAt) = e - d
  BY <1>1, <1>2, <1>3, WaitingReads
<1>5. PICK w : w = Pause(e, Since(rfBusyUntil, Origin(commands[t])), polled)  OBVIOUS
<1>6. PICK x : x = TurnsOf(t) * TurnTime  OBVIOUS
<1>7. (e - d) + w + x < WaitBound
  BY <1>1, <1>2, <1>3, <1>4, <1>5, <1>6, WaitingFacts DEF TurnPromised, Promised
<1>8. e \in Int /\ d \in Int /\ Since(rfBusyUntil, Origin(commands[t])) \in Int
  <2>1. /\ e \in 0 .. Wheel - 1 /\ d \in Nat
        /\ Since(rfBusyUntil, Origin(commands[t])) \in 0 .. Wheel - 1
    BY <1>1, <1>2, <1>3, WaitingFacts, PromisedTypes
  <2>. QED  BY <2>1
<1>9. w \in Nat  BY <1>2, <1>5, <1>8, BoundType DEF Pause
<1>10. x \in Nat /\ WaitBound \in Nat
  <2>1. TurnsOf(t) \in 0 .. 2 * MaxTargets - 2  BY <1>1, WaitingFacts
  <2>. QED  BY <1>6, <2>1, BoundType
<1>11. e - d < WaitBound  BY <1>7, <1>8, <1>9, <1>10
<1>12. WaitBound = (2 * MaxTargets - 1) * (LongestHold + MaxStall - 1)
  BY DEF WaitBound, TurnTime
<1>. QED  BY <1>4, <1>11, <1>12

(* However many copies the trains have, and whatever is admitted, refused, *)
(* disarmed or displaced meanwhile, the first copy of a due fail-safe STOP *)
(* is handed over before 2 N - 1 frames and the pauses of the loop between *)
(* them have passed (next, schedule).                                      *)
THEOREM FirstStopsInTime ==
    ASSUME ClockFits
    PROVE  Spec => []FirstStopBounded
<1>1. Init => WInv
  <2>. SUFFICES ASSUME Init PROVE WInv  OBVIOUS
  <2>1. DOMAIN commands = {}  BY DEF Init
  <2>. QED  BY <2>1, InitBound DEF WInv, DeadlinesOk
<1>2. WInv /\ [Next]_vars => WInv'  BY NextWaits
<1>3. WInv => FirstStopBounded  BY PromiseBounds
<1>. QED  BY <1>1, <1>2, <1>3, PTL DEF Spec
=============================================================================
