---------------------------- MODULE Bridge_proofs ----------------------------
(***************************************************************************)
(* Proofs about Bridge, for every set of requests, every size of the ring, *)
(* every length of an outage and every number of boots: a command the ring *)
(* remembers runs once, no STOP is lost and every status agrees with the   *)
(* scheduler.  The three need one another, so one inductive invariant      *)
(* carries them all.                                                       *)
(***************************************************************************)
EXTENDS Bridge, TLAPS

(* The controller published the command for this very boot.                *)
Sent(id) == [request |-> RequestOf(id), boot |-> boot] \in mail

TypeInv ==
    /\ boot \in Nat
    /\ update \in {"none", "pumping", "draining", "transfer"}
    /\ place \in [Ids -> Places]
    /\ ring \in [Ids -> Answers]
    /\ runs \in [Ids -> Nat]
    /\ emergency \subseteq Ids /\ moving \subseteq Ids /\ refused \subseteq Ids
    /\ mail \subseteq [request : Requests, boot : Nat]
    /\ info \in Nat

(* What the ring says of a command agrees with where the scheduler has it. *)
RingInv(id) ==
    /\ ring[id] = "unknown" => place[id] = "none"
    /\ ring[id] = "admitted" => place[id] \in {"waiting", "discarded"}
    /\ ring[id] = "started" => runs[id] = 1 /\ place[id] \in {"acting", "armed", "left"}
    /\ place[id] = "flushing" => ring[id] = "displaced"

RunInv(id) ==
    /\ runs[id] \in {0, 1}
    /\ place[id] \in {"none", "waiting"} => runs[id] = 0
    /\ place[id] \in {"acting", "armed"} => runs[id] = 1
    /\ place[id] = "waiting" \/ runs[id] = 1 => Sent(id)

MotorInv(id) ==
    id \in moving =>
        /\ RequestOf(id).timed
        /\ place[id] \in {"acting", "armed", "flushing"} \/ id \in emergency

RefusedInv(id) ==
    id \in refused =>
        /\ place[id] = "none"
        /\ ring[id] # "unknown" \/ ~ Sound(RequestOf(id))

(* What an update leaves of the scheduler.                                 *)
UpdateInv ==
    /\ update # "draining" => emergency = {}
    /\ update \in {"draining", "transfer"} => Idle

SaidInv ==
    \A s \in said :
        /\ s.kind \in {"REJECTED", "LATCHED"} => place[s.id] \notin Live
        /\ s.kind = "ACCEPTED" => place[s.id] # "none"
        /\ s.kind = "ACCEPTED" /\ Status("STARTED", s.id) \notin said =>
              place[s.id] \in {"waiting", "discarded"}
        /\ s.kind \in {"STARTED", "COMPLETED"} => runs[s.id] = 1
        /\ s.kind \in {"DISPLACED", "DISARMED"} => place[s.id] \notin Scheduled
        /\ s.kind = "DATED" => ring[s.id] \in {"displaced", "unknown"}
        /\ s.kind = "DISARMED" => s.id \notin moving

IdInv(id) == RingInv(id) /\ RunInv(id) /\ MotorInv(id) /\ RefusedInv(id)

IInv ==
    /\ TypeInv
    /\ \A id \in Ids : IdInv(id)
    /\ UpdateInv
    /\ SaidInv

-----------------------------------------------------------------------------
(* Requests and their ids determine each other.                            *)
LEMMA RequestFacts ==
    /\ \A r \in Requests : r.id \in Ids /\ RequestOf(r.id) = r
    /\ \A id \in Ids : RequestOf(id) \in Requests /\ RequestOf(id).timed \in BOOLEAN
  <1>1. ASSUME NEW r \in Requests PROVE r.id \in Ids
    BY DEF Ids
  <1>2. ASSUME NEW id \in Ids PROVE RequestOf(id) \in Requests /\ RequestOf(id).id = id
    <2>1. PICK r \in Requests : r.id = id
      BY DEF Ids
    <2>. QED  BY <2>1 DEF RequestOf
  <1>3. ASSUME NEW r \in Requests PROVE RequestOf(r.id) = r
    BY <1>1, <1>2, AutomationAssumption
  <1>. QED  BY <1>1, <1>2, <1>3, AutomationAssumption

(* A message of this boot for a sound or unsound request is known by its   *)
(* id alone.                                                               *)
LEMMA MailFacts ==
    ASSUME TypeInv, NEW m \in mail
    PROVE  /\ m.request \in Requests /\ m.request.id \in Ids
           /\ RequestOf(m.request.id) = m.request
           /\ ~ BootMismatch(m) => Sent(m.request.id)
  BY RequestFacts DEF TypeInv, BootMismatch, Sent

(* A command that is neither scheduled nor owed a STOP is answered for by  *)
(* the ring.                                                               *)
LEMMA FreshFacts ==
    ASSUME IInv, NEW m \in mail, Fresh(m)
    PROVE  LET id == m.request.id IN
           /\ update = "none" /\ emergency = {}
           /\ ring[id] = "unknown" /\ place[id] = "none" /\ runs[id] = 0
           /\ id \notin moving
           /\ Sent(id)
  <1>. DEFINE id == m.request.id
  <1>1. id \in Ids /\ Sent(id)
    BY MailFacts DEF IInv, Fresh
  <1>2. update = "none" /\ emergency = {}
    BY DEF IInv, UpdateInv, Fresh, Latched
  <1>3. ring[id] = "unknown"
    BY <1>1 DEF Fresh, ReplayState
  <1>4. place[id] = "none"
    BY <1>1, <1>3 DEF IInv, IdInv, RingInv
  <1>. QED  BY <1>1, <1>2, <1>3, <1>4 DEF IInv, IdInv, RunInv, MotorInv, TypeInv

(* remember_: the id and its answer are in the ring, and at most one id    *)
(* that is not live goes with all that is known of it.                     *)
LEMMA RememberFacts ==
    ASSUME NEW answers \in [Ids -> Answers], NEW places \in [Ids -> Places],
           NEW id \in Ids, NEW answer \in Answers,
           Remember(answers, places, id, answer)
    PROVE  \E gone \in SUBSET Ids :
              /\ id \notin gone
              /\ \A d \in gone : places[d] \notin Live
              /\ ring' = [d \in Ids |-> IF d = id THEN answer
                                       ELSE IF d \in gone THEN "unknown" ELSE answers[d]]
              /\ place' = [d \in Ids |-> IF d \in gone THEN "none" ELSE places[d]]
              /\ runs' = [d \in Ids |-> IF d \in gone THEN 0 ELSE runs[d]]
              /\ refused' = IF answer = "rejected" THEN (refused \ gone) \cup {id}
                            ELSE refused \ gone
  <1>1. PICK gone \in Evictions(answers, places, id) :
           /\ ring' = Remembered(Forgetting(answers, gone, "unknown"), id, answer)
           /\ place' = Forgetting(places, gone, "none")
           /\ runs' = Forgetting(runs, gone, 0)
           /\ refused' = IF answer = "rejected" THEN (refused \ gone) \cup {id}
                         ELSE refused \ gone
    BY DEF Remember
  <1>2. gone \in SUBSET Ids /\ id \notin gone /\ \A d \in gone : places[d] \notin Live
    BY <1>1 DEF Evictions, Forgettable, Known
  <1>3. ring' = [d \in Ids |-> IF d = id THEN answer
                             ELSE IF d \in gone THEN "unknown" ELSE answers[d]]
    BY <1>1 DEF Remembered, Forgetting
  <1>. QED  BY <1>1, <1>2, <1>3 DEF Forgetting

(* What could be said of a forgotten id is as if it had never been heard.  *)
LEMMA ForgottenInv ==
    ASSUME IInv, emergency' = {}, NEW id \in Ids,
           ring'[id] = "unknown", place'[id] = "none", runs'[id] = 0,
           id \notin moving', id \notin refused'
    PROVE  IdInv(id)'
  BY DEF IdInv, RingInv, RunInv, MotorInv, RefusedInv

-----------------------------------------------------------------------------
(* Messages and disarms.                                                   *)

LEMMA RejectLatchedInv ==
    ASSUME IInv, LoopRuns, NEW m \in mail, RejectLatched(m) \/ RejectMismatch(m)
    PROVE  IInv'
  <1>1. UNCHANGED <<ram, world, runs, moving, refused>>
    BY DEF RejectLatched, RejectMismatch
  <1>2. TypeInv'
    BY <1>1 DEF IInv, TypeInv, ram, world
  <1>3. ASSUME NEW id \in Ids PROVE IdInv(id)'
    BY <1>1, <1>3 DEF IInv, IdInv, RingInv, RunInv, MotorInv, RefusedInv, Sent, ram, world
  <1>4. UpdateInv'
    BY <1>1 DEF IInv, UpdateInv, Idle, ram
  <1>5. m.request.id \in Ids
    BY MailFacts DEF IInv
  <1>6. CASE RejectLatched(m)
    <2>1. Idle
      BY <1>6 DEF RejectLatched, Latched, LoopRuns, IInv, UpdateInv, TypeInv
    <2>2. said' = {Status("LATCHED", m.request.id)} /\ place'[m.request.id] \notin Live
      BY <1>1, <1>5, <1>6, <2>1 DEF RejectLatched, Idle, ram
    <2>3. SaidInv'
      BY <2>2 DEF SaidInv, Status
    <2>. QED  BY <1>2, <1>3, <1>4, <2>3 DEF IInv
  <1>7. CASE RejectMismatch(m)
    <2>1. SaidInv'
      BY <1>7 DEF SaidInv, RejectMismatch, Status
    <2>. QED  BY <1>2, <1>3, <1>4, <2>1 DEF IInv
  <1>. QED  BY <1>6, <1>7

LEMMA ReplayInv ==
    ASSUME IInv, NEW m \in mail, Replay(m)
    PROVE  IInv'
  <1>. DEFINE id == m.request.id
  <1>1. UNCHANGED <<ram, world, runs, moving, refused>>
    BY DEF Replay
  <1>2. TypeInv'
    BY <1>1 DEF IInv, TypeInv, ram, world
  <1>3. ASSUME NEW d \in Ids PROVE IdInv(d)'
    BY <1>1, <1>3 DEF IInv, IdInv, RingInv, RunInv, MotorInv, RefusedInv, Sent, ram, world
  <1>4. UpdateInv'
    BY <1>1 DEF IInv, UpdateInv, Idle, ram
  <1>5. id \in Ids
    BY MailFacts DEF IInv
  <1>6. place[id] \in Places /\ ring[id] \in Answers
    BY <1>5 DEF IInv, TypeInv
  <1>7. CASE ReplayState(id) = "rejected"
    <2>1. place[id] \notin Live
      BY <1>5, <1>7 DEF ReplayState, Live, Scheduled
    <2>2. said' = {Status("REJECTED", id)}
      BY <1>7 DEF Replay, Replayed
    <2>3. SaidInv'
      BY <1>1, <2>1, <2>2 DEF SaidInv, Status, ram
    <2>. QED  BY <1>2, <1>3, <1>4, <2>3 DEF IInv
  <1>8. CASE ReplayState(id) = "displaced"
    <2>1. place[id] \notin Scheduled /\ ring[id] = "displaced"
      BY <1>5, <1>8 DEF ReplayState, IInv, IdInv, RingInv, Scheduled
    <2>2. said' = {Status("DISPLACED", id), Status("DATED", id)}
      BY <1>8 DEF Replay, Replayed
    <2>3. SaidInv'
      BY <1>1, <2>1, <2>2 DEF SaidInv, Status, ram
    <2>. QED  BY <1>2, <1>3, <1>4, <2>3 DEF IInv
  <1>9. CASE ReplayState(id) = "disarmed"
    <2>1. place[id] \notin Scheduled
      BY <1>5, <1>9 DEF ReplayState, Scheduled
    <2>2. said' = {Status("DISPLACED", id)}
      BY <1>9 DEF Replay, Replayed
    <2>3. SaidInv'
      BY <1>1, <2>1, <2>2 DEF SaidInv, Status, ram
    <2>. QED  BY <1>2, <1>3, <1>4, <2>3 DEF IInv
  <1>10. CASE ReplayState(id) = "admitted"
    <2>1. place[id] \in {"waiting", "discarded"}
      BY <1>5, <1>10 DEF ReplayState, IInv, IdInv, RingInv
    <2>2. said' = {Status("ACCEPTED", id)}
      BY <1>10 DEF Replay, Replayed
    <2>3. SaidInv'
      BY <1>1, <2>1, <2>2 DEF SaidInv, Status, ram
    <2>. QED  BY <1>2, <1>3, <1>4, <2>3 DEF IInv
  <1>11. CASE ReplayState(id) = "started"
    <2>1. place[id] # "none" /\ runs[id] = 1
      BY <1>5, <1>11 DEF ReplayState, IInv, IdInv, RingInv, RunInv
    <2>2. said' = {Status("ACCEPTED", id), Status("STARTED", id)}
      BY <1>11 DEF Replay, Replayed
    <2>3. SaidInv'
      BY <1>1, <2>1, <2>2 DEF SaidInv, Status, ram
    <2>. QED  BY <1>2, <1>3, <1>4, <2>3 DEF IInv
  <1>12. ReplayState(id) \in Answers \ {"unknown"}
    BY <1>6 DEF Replay, ReplayState, Answers
  <1>. QED  BY <1>7, <1>8, <1>9, <1>10, <1>11, <1>12 DEF Answers

LEMMA RejectUnsoundInv ==
    ASSUME IInv, NEW m \in mail, RejectUnsound(m)
    PROVE  IInv'
  <1>. DEFINE id == m.request.id
  <1>1. /\ UNCHANGED <<ram, world, runs, moving>>
        /\ refused' = refused \cup {id}
        /\ said' = {Status("REJECTED", id)}
    BY DEF RejectUnsound
  <1>2. id \in Ids /\ RequestOf(id) = m.request
    BY MailFacts DEF IInv
  <1>3. place[id] = "none" /\ ~ Sound(RequestOf(id)) /\ place'[id] \notin Live
    BY <1>1, <1>2, FreshFacts DEF RejectUnsound, ram, Live, Scheduled
  <1>4. TypeInv'
    BY <1>1, <1>2 DEF IInv, TypeInv, ram, world
  <1>5. ASSUME NEW d \in Ids PROVE IdInv(d)'
    BY <1>1, <1>3 DEF IInv, IdInv, RingInv, RunInv, MotorInv, RefusedInv, Sent, ram, world
  <1>6. UpdateInv'
    BY <1>1 DEF IInv, UpdateInv, Idle, ram
  <1>7. SaidInv'
    BY <1>1, <1>3 DEF SaidInv, Status
  <1>. QED  BY <1>4, <1>5, <1>6, <1>7 DEF IInv

LEMMA RefuseFullInv ==
    ASSUME IInv, NEW m \in mail, RefuseFull(m)
    PROVE  IInv'
  <1>. DEFINE id == m.request.id
  <1>1. /\ UNCHANGED <<boot, update, airBusy, emergency, outage, world, moving>>
        /\ Remember(ring, place, id, "rejected")
        /\ said' = {Status("REJECTED", id)}
    BY DEF RefuseFull
  <1>2. /\ id \in Ids /\ update = "none" /\ emergency = {}
        /\ place[id] = "none" /\ runs[id] = 0 /\ id \notin moving
    BY MailFacts, FreshFacts DEF RefuseFull, IInv
  <1>3. ring \in [Ids -> Answers] /\ place \in [Ids -> Places] /\ "rejected" \in Answers
    BY DEF IInv, TypeInv, Answers
  <1>4. PICK gone \in SUBSET Ids :
           /\ id \notin gone
           /\ \A d \in gone : place[d] \notin Live
           /\ ring' = [d \in Ids |-> IF d = id THEN "rejected"
                                    ELSE IF d \in gone THEN "unknown" ELSE ring[d]]
           /\ place' = [d \in Ids |-> IF d \in gone THEN "none" ELSE place[d]]
           /\ runs' = [d \in Ids |-> IF d \in gone THEN 0 ELSE runs[d]]
           /\ refused' = (refused \ gone) \cup {id}
    BY <1>1, <1>2, <1>3, RememberFacts
  <1>5. TypeInv'
    BY <1>1, <1>2, <1>4 DEF IInv, TypeInv, world, Answers, Places
  <1>6. ASSUME NEW d \in Ids PROVE IdInv(d)'
    <2>1. RingInv(d) /\ RunInv(d) /\ MotorInv(d) /\ RefusedInv(d)
      BY DEF IInv, IdInv
    <2>2. Sent(d)' <=> Sent(d)
      BY <1>1 DEF Sent, world
    <2>3. CASE d = id
      BY <1>1, <1>2, <1>4, <2>1, <2>2, <2>3 DEF IdInv, RingInv, RunInv, MotorInv, RefusedInv
    <2>4. CASE d \in gone
      <3>1. d \notin moving
        BY <1>2, <1>4, <2>1, <2>4 DEF MotorInv, Live, Scheduled
      <3>. QED  BY <1>1, <1>2, <1>4, <2>4, <3>1, ForgottenInv
    <2>5. CASE d # id /\ d \notin gone
      BY <1>1, <1>4, <2>1, <2>2, <2>5 DEF IdInv, RingInv, RunInv, MotorInv, RefusedInv
    <2>. QED  BY <2>3, <2>4, <2>5
  <1>7. UpdateInv'
    BY <1>1, <1>2 DEF UpdateInv
  <1>8. SaidInv'
    BY <1>1, <1>2, <1>4 DEF SaidInv, Status, Live, Scheduled
  <1>. QED  BY <1>5, <1>6, <1>7, <1>8 DEF IInv

LEMMA AdmitInv ==
    ASSUME IInv, NEW m \in mail, Admit(m)
    PROVE  IInv'
  <1>. DEFINE id == m.request.id
              displaced == DisplacedBy(m.request)
              answers == RingDisplaced(displaced)
              places == [PlacesDisplaced(displaced) EXCEPT ![id] = "waiting"]
  <1>1. /\ UNCHANGED <<boot, update, airBusy, emergency, outage, world, moving>>
        /\ Remember(answers, places, id, "admitted")
        /\ said' = {Status("ACCEPTED", id)}
                      \cup {Status(kind, d) : kind \in {"DISPLACED", "DATED"}, d \in displaced}
    BY DEF Admit
  <1>2. /\ id \in Ids /\ RequestOf(id) = m.request /\ Sent(id)
        /\ update = "none" /\ emergency = {}
        /\ ring[id] = "unknown" /\ place[id] = "none" /\ runs[id] = 0
        /\ id \notin moving
    BY MailFacts, FreshFacts DEF Admit, IInv
  <1>3. id \notin refused
    BY <1>2 DEF Admit, IInv, IdInv, RefusedInv
  <1>4. /\ displaced \subseteq Ids /\ id \notin displaced
        /\ \A d \in displaced : place[d] \in Scheduled
    BY <1>2 DEF DisplacedBy, Scheduled
  <1>5. ASSUME NEW d \in Ids
        PROVE  /\ answers[d] = IF d \in displaced THEN "displaced" ELSE ring[d]
               /\ places[d] = IF d = id THEN "waiting"
                              ELSE IF d \notin displaced THEN place[d]
                              ELSE IF OwesStop(d) THEN "flushing" ELSE "left"
    BY <1>2, <1>4 DEF RingDisplaced, PlacesDisplaced
  <1>6. answers \in [Ids -> Answers] /\ places \in [Ids -> Places] /\ "admitted" \in Answers
    <2>1. ring \in [Ids -> Answers] /\ place \in [Ids -> Places]
      BY DEF IInv, TypeInv
    <2>. QED  BY <1>2, <2>1 DEF RingDisplaced, PlacesDisplaced, Answers, Places
  <1>. HIDE DEF answers, places, displaced
  <1>7. PICK gone \in SUBSET Ids :
           /\ id \notin gone
           /\ \A d \in gone : places[d] \notin Live
           /\ ring' = [d \in Ids |-> IF d = id THEN "admitted"
                                    ELSE IF d \in gone THEN "unknown" ELSE answers[d]]
           /\ place' = [d \in Ids |-> IF d \in gone THEN "none" ELSE places[d]]
           /\ runs' = [d \in Ids |-> IF d \in gone THEN 0 ELSE runs[d]]
           /\ refused' = refused \ gone
    BY <1>1, <1>2, <1>6, RememberFacts
  <1>8. TypeInv'
    BY <1>1, <1>2, <1>6, <1>7 DEF IInv, TypeInv, world, Answers, Places
  <1>9. ASSUME NEW d \in Ids PROVE IdInv(d)'
    <2>1. place[d] \in Places /\ ring[d] \in Answers
      BY DEF IInv, TypeInv
    <2>2. RingInv(d) /\ RunInv(d) /\ MotorInv(d) /\ RefusedInv(d)
      BY DEF IInv, IdInv
    <2>3. Sent(d)' <=> Sent(d)
      BY <1>1 DEF Sent, world
    <2>4. CASE d = id
      <3>1. place'[d] = "waiting" /\ ring'[d] = "admitted" /\ runs'[d] = 0
        BY <1>2, <1>5, <1>7, <2>4
      <3>. QED
        BY <1>1, <1>2, <1>3, <1>7, <2>2, <2>3, <2>4, <3>1
        DEF IdInv, RingInv, RunInv, MotorInv, RefusedInv
    <2>5. CASE d \in gone
      <3>1. d \notin moving
        <4>1. place[d] \notin Live \/ d \in displaced
          BY <1>5, <1>7, <2>5
        <4>2. d \in moving => OwesStop(d) \/ place[d] \notin Scheduled
          BY <1>2, <2>2 DEF MotorInv, OwesStop, Scheduled
        <4>. QED  BY <1>2, <1>4, <1>5, <1>7, <2>2, <2>5, <4>1, <4>2 DEF MotorInv, Live, Scheduled
      <3>. QED  BY <1>1, <1>2, <1>7, <2>5, <3>1, ForgottenInv
    <2>6. CASE d # id /\ d \notin gone /\ d \notin displaced
      <3>1. place'[d] = place[d] /\ ring'[d] = ring[d] /\ runs'[d] = runs[d]
        BY <1>5, <1>7, <2>6
      <3>. QED
        BY <1>1, <1>7, <2>2, <2>3, <2>6, <3>1 DEF IdInv, RingInv, RunInv, MotorInv, RefusedInv
    <2>7. CASE d # id /\ d \notin gone /\ d \in displaced
      <3>1. place[d] \in Scheduled
        BY <1>4, <2>7
      <3>2. d \in moving => OwesStop(d)
        BY <1>2, <2>2, <3>1 DEF MotorInv, OwesStop, Scheduled
      <3>3. /\ place'[d] = (IF OwesStop(d) THEN "flushing" ELSE "left")
            /\ ring'[d] = "displaced" /\ runs'[d] = runs[d]
        BY <1>5, <1>7, <2>7
      <3>. QED  BY <1>1, <1>7, <2>2, <2>3, <3>1, <3>2, <3>3
                DEF IdInv, RingInv, RunInv, MotorInv, RefusedInv, Scheduled
    <2>. QED  BY <2>4, <2>5, <2>6, <2>7
  <1>10. UpdateInv'
    BY <1>1, <1>2 DEF UpdateInv
  <1>11. SaidInv'
    <2>1. ASSUME NEW d \in displaced
          PROVE  place'[d] \notin Scheduled /\ ring'[d] \in {"displaced", "unknown"}
      BY <1>4, <1>5, <1>7 DEF Scheduled
    <2>2. place'[id] = "waiting"
      BY <1>2, <1>5, <1>7
    <2>3. \A s \in said' :
             \/ s = Status("ACCEPTED", id)
             \/ \E d \in displaced : s \in {Status("DISPLACED", d), Status("DATED", d)}
      BY <1>1
    <2>. QED  BY <2>1, <2>2, <2>3 DEF SaidInv, Status
  <1>. QED  BY <1>8, <1>9, <1>10, <1>11 DEF IInv

LEMMA ReceiveDisarmInv ==
    ASSUME IInv, ReceiveDisarm
    PROVE  IInv'
  <1>1. PICK id \in Ids :
           /\ Remember(ring, [place EXCEPT ![id] = IF @ \in Live THEN "left" ELSE @],
                       id, "disarmed")
           /\ said' = {Status("DISARMED", id)}
           /\ moving' = moving \ {id}
    BY MailFacts DEF ReceiveDisarm, IInv
  <1>2. /\ UNCHANGED <<boot, update, airBusy, emergency, outage, world>>
        /\ emergency = {}
    BY DEF ReceiveDisarm, LoopRuns, IInv, UpdateInv
  <1>. DEFINE places == [place EXCEPT ![id] = IF @ \in Live THEN "left" ELSE @]
  <1>3. /\ ring \in [Ids -> Answers] /\ places \in [Ids -> Places]
        /\ "disarmed" \in Answers /\ place \in [Ids -> Places]
    BY DEF IInv, TypeInv, Answers, Places
  <1>4. /\ \A d \in Ids : d # id => places[d] = place[d]
        /\ places[id] = (IF place[id] \in Live THEN "left" ELSE place[id])
    BY <1>3
  <1>5. Remember(ring, places, id, "disarmed") /\ "disarmed" # "rejected"
    BY <1>1
  <1>. HIDE DEF places
  <1>6. PICK gone \in SUBSET Ids :
           /\ id \notin gone
           /\ \A d \in gone : places[d] \notin Live
           /\ ring' = [d \in Ids |-> IF d = id THEN "disarmed"
                                    ELSE IF d \in gone THEN "unknown" ELSE ring[d]]
           /\ place' = [d \in Ids |-> IF d \in gone THEN "none" ELSE places[d]]
           /\ runs' = [d \in Ids |-> IF d \in gone THEN 0 ELSE runs[d]]
           /\ refused' = refused \ gone
    BY <1>3, <1>5, RememberFacts
  <1>7. TypeInv'
    BY <1>1, <1>2, <1>3, <1>6 DEF IInv, TypeInv, world, Answers, Places
  <1>8. place'[id] \notin Live /\ id \notin moving'
    BY <1>1, <1>4, <1>6 DEF Live, Scheduled
  <1>9. ASSUME NEW d \in Ids PROVE IdInv(d)'
    <2>1. RingInv(d) /\ RunInv(d) /\ MotorInv(d) /\ RefusedInv(d)
      BY DEF IInv, IdInv
    <2>2. Sent(d)' <=> Sent(d)
      BY <1>2 DEF Sent, world
    <2>3. CASE d = id
      <3>1. /\ place'[d] = (IF place[d] \in Live THEN "left" ELSE place[d])
            /\ ring'[d] = "disarmed" /\ runs'[d] = runs[d]
        BY <1>4, <1>6, <2>3
      <3>. QED
        BY <1>1, <1>2, <1>6, <1>8, <2>1, <2>2, <2>3, <3>1
        DEF IdInv, RingInv, RunInv, MotorInv, RefusedInv, Live, Scheduled
    <2>4. CASE d \in gone
      <3>1. d \notin moving
        BY <1>2, <1>4, <1>6, <2>1, <2>4 DEF MotorInv, Live, Scheduled
      <3>. QED  BY <1>1, <1>2, <1>6, <2>4, <3>1, ForgottenInv
    <2>5. CASE d # id /\ d \notin gone
      <3>1. place'[d] = place[d] /\ ring'[d] = ring[d] /\ runs'[d] = runs[d]
        BY <1>4, <1>6, <2>5
      <3>. QED
        BY <1>1, <1>2, <1>6, <2>1, <2>2, <2>5, <3>1
        DEF IdInv, RingInv, RunInv, MotorInv, RefusedInv
    <2>. QED  BY <2>3, <2>4, <2>5
  <1>10. UpdateInv'
    BY <1>2, <1>4, <1>6 DEF IInv, UpdateInv, Idle, Live, Scheduled
  <1>11. SaidInv'
    BY <1>1, <1>8 DEF SaidInv, Status, Live
  <1>. QED  BY <1>7, <1>9, <1>10, <1>11 DEF IInv

-----------------------------------------------------------------------------
(* Frames.                                                                 *)

LEMMA BeginInv ==
    ASSUME IInv, NEW id \in Ids, Begin(id)
    PROVE  IInv'
  <1>1. /\ update \in {"none", "pumping"} /\ place[id] = "waiting"
        /\ place' = [place EXCEPT ![id] = "acting"]
        /\ ring' = [ring EXCEPT ![id] = "started"]
        /\ runs' = [runs EXCEPT ![id] = @ + 1]
        /\ moving' = IF RequestOf(id).timed THEN moving \cup {id} ELSE moving
        /\ said' \subseteq {Status("STARTED", id)}
        /\ UNCHANGED <<boot, update, emergency, outage, world, refused>>
    BY DEF Begin, Dispatching, Telling
  <1>2. runs'[id] = 1 /\ Sent(id) /\ id \notin refused
    BY <1>1 DEF IInv, TypeInv, IdInv, RunInv, RefusedInv
  <1>3. TypeInv'
    BY <1>1 DEF IInv, TypeInv, world, Answers, Places
  <1>4. ASSUME NEW d \in Ids PROVE IdInv(d)'
    <2>1. RingInv(d) /\ RunInv(d) /\ MotorInv(d) /\ RefusedInv(d)
      BY DEF IInv, IdInv
    <2>2. Sent(d)' <=> Sent(d)
      BY <1>1 DEF Sent, world
    <2>3. CASE d = id
      BY <1>1, <1>2, <2>1, <2>2, <2>3
      DEF IInv, TypeInv, IdInv, RingInv, RunInv, MotorInv, RefusedInv
    <2>4. CASE d # id
      BY <1>1, <2>1, <2>2, <2>4 DEF IInv, TypeInv, IdInv, RingInv, RunInv, MotorInv, RefusedInv
    <2>. QED  BY <2>3, <2>4
  <1>5. UpdateInv'
    BY <1>1 DEF IInv, UpdateInv
  <1>6. SaidInv'
    BY <1>1, <1>2 DEF SaidInv, Status
  <1>. QED  BY <1>3, <1>4, <1>5, <1>6 DEF IInv

LEMMA EndActionsInv ==
    ASSUME IInv, NEW id \in Ids, EndActions(id)
    PROVE  IInv'
  <1>1. /\ update \in {"none", "pumping"} /\ place[id] = "acting"
        /\ place' = [place EXCEPT ![id] = IF RequestOf(id).timed THEN "armed" ELSE "left"]
        /\ said' \subseteq {Status("COMPLETED", id)}
        /\ UNCHANGED <<boot, update, ring, emergency, outage, world, runs, moving, refused>>
    BY DEF EndActions, Dispatching, Telling
  <1>2. runs[id] = 1
    BY <1>1 DEF IInv, IdInv, RunInv
  <1>3. TypeInv'
    BY <1>1 DEF IInv, TypeInv, world, Places
  <1>4. ASSUME NEW d \in Ids PROVE IdInv(d)'
    <2>1. RingInv(d) /\ RunInv(d) /\ MotorInv(d) /\ RefusedInv(d)
      BY DEF IInv, IdInv
    <2>2. Sent(d)' <=> Sent(d)
      BY <1>1 DEF Sent, world
    <2>. QED  BY <1>1, <1>2, <2>1, <2>2
              DEF IInv, TypeInv, IdInv, RingInv, RunInv, MotorInv, RefusedInv
  <1>5. UpdateInv'
    BY <1>1 DEF IInv, UpdateInv
  <1>6. SaidInv'
    BY <1>1, <1>2 DEF SaidInv, Status
  <1>. QED  BY <1>3, <1>4, <1>5, <1>6 DEF IInv

LEMMA FallDueInv ==
    ASSUME IInv, NEW id \in Ids, FallDue(id)
    PROVE  IInv'
  <1>1. /\ update \in {"none", "pumping"} /\ place[id] = "acting"
        /\ place' = [place EXCEPT ![id] = "armed"]
        /\ said' = {}
        /\ UNCHANGED <<boot, update, ring, emergency, outage, world, runs, moving, refused>>
    BY DEF FallDue
  <1>2. TypeInv'
    BY <1>1 DEF IInv, TypeInv, world, Places
  <1>3. ASSUME NEW d \in Ids PROVE IdInv(d)'
    <2>1. RingInv(d) /\ RunInv(d) /\ MotorInv(d) /\ RefusedInv(d)
      BY DEF IInv, IdInv
    <2>2. Sent(d)' <=> Sent(d)
      BY <1>1 DEF Sent, world
    <2>. QED  BY <1>1, <2>1, <2>2
              DEF IInv, TypeInv, IdInv, RingInv, RunInv, MotorInv, RefusedInv
  <1>4. UpdateInv'
    BY <1>1 DEF IInv, UpdateInv
  <1>5. SaidInv'
    BY <1>1 DEF SaidInv
  <1>. QED  BY <1>2, <1>3, <1>4, <1>5 DEF IInv

LEMMA SendStopInv ==
    ASSUME IInv, NEW id \in Ids, SendStop(id)
    PROVE  IInv'
  <1>1. /\ update \in {"none", "pumping"} /\ place[id] \in {"armed", "flushing"}
        /\ place' = [place EXCEPT ![id] = "left"]
        /\ moving' = moving \ {id}
        /\ said' \subseteq {Status("COMPLETED", id)}
        /\ place[id] # "armed" => said' = {}
        /\ UNCHANGED <<boot, update, ring, emergency, outage, world, runs, refused>>
    BY DEF SendStop, Dispatching, Telling
  <1>2. place[id] = "armed" => runs[id] = 1
    BY DEF IInv, IdInv, RunInv
  <1>3. TypeInv'
    BY <1>1 DEF IInv, TypeInv, world, Places
  <1>4. ASSUME NEW d \in Ids PROVE IdInv(d)'
    <2>1. RingInv(d) /\ RunInv(d) /\ MotorInv(d) /\ RefusedInv(d)
      BY DEF IInv, IdInv
    <2>2. Sent(d)' <=> Sent(d)
      BY <1>1 DEF Sent, world
    <2>. QED  BY <1>1, <2>1, <2>2
              DEF IInv, TypeInv, IdInv, RingInv, RunInv, MotorInv, RefusedInv
  <1>5. UpdateInv'
    BY <1>1 DEF IInv, UpdateInv
  <1>6. SaidInv'
    BY <1>1, <1>2 DEF SaidInv, Status
  <1>. QED  BY <1>3, <1>4, <1>5, <1>6 DEF IInv

-----------------------------------------------------------------------------
(* Restarts and updates.                                                   *)

(* A restart is harmless once no motor runs.                               *)
LEMMA RestartInv ==
    ASSUME IInv, Restart, moving' = {}
    PROVE  IInv'
  <1>1. /\ boot' = boot + 1 /\ update' = "none"
        /\ place' = [id \in Ids |-> "none"]
        /\ ring' = [id \in Ids |-> "unknown"]
        /\ runs' = [id \in Ids |-> 0]
        /\ emergency' = {} /\ said' = {} /\ refused' = {}
        /\ UNCHANGED <<info, mail>>
    BY DEF Restart
  <1>2. TypeInv'
    BY <1>1 DEF IInv, TypeInv, Answers, Places
  <1>3. ASSUME NEW id \in Ids PROVE IdInv(id)'
    BY <1>1 DEF IdInv, RingInv, RunInv, MotorInv, RefusedInv
  <1>. QED  BY <1>1, <1>2, <1>3 DEF IInv, UpdateInv, SaidInv

(* An idle scheduler leaves no motor running, but for the drain's STOPs.   *)
LEMMA IdleStandsStill ==
    ASSUME IInv, Idle, update # "draining"
    PROVE  moving = {}
  BY DEF IInv, TypeInv, IdInv, MotorInv, UpdateInv, Idle, Live, Scheduled

LEMMA WatchdogInv ==
    ASSUME IInv, Watchdog
    PROVE  IInv'
  <1>1. CASE UNCHANGED <<boot, update, place, ring, emergency, world, runs, moving, refused>> /\ said' = {}
    <2>1. TypeInv'
      BY <1>1 DEF IInv, TypeInv, world
    <2>2. ASSUME NEW id \in Ids PROVE IdInv(id)'
      BY <1>1 DEF IInv, IdInv, RingInv, RunInv, MotorInv, RefusedInv, Sent, world
    <2>. QED  BY <1>1, <2>1, <2>2 DEF IInv, UpdateInv, Idle, SaidInv
  <1>2. CASE LoopRuns /\ WatchdogFree /\ Restart /\ UNCHANGED moving
    <2>1. Idle /\ update # "draining"
      BY <1>2 DEF WatchdogFree, LoopRuns
    <2>. QED  BY <1>2, <2>1, IdleStandsStill, RestartInv
  <1>. QED  BY <1>1, <1>2 DEF Watchdog

LEMMA DrainArmedStopsInv ==
    ASSUME IInv, DrainArmedStops
    PROVE  IInv'
  <1>1. /\ update' = "draining" /\ update = "pumping"
        /\ emergency' = {id \in Ids : OwesStop(id) \/ place[id] = "flushing"}
        /\ place' = [id \in Ids |->
                        IF place[id] = "waiting" THEN "discarded"
                        ELSE IF place[id] \in {"acting", "armed", "flushing"} THEN "left"
                        ELSE place[id]]
        /\ said' = {}
        /\ UNCHANGED <<boot, ring, airBusy, outage, world, runs, moving, refused>>
    BY DEF DrainArmedStops
  <1>2. TypeInv'
    BY <1>1 DEF IInv, TypeInv, world, Places
  <1>3. ASSUME NEW id \in Ids PROVE IdInv(id)'
    <2>1. RingInv(id) /\ RunInv(id) /\ MotorInv(id) /\ RefusedInv(id)
      BY DEF IInv, IdInv
    <2>2. Sent(id)' <=> Sent(id)
      BY <1>1 DEF Sent, world
    <2>3. emergency = {}
      BY <1>1 DEF IInv, UpdateInv
    <2>4. MotorInv(id)'
      BY <1>1, <2>1, <2>3 DEF MotorInv, OwesStop
    <2>5. RingInv(id)' /\ RunInv(id)' /\ RefusedInv(id)'
      BY <1>1, <2>1, <2>2 DEF RingInv, RunInv, RefusedInv
    <2>. QED  BY <2>4, <2>5 DEF IdInv
  <1>4. Idle'
    BY <1>1 DEF Idle, Live, Scheduled, IInv, TypeInv, Places
  <1>. QED  BY <1>1, <1>2, <1>3, <1>4 DEF IInv, UpdateInv, SaidInv

LEMMA SendEmergencyStopInv ==
    ASSUME IInv, SendEmergencyStop
    PROVE  IInv'
  <1>1. PICK d \in emergency : emergency' = emergency \ {d} /\ moving' = moving \ {d}
    BY DEF SendEmergencyStop
  <1>2. /\ update = "draining" /\ said' = {}
        /\ UNCHANGED <<boot, update, place, ring, outage, world, runs, refused>>
    BY DEF SendEmergencyStop
  <1>3. TypeInv'
    BY <1>1, <1>2 DEF IInv, TypeInv, world
  <1>4. ASSUME NEW id \in Ids PROVE IdInv(id)'
    BY <1>1, <1>2 DEF IInv, IdInv, RingInv, RunInv, MotorInv, RefusedInv, Sent, world
  <1>. QED  BY <1>1, <1>2, <1>3, <1>4 DEF IInv, UpdateInv, Idle, SaidInv

(* Steps that leave the scheduler, the motors and the ring alone.          *)
LEMMA QuietInv ==
    ASSUME IInv, UNCHANGED <<boot, place, ring, emergency, runs, moving, refused>>,
           update' \in {"none", "pumping", "draining", "transfer"},
           update # "draining" \/ emergency = {} \/ update' = "draining",
           update' \in {"draining", "transfer"} => update \in {"draining", "transfer"},
           info' \in Nat, mail \subseteq mail', mail' \subseteq [request : Requests, boot : Nat],
           said' = {}
    PROVE  IInv'
  <1>1. TypeInv'
    BY DEF IInv, TypeInv
  <1>2. ASSUME NEW id \in Ids PROVE IdInv(id)'
    <2>1. Sent(id) => Sent(id)'
      BY DEF Sent
    <2>. QED  BY <2>1 DEF IInv, IdInv, RingInv, RunInv, MotorInv, RefusedInv
  <1>3. UpdateInv'
    BY DEF IInv, UpdateInv, Idle
  <1>. QED  BY <1>1, <1>2, <1>3 DEF IInv, SaidInv

LEMMA UpdateStepInv ==
    ASSUME IInv, BeginUpdate \/ BeginTransfer \/ FailUpdate
    PROVE  IInv'
  BY QuietInv DEF BeginUpdate, BeginTransfer, FailUpdate, IInv, TypeInv, world

LEMMA CompleteUpdateInv ==
    ASSUME IInv, CompleteUpdate
    PROVE  IInv'
  <1>1. Idle /\ update # "draining"
    BY DEF CompleteUpdate, IInv, UpdateInv
  <1>. QED  BY <1>1, IdleStandsStill, RestartInv DEF CompleteUpdate

LEMMA WorldInv ==
    ASSUME IInv, PublishInfo \/ PublishCommand \/ Connect \/ Disconnect \/ AirClears
    PROVE  IInv'
  <1>1. CASE PublishInfo
    BY <1>1, QuietInv DEF PublishInfo, IInv, TypeInv, ram
  <1>2. CASE PublishCommand
    BY <1>2, QuietInv DEF PublishCommand, IInv, TypeInv, ram
  <1>3. CASE Connect \/ Disconnect
    BY <1>3, QuietInv DEF Connect, Disconnect, IInv, TypeInv, ram
  <1>4. CASE AirClears
    BY <1>4, QuietInv DEF AirClears, IInv, TypeInv, world
  <1>. QED  BY <1>1, <1>2, <1>3, <1>4

-----------------------------------------------------------------------------
(* The invariant.                                                          *)

LEMMA InitInv == Init => IInv
  <1>. SUFFICES ASSUME Init PROVE IInv
    OBVIOUS
  <1>1. TypeInv
    BY DEF Init, TypeInv, NoBoot, Places, Answers
  <1>2. ASSUME NEW id \in Ids PROVE IdInv(id)
    BY DEF Init, IdInv, RingInv, RunInv, MotorInv, RefusedInv
  <1>. QED  BY <1>1, <1>2 DEF IInv, Init, UpdateInv, SaidInv

LEMMA NextInv == IInv /\ [Next]_vars => IInv'
  <1>. SUFFICES ASSUME IInv, [Next]_vars PROVE IInv'
    OBVIOUS
  <1>1. CASE ReceiveCommand
    BY <1>1, RejectLatchedInv, ReplayInv, RejectUnsoundInv, RefuseFullInv, AdmitInv
    DEF ReceiveCommand
  <1>2. CASE ReceiveDisarm
    BY <1>2, ReceiveDisarmInv
  <1>3. CASE Dispatch
    BY <1>3, BeginInv, EndActionsInv, FallDueInv, SendStopInv DEF Dispatch
  <1>4. CASE PowerLoss
    BY <1>4, RestartInv DEF PowerLoss
  <1>5. CASE Watchdog
    BY <1>5, WatchdogInv
  <1>6. CASE BeginUpdate \/ Update
    BY <1>6, DrainArmedStopsInv, SendEmergencyStopInv, UpdateStepInv, CompleteUpdateInv DEF Update
  <1>7. CASE PublishInfo \/ PublishCommand \/ Connect \/ Disconnect \/ AirClears
    BY <1>7, WorldInv
  <1>8. CASE UNCHANGED vars
    <2>1. TypeInv'
      BY <1>8 DEF IInv, TypeInv, vars
    <2>2. ASSUME NEW id \in Ids PROVE IdInv(id)'
      BY <1>8 DEF IInv, IdInv, RingInv, RunInv, MotorInv, RefusedInv, Sent, vars
    <2>3. UpdateInv' /\ SaidInv'
      BY <1>8 DEF IInv, UpdateInv, Idle, SaidInv, vars
    <2>. QED  BY <2>1, <2>2, <2>3 DEF IInv
  <1>. QED  BY <1>1, <1>2, <1>3, <1>4, <1>5, <1>6, <1>7, <1>8 DEF Next

LEMMA AlwaysIInv == Spec => []IInv
  BY InitInv, NextInv, PTL DEF Spec

(* However often a command is delivered, and over updates, disarms and     *)
(* restarts, it begins at most once in a boot as long as the ring          *)
(* remembers it, and only if it was published for that boot (/tx: boot     *)
(* check, then the replayed answer; remember_).                            *)
THEOREM CommandsRunOnce == Spec => []RunsOnce
  <1>1. IInv => RunsOnce
    BY DEF IInv, IdInv, RunInv, RunsOnce, Sent
  <1>. QED  BY <1>1, AlwaysIInv, PTL

(* The STOP of a running motor is in the scheduler or in the hands of the  *)
(* update until it is sent (on_begin's drain, the watchdog's test of idle, *)
(* schedule()'s flush queue), or waived by a disarm or a power loss.       *)
THEOREM NoStopIsLost == Spec => []NoStopLost
  <1>1. IInv => NoStopLost
    BY DEF IInv, TypeInv, IdInv, MotorInv, NoStopLost
  <1>. QED  BY <1>1, AlwaysIInv, PTL

(* Every status agrees with the scheduler and the ring when it is          *)
(* composed, replayed answers and the update's latch included, and what a  *)
(* check rejected does not run later unless the ring forgot it (/tx, the   *)
(* tick).                                                                  *)
THEOREM StatusesAlwaysAgree == Spec => []StatusesAgree
  <1>1. IInv => StatusesAgree
    BY DEF IInv, TypeInv, IdInv, RunInv, RefusedInv, SaidInv, StatusesAgree
  <1>. QED  BY <1>1, AlwaysIInv, PTL
=============================================================================
