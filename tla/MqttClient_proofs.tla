-------------------------- MODULE MqttClient_proofs --------------------------
(***************************************************************************)
(* Proofs about MqttClient, for every set of topics, messages and          *)
(* components, every limit and every time-out: a handler sees whole        *)
(* messages only, a subscription that is marked is held by the broker, and *)
(* the retained availability is true.                                      *)
(***************************************************************************)
EXTENDS MqttClient, SequenceTheorems, TLAPS

-----------------------------------------------------------------------------
(* Topics.                                                                 *)

LEMMA Positions ==
    ASSUME NEW S, NEW s \in Seq(S), s # << >>
    PROVE  /\ DOMAIN s = 1 .. Len(s)
           /\ Len(s) \in DOMAIN s
           /\ \A i \in DOMAIN s : (i = 1 \/ i > 1) /\ (i = Len(s) \/ i < Len(s))
  <1>1. DOMAIN s = 1 .. Len(s) /\ Len(s) \in Nat \ {0}
    BY LenProperties, EmptySeq
  <1>. QED  BY <1>1

(* Where no filter has a # and no topic ends in an empty level, the client *)
(* finds every subscription that the broker delivers for (topic_match).    *)
LEMMA CoveredIsMatched ==
    ASSUME NEW S, NEW t \in Seq(S), NEW f \in Seq(S),
           t # << >>, t[Len(t)] # "", f # << >>, "#" \notin ToSet(f),
           Covers(f, t)
    PROVE  TopicMatch(t, f)
  <1>1. /\ DOMAIN t = 1 .. Len(t) /\ DOMAIN f = 1 .. Len(f)
        /\ Len(f) \in DOMAIN f
        /\ \A i \in DOMAIN t : (i = 1 \/ i > 1) /\ (i = Len(t) \/ i < Len(t))
    BY Positions
  <1>2. f[Len(f)] # "#"
    BY <1>1, Zenon DEF ToSet
  <1>3. /\ t[1] = "$" => f[1] = "$"
        /\ Len(t) = Len(f)
        /\ \A i \in 1 .. Len(f) : f[i] \in {"+", t[i]}
    BY <1>2 DEF Covers
  <1>4. ASSUME NEW i \in DOMAIN t PROVE Fits(t, f, i)
    <2>1. f[i] \in {"+", t[i]}
      BY <1>1, <1>3, Zenon
    <2>2. CASE f[i] = t[i]
      BY <2>2, Zenon DEF Fits
    <2>3. CASE f[i] = "+"
      <3>1. CASE i = 1 /\ t[1] = "$"
        BY <1>3, <2>3, <3>1, Zenon
      <3>2. i > 1 \/ t[1] # "$" \/ (i = 1 /\ t[1] = "$")
        BY <1>1, Zenon
      <3>3. i < Len(t) \/ t[i] # ""
        BY <1>1, Zenon
      <3>. QED  BY <2>3, <3>1, <3>2, <3>3, Zenon DEF Fits, Wild
    <2>. QED  BY <2>1, <2>2, <2>3, Zenon
  <1>. QED  BY <1>1, <1>3, <1>4, Zenon DEF TopicMatch

LEMMA DeliveredIsHandled ==
    \A m \in Messages : \A f \in Topics : Covers(f, m.topic) => TopicMatch(m.topic, f)
  <1>. SUFFICES ASSUME NEW m \in Messages, NEW f \in Topics, Covers(f, m.topic)
                PROVE  TopicMatch(m.topic, f)
    OBVIOUS
  <1>1. /\ m.topic \in Seq(STRING) /\ m.topic # << >> /\ m.topic[Len(m.topic)] # ""
        /\ f \in Seq(STRING) /\ f # << >> /\ "#" \notin ToSet(f)
    BY TopicAssumption
  <1>. QED  BY <1>1, CoveredIsMatched

-----------------------------------------------------------------------------
(* The inbound path.                                                       *)

Prefix(m, n) == [k \in 1 .. n |-> [msg |-> m, part |-> k]]

Deliveries == {[topic |-> m.topic, payload |-> WholeOf(m)] : m \in {m \in Messages : Accept(m)}}

(* What has been assembled of a publish under way is its beginning, unless *)
(* the guard turns it away.  Between two publishes the buffer may hold     *)
(* what a lost connection left.                                            *)
InboundInv ==
    /\ buffer \in Seq([msg : Messages, part : Nat \ {0}])
    /\ deferred \in Seq(Deliveries)
    /\ Len(deferred) <= MaxDeferred
    /\ \/ inflight = Nothing
       \/ /\ inflight \in [msg : Messages, next : Nat \ {0}]
          /\ inflight.next \in 2 .. inflight.msg.parts
          /\ Accept(inflight.msg) => buffer = Prefix(inflight.msg, inflight.next - 1)

LEMMA PrefixType ==
    ASSUME NEW m \in Messages, NEW n \in Nat
    PROVE  /\ Prefix(m, n) \in Seq([msg : Messages, part : Nat \ {0}])
           /\ Len(Prefix(m, n)) = n
  BY DEF Prefix

LEMMA AssembledIsPrefix ==
    ASSUME NEW m \in Messages, NEW k \in 1 .. m.parts, m.parts \in Nat,
           k # 1 => buffer = Prefix(m, k - 1)
    PROVE  Assembled(m, k) = Prefix(m, k)
  <1>1. CASE k = 1
    BY <1>1 DEF Assembled, Prefix
  <1>2. CASE k # 1
    <2>1. /\ Prefix(m, k - 1) \in Seq([msg : Messages, part : Nat \ {0}])
          /\ Len(Prefix(m, k - 1)) = k - 1
      <3>1. k - 1 \in Nat
        OBVIOUS
      <3>. QED  BY <3>1, PrefixType
    <2>2. Assembled(m, k) = Append(Prefix(m, k - 1), [msg |-> m, part |-> k])
      BY <1>2 DEF Assembled
    <2>. QED  BY <2>1, <2>2 DEF Prefix
  <1>. QED  BY <1>1, <1>2

LEMMA OnPartInv ==
    ASSUME InboundInv, NEW m \in Messages, NEW k \in 1 .. m.parts, OnPart(m, k),
           k # 1 /\ Accept(m) => buffer = Prefix(m, k - 1),
           inflight' = IF k = m.parts THEN Nothing ELSE [msg |-> m, next |-> k + 1]
    PROVE  InboundInv'
  <1>1. m.parts \in Nat \ {0} /\ k \in Nat \ {0}
    BY InboundAssumption
  <1>2. CASE ~ Accept(m)
    <2>1. buffer' = << >> /\ deferred' = deferred
      BY <1>2 DEF OnPart
    <2>. QED  BY <1>1, <1>2, <2>1 DEF InboundInv, Accept
  <1>3. CASE Accept(m) /\ k < m.parts
    <2>1. buffer' = Prefix(m, k) /\ deferred' = deferred
      BY <1>1, <1>3, AssembledIsPrefix DEF OnPart
    <2>2. inflight' = [msg |-> m, next |-> k + 1]
      BY <1>1, <1>3
    <2>3. buffer' \in Seq([msg : Messages, part : Nat \ {0}])
      BY <1>1, <2>1, PrefixType
    <2>. QED  BY <1>1, <1>3, <2>1, <2>2, <2>3 DEF InboundInv
  <1>4. CASE Accept(m) /\ k = m.parts
    <2>1. /\ deferred' = Append(deferred, [topic |-> m.topic, payload |-> Prefix(m, k)])
          /\ buffer' = << >> /\ Len(deferred) < MaxDeferred
      BY <1>1, <1>4, AssembledIsPrefix DEF OnPart
    <2>2. [topic |-> m.topic, payload |-> Prefix(m, k)] \in Deliveries
      BY <1>4 DEF Deliveries, WholeOf, Prefix
    <2>3. inflight' = Nothing
      BY <1>4
    <2>. QED  BY <2>1, <2>2, <2>3, InboundAssumption DEF InboundInv
  <1>. QED  BY <1>1, <1>2, <1>3, <1>4

LEMMA PartArrivesInv ==
    ASSUME InboundInv, NEW topics, PartArrives(topics)
    PROVE  InboundInv'
  <1>. DEFINE k == IF inflight = Nothing THEN 1 ELSE inflight.next
  <1>1. PICK m \in Messages :
           /\ inflight = Nothing \/ m = inflight.msg
           /\ OnPart(m, k)
           /\ inflight' = IF k = m.parts THEN Nothing ELSE [msg |-> m, next |-> k + 1]
    BY DEF PartArrives
  <1>2. m.parts \in Nat \ {0}
    BY InboundAssumption
  <1>3. k \in 1 .. m.parts /\ (k # 1 /\ Accept(m) => buffer = Prefix(m, k - 1))
    BY <1>1, <1>2 DEF InboundInv
  <1>. QED  BY <1>1, <1>3, OnPartInv

LEMMA DispatchInv ==
    ASSUME InboundInv, Dispatch
    PROVE  InboundInv'
  <1>1. PICK i \in DOMAIN deferred : deferred' = RemoveAt(deferred, i)
    BY DEF Dispatch
  <1>2. deferred \in Seq(Deliveries) /\ i \in 1 .. Len(deferred)
    BY <1>1 DEF InboundInv
  <1>3. /\ SubSeq(deferred, 1, i - 1) \in Seq(Deliveries)
        /\ SubSeq(deferred, i + 1, Len(deferred)) \in Seq(Deliveries)
        /\ Len(SubSeq(deferred, 1, i - 1)) + Len(SubSeq(deferred, i + 1, Len(deferred)))
              = Len(deferred) - 1
    <2>1. \A j \in 1 .. Len(deferred) : deferred[j] \in Deliveries
      BY <1>2
    <2>2. i \in Int /\ Len(deferred) \in Int
      BY <1>2
    <2>. QED  BY <1>2, <2>1, <2>2, SubSeqProperties
  <1>4. deferred' \in Seq(Deliveries) /\ Len(deferred') = Len(deferred) - 1
    BY <1>1, <1>3 DEF RemoveAt
  <1>. QED  BY <1>2, <1>4, InboundAssumption DEF InboundInv, Dispatch

-----------------------------------------------------------------------------
(* The connection.                                                         *)

(* Marks and births belong to the connection under way: none is left from  *)
(* before when the client waits for one, and a connected client is not     *)
(* connecting anew behind its own back.                                    *)
LinkInv ==
    /\ state \in {"RESOLVING_ADDRESS", "CONNECTING"} => subscribed = {}
    /\ state = "CONNECTED" => backend # "opening"
    /\ SubscribedIsHeld
    /\ AvailabilityTruthful

IInv == InboundInv /\ LinkInv

LEMMA AcceptedOnline ==
    ASSUME NEW sends, NEW taken \in Accepted(sends)
    PROVE  taken \subseteq sends /\ (~ IsConnected => taken = {})
  BY DEF Accepted, Taken

LEMMA ClosesInv ==
    ASSUME InboundInv, NEW next, ClosesBackend(next)
    PROVE  InboundInv'
  BY DEF InboundInv, ClosesBackend, Accept

(* A lookup starts: nothing of the last connection counts any more.        *)
LEMMA StartLookupInv ==
    ASSUME IInv, StartLookup
    PROVE  IInv'
  <1>1. subscribed' = {}
    BY DEF StartLookup, ForgetSubscriptions
  <1>2. state' \in {"DISCONNECTED", "RESOLVING_ADDRESS", "CONNECTING"}
    BY DEF StartLookup, StartConnect
  <1>3. InboundInv'
    <2>1. CASE UNCHANGED <<inflight, buffer, deferred>>
      BY <2>1 DEF IInv, InboundInv, Accept
    <2>2. CASE ClosesBackend("opening")
      BY <2>2, ClosesInv DEF IInv
    <2>. QED  BY <2>1, <2>2 DEF StartLookup, StartConnect
  <1>. QED  BY <1>1, <1>2, <1>3 DEF IInv, LinkInv, SubscribedIsHeld, AvailabilityTruthful, IsConnected

LEMMA CheckLookupInv ==
    ASSUME IInv, state = "RESOLVING_ADDRESS", CheckLookup, UNCHANGED subscribed
    PROVE  IInv'
  <1>1. state' \in {"DISCONNECTED", "RESOLVING_ADDRESS", "CONNECTING"}
    BY DEF CheckLookup, StartConnect
  <1>2. InboundInv'
    <2>1. CASE UNCHANGED <<inflight, buffer, deferred>>
      BY <2>1 DEF IInv, InboundInv, Accept
    <2>2. CASE ClosesBackend("opening")
      BY <2>2, ClosesInv DEF IInv
    <2>. QED  BY <2>1, <2>2 DEF CheckLookup, StartConnect, inboundVars
  <1>. QED  BY <1>1, <1>2 DEF IInv, LinkInv, SubscribedIsHeld, AvailabilityTruthful, IsConnected

LEMMA CheckConnectedInv ==
    ASSUME IInv, state = "CONNECTING", CheckConnected
    PROVE  IInv'
  <1>1. CASE StartLookup
    BY <1>1, StartLookupInv
  <1>2. CASE /\ backend = "open" /\ state' = "CONNECTED" /\ sentBirth' = FALSE
             /\ UNCHANGED <<subscribed, worldVars, inboundVars>>
    <2>1. InboundInv'
      BY <1>2 DEF IInv, InboundInv, Accept, inboundVars
    <2>. QED  BY <1>2, <2>1 DEF IInv, LinkInv, SubscribedIsHeld, AvailabilityTruthful, IsConnected, worldVars
  <1>. QED  BY <1>1, <1>2 DEF CheckConnected, BirthPending

(* The connected passes.                                                   *)
LEMMA LoopConnectedInv ==
    ASSUME IInv, LoopConnected
    PROVE  IInv'
  <1>1. /\ state = "CONNECTED" /\ backend = "open"
        /\ Birth /\ Resubscribe
        /\ UNCHANGED <<state, backend, session, inboundVars>>
    BY DEF LoopConnected
  <1>2. InboundInv'
    BY <1>1 DEF IInv, InboundInv, Accept, inboundVars
  <1>3. SubscribedIsHeld'
    BY <1>1 DEF IInv, LinkInv, SubscribedIsHeld, IsConnected, Resubscribe, Reaches
  <1>4. AvailabilityTruthful'
    BY <1>1 DEF IInv, LinkInv, AvailabilityTruthful, IsConnected, Birth, Reaches
  <1>. QED  BY <1>1, <1>2, <1>3, <1>4 DEF IInv, LinkInv

LEMMA LoopInv ==
    ASSUME IInv, Loop
    PROVE  IInv'
  <1>1. CASE LoopDisconnected \/ LoopLost
    BY <1>1, StartLookupInv DEF LoopDisconnected, LoopLost
  <1>2. CASE LoopResolving
    BY <1>2, CheckLookupInv DEF LoopResolving
  <1>3. CASE LoopConnecting
    BY <1>3, CheckConnectedInv DEF LoopConnecting
  <1>4. CASE LoopConnected
    BY <1>4, LoopConnectedInv
  <1>. QED  BY <1>1, <1>2, <1>3, <1>4 DEF Loop

(* Subscribing: what is marked was taken, and what was taken on a          *)
(* connection that lasts at both ends is held.                             *)
LEMMA SubscribingInv ==
    ASSUME IInv, Settle \/ Subscribe \/ Unsubscribe
    PROVE  IInv'
  <1>1. UNCHANGED <<state, backend, session, available, sentBirth, inboundVars>>
    BY DEF Settle, Subscribe, Unsubscribe
  <1>2. InboundInv'
    BY <1>1 DEF IInv, InboundInv, Accept, inboundVars
  <1>3. /\ SubscribedIsHeld'
        /\ state \in {"RESOLVING_ADDRESS", "CONNECTING"} => subscribed' = {}
    <2>1. CASE Settle
      <3>1. PICK taken \in Accepted(ResubscribeDue) :
               subscribed' = subscribed \cup taken /\ held' = held \cup Reaches(taken)
        BY <2>1 DEF Settle, Resubscribe
      <3>. QED  BY <1>1, <3>1, AcceptedOnline DEF IInv, LinkInv, SubscribedIsHeld, IsConnected, Reaches
    <2>2. CASE Subscribe
      <3>1. PICK t \in Topics : \E taken \in Accepted({t}) :
               subscribed' = subscribed \cup taken /\ held' = held \cup Reaches(taken)
        BY <2>2 DEF Subscribe
      <3>2. PICK taken \in Accepted({t}) :
               subscribed' = subscribed \cup taken /\ held' = held \cup Reaches(taken)
        BY <3>1
      <3>. QED  BY <1>1, <3>2, AcceptedOnline DEF IInv, LinkInv, SubscribedIsHeld, IsConnected, Reaches
    <2>3. CASE Unsubscribe
      <3>1. PICK t \in subscriptions : \E taken \in Taken({t}) :
               subscribed' = subscribed \ {t} /\ held' = held \ Reaches(taken)
        BY <2>3 DEF Unsubscribe
      <3>2. PICK taken \in Taken({t}) :
               subscribed' = subscribed \ {t} /\ held' = held \ Reaches(taken)
        BY <3>1
      <3>3. taken \subseteq {t}
        BY <3>2 DEF Taken
      <3>. QED  BY <1>1, <3>2, <3>3 DEF IInv, LinkInv, SubscribedIsHeld, IsConnected, Reaches
    <2>. QED  BY <2>1, <2>2, <2>3
  <1>. QED  BY <1>1, <1>2, <1>3 DEF IInv, LinkInv, AvailabilityTruthful, IsConnected

(* Steps of the library, the network and the broker, and messages.         *)
LEMMA WorldInv ==
    ASSUME IInv, Opens \/ Lost \/ Reported \/ BrokerDrops \/ BrokerRestarts
    PROVE  IInv'
  <1>1. InboundInv'
    BY DEF IInv, InboundInv, Accept, inboundVars,
           Opens, Lost, Reported, BrokerDrops, BrokerRestarts
  <1>2. LinkInv'
    <2>1. CASE Opens
      BY <2>1 DEF Opens, IInv, LinkInv, SubscribedIsHeld, AvailabilityTruthful, IsConnected, clientVars
    <2>2. CASE Lost
      BY <2>2 DEF Lost, IInv, LinkInv, SubscribedIsHeld, AvailabilityTruthful, IsConnected, clientVars
    <2>3. CASE Reported
      BY <2>3 DEF Reported, IInv, LinkInv, SubscribedIsHeld, AvailabilityTruthful, IsConnected
    <2>4. CASE BrokerDrops \/ BrokerRestarts
      BY <2>4 DEF BrokerDrops, BrokerRestarts, IInv, LinkInv, SubscribedIsHeld,
                  AvailabilityTruthful, IsConnected, clientVars
    <2>. QED  BY <2>1, <2>2, <2>3, <2>4
  <1>. QED  BY <1>1, <1>2 DEF IInv

LEMMA MessageInv ==
    ASSUME IInv, Receives \/ Handles
    PROVE  IInv'
  <1>1. InboundInv'
    BY PartArrivesInv, DispatchInv DEF IInv, Receives, Handles
  <1>2. UNCHANGED <<state, subscribed, backend, session, held, available, sentBirth>>
    BY DEF Receives, Handles, clientVars, worldVars
  <1>. QED  BY <1>1, <1>2 DEF IInv, LinkInv, SubscribedIsHeld, AvailabilityTruthful, IsConnected

(* Steps that leave the connection and the messages alone.                 *)
LEMMA QuietInv ==
    ASSUME IInv,
           UNCHANGED <<state, subscribed, sentBirth, backend, session, held, available, inboundVars>>
    PROVE  IInv'
  <1>1. InboundInv'
    BY DEF IInv, InboundInv, Accept, inboundVars
  <1>. QED  BY <1>1 DEF IInv, LinkInv, SubscribedIsHeld, AvailabilityTruthful, IsConnected

LEMMA DisableInv ==
    ASSUME IInv, Disable
    PROVE  IInv'
  <1>1. InboundInv'
    BY ClosesInv DEF IInv, Disable
  <1>. QED  BY <1>1 DEF Disable, IInv, LinkInv, SubscribedIsHeld, AvailabilityTruthful, IsConnected

LEMMA RebootInv ==
    ASSUME Reboot
    PROVE  IInv'
  <1>1. InboundInv'
    BY InboundAssumption DEF Reboot, InboundInv, Nothing
  <1>. QED  BY <1>1 DEF Reboot, IInv, LinkInv, SubscribedIsHeld, AvailabilityTruthful, IsConnected

-----------------------------------------------------------------------------
(* The invariant.                                                          *)

LEMMA InitInv == Init => IInv
  BY InboundAssumption
  DEF Init, InitInbound, IInv, InboundInv, Nothing, LinkInv, SubscribedIsHeld,
      AvailabilityTruthful, IsConnected

LEMMA NextInv == IInv /\ [Next]_vars => IInv'
  <1>. SUFFICES ASSUME IInv, [Next]_vars PROVE IInv'
    OBVIOUS
  <1>1. CASE Enable \/ (SetupClient /\ EnableOnBoot)
    BY <1>1, StartLookupInv DEF Enable, SetupClient, Enabled
  <1>2. CASE Disable \/ Reboot
    BY <1>2, DisableInv, RebootInv
  <1>3. CASE Loop
    BY <1>3, LoopInv
  <1>4. CASE Settle \/ Subscribe \/ Unsubscribe
    BY <1>4, SubscribingInv
  <1>5. CASE Opens \/ Lost \/ Reported \/ BrokerDrops \/ BrokerRestarts
    BY <1>5, WorldInv
  <1>6. CASE Receives \/ Handles
    BY <1>6, MessageInv
  <1>7. CASE \/ SetupComponent \/ LookupAnswered \/ NetworkChanges \/ Calms \/ Elapse \/ UNCHANGED vars
             \/ SetupClient /\ ~ EnableOnBoot
    <2>1. UNCHANGED <<state, subscribed, sentBirth, backend, session, held, available, inboundVars>>
      BY <1>7 DEF SetupClient, SetupComponent, LookupAnswered, NetworkChanges, Calms, Elapse, vars,
                  clientVars, worldVars, inboundVars
    <2>. QED  BY <2>1, QuietInv
  <1>. QED  BY <1>1, <1>2, <1>3, <1>4, <1>5, <1>6, <1>7 DEF Next

LEMMA AlwaysIInv == Spec => []IInv
  BY InitInv, NextInv, PTL DEF Spec

(* A handler sees the payload of one publish, whole, under its own topic   *)
(* and within the guard, wherever a connection ends (setup, on_message).   *)
THEOREM MessagesAreWhole == Spec => []WholeMessagesOnly
  <1>1. IInv => WholeMessagesOnly
    <2>. SUFFICES ASSUME IInv, NEW i \in DOMAIN deferred
                  PROVE  \E m \in Messages :
                            /\ deferred[i] = [topic |-> m.topic, payload |-> WholeOf(m)]
                            /\ m.size <= MaxInbound
                            /\ \A f \in Topics : Covers(f, m.topic) => f \in Handlers(Topics, m.topic)
      BY DEF WholeMessagesOnly
    <2>1. deferred[i] \in Deliveries
      BY DEF IInv, InboundInv
    <2>2. PICK m \in Messages :
             Accept(m) /\ deferred[i] = [topic |-> m.topic, payload |-> WholeOf(m)]
      BY <2>1 DEF Deliveries
    <2>. QED  BY <2>2, DeliveredIsHandled DEF Accept, Handlers
  <1>. QED  BY <1>1, AlwaysIInv, PTL

(* No mark of an earlier connection survives into one whose broker may     *)
(* have forgotten it (start_dnslookup_, resubscribe_subscription_).        *)
THEOREM MarkedIsHeld == Spec => []SubscribedIsHeld
  <1>1. IInv => SubscribedIsHeld
    BY DEF IInv, LinkInv
  <1>. QED  BY <1>1, AlwaysIInv, PTL

(* While a connection lasts at both ends, a birth message that was sent is *)
(* the last word on it (check_connected, loop).                            *)
THEOREM AvailabilityIsTrue == Spec => []AvailabilityTruthful
  <1>1. IInv => AvailabilityTruthful
    BY DEF IInv, LinkInv
  <1>. QED  BY <1>1, AlwaysIInv, PTL
-----------------------------------------------------------------------------
(* Types.                                                                  *)

LEMMA Ages ==
    /\ MaxAge \in Nat \ {0}
    /\ \A d \in {RetryDelay, DnsTimeout, ConnectTimeout} : d < MaxAge
  <1>. DEFINE Limits == {RetryDelay, DnsTimeout, ConnectTimeout}
  <1>1. Limits \subseteq Nat
    BY ClientAssumption
  <1>2. \E d \in Limits : \A e \in Limits : e <= d
    <2>1. CASE DnsTimeout <= RetryDelay /\ ConnectTimeout <= RetryDelay
      BY <1>1, <2>1
    <2>2. CASE RetryDelay <= DnsTimeout /\ ConnectTimeout <= DnsTimeout
      BY <1>1, <2>2
    <2>3. CASE RetryDelay <= ConnectTimeout /\ DnsTimeout <= ConnectTimeout
      BY <1>1, <2>3
    <2>. QED  BY <1>1, <2>1, <2>2, <2>3
  <1>3. PICK m : m = CHOOSE d \in Limits : \A e \in Limits : e <= d
    OBVIOUS
  <1>4. m \in Limits /\ \A e \in Limits : e <= m
    <2>. HIDE DEF Limits
    <2>. QED  BY <1>2, <1>3
  <1>5. MaxAge = 1 + m
    BY <1>3 DEF MaxAge
  <1>6. m \in Nat
    BY <1>1, <1>4
  <1>7. \A d \in Limits : d < 1 + m
    BY <1>1, <1>4, <1>6
  <1>. QED  BY <1>5, <1>6, <1>7

PhaseType ==
    /\ state \in States
    /\ {dnsResolved, dnsError, sentBirth, booted, settling} \subseteq BOOLEAN
    /\ connectAge \in 0 .. MaxAge

TopicType ==
    /\ subscriptions \subseteq Topics
    /\ subscribed \subseteq subscriptions
    /\ tried \in [Topics -> {NeverTried} \cup 0 .. ResubscribeDelay + 1]
    /\ held \subseteq Topics

ChildType ==
    /\ children \in Seq(Components)
    /\ resend \subseteq ToSet(children)
    /\ announced \subseteq UNION {SendsOf(c) : c \in ToSet(children)}

WorldType ==
    /\ backend \in {"closed", "opening", "open"}
    /\ {report, netUp, calm} \subseteq BOOLEAN
    /\ lookups \in 0 .. MaxLookups
    /\ session \in {"none", "stale", "current"}
    /\ available \in {"online", "offline"}

LocalType == PhaseType /\ TopicType /\ ChildType /\ WorldType

LEMMA StartLookupType ==
    ASSUME LocalType, StartLookup
    PROVE  /\ state' \in States /\ connectAge' \in 0 .. MaxAge
           /\ dnsResolved' \in BOOLEAN /\ dnsError' = FALSE
           /\ subscribed' = {} /\ tried' = [t \in Topics |-> NeverTried]
           /\ UNCHANGED <<held, report, netUp, calm, available>>
           /\ announced' \in {announced, {}}
           /\ backend' \in {"opening", backend}
           /\ session' \in {session, "stale"}
           /\ lookups' \in 0 .. MaxLookups
  <1>1. connectAge' \in {0, connectAge} /\ 0 \in 0 .. MaxAge
    BY Ages DEF StartLookup, StartConnect
  <1>2. lookups' \in 0 .. MaxLookups
    BY ClientAssumption DEF StartLookup, StartConnect, LocalType, WorldType
  <1>3. state' \in {"DISCONNECTED", "CONNECTING", "RESOLVING_ADDRESS"}
    BY DEF StartLookup, StartConnect
  <1>4. /\ announced' \in {announced, {}}
        /\ backend' \in {"opening", backend}
        /\ session' \in {session, "stale"}
        /\ UNCHANGED <<held, report, netUp, calm, available>>
    BY DEF StartLookup, StartConnect, ClosesBackend, Abandoned
  <1>. QED
    BY <1>1, <1>2, <1>3, <1>4
    DEF StartLookup, ForgetSubscriptions, LocalType, PhaseType, States

(* What a lookup or a lost connection leaves is typed.                     *)
LEMMA LookupType ==
    ASSUME LocalType, StartLookup, UNCHANGED <<subscriptions, children, resend>>,
           sentBirth' \in BOOLEAN, booted' \in BOOLEAN, settling' \in BOOLEAN
    PROVE  LocalType'
  <1>1. PhaseType'
    BY StartLookupType DEF PhaseType
  <1>2. TopicType'
    BY StartLookupType, ClientAssumption DEF LocalType, TopicType
  <1>3. ChildType'
    BY StartLookupType DEF LocalType, ChildType
  <1>4. WorldType'
    BY StartLookupType DEF LocalType, WorldType
  <1>. QED  BY <1>1, <1>2, <1>3, <1>4 DEF LocalType

LEMMA ResubscribeType ==
    ASSUME TopicType, Resubscribe, UNCHANGED subscriptions
    PROVE  TopicType'
  <1>1. PICK taken \in Accepted(ResubscribeDue) :
           /\ subscribed' = subscribed \cup taken
           /\ tried' = [t \in Topics |-> IF t \in ResubscribeDue THEN 0 ELSE tried[t]]
           /\ held' = held \cup Reaches(taken)
    BY DEF Resubscribe
  <1>2. taken \subseteq subscriptions /\ Reaches(taken) \subseteq taken
    BY <1>1, AcceptedOnline DEF ResubscribeDue, Reaches
  <1>3. 0 \in 0 .. ResubscribeDelay + 1
    BY ClientAssumption
  <1>. QED  BY <1>1, <1>2, <1>3 DEF TopicType

LEMMA LoopType ==
    ASSUME LocalType, Loop
    PROVE  LocalType'
  <1>1. CASE LoopDisconnected \/ LoopLost
    <2>1. /\ StartLookup
          /\ UNCHANGED <<subscriptions, sentBirth, children, resend, booted, settling>>
      BY <1>1 DEF LoopDisconnected, LoopLost
    <2>. QED  BY <2>1, LookupType DEF LocalType, PhaseType
  <1>2. CASE LoopResolving
    <2>1. /\ CheckLookup
          /\ UNCHANGED <<dnsResolved, subscriptions, subscribed, tried, sentBirth, children, resend,
                         booted, settling>>
      BY <1>2 DEF LoopResolving
    <2>2. /\ state' \in States /\ connectAge' \in {0, connectAge} /\ dnsError' \in {TRUE, dnsError}
          /\ UNCHANGED <<held, report, netUp, calm, available, lookups>>
          /\ announced' \in {announced, {}}
          /\ backend' \in {"opening", backend}
          /\ session' \in {session, "stale"}
      BY <2>1 DEF CheckLookup, StartConnect, ClosesBackend, Abandoned, worldVars, States
    <2>3. PhaseType'
      <3>1. connectAge' \in 0 .. MaxAge
        BY <2>2, Ages DEF LocalType, PhaseType
      <3>2. dnsError' \in BOOLEAN
        BY <2>2 DEF LocalType, PhaseType
      <3>. QED  BY <2>1, <2>2, <3>1, <3>2 DEF LocalType, PhaseType
    <2>4. TopicType' /\ ChildType'
      BY <2>1, <2>2 DEF LocalType, TopicType, ChildType
    <2>5. WorldType'
      BY <2>2 DEF LocalType, WorldType
    <2>. QED  BY <2>3, <2>4, <2>5 DEF LocalType
  <1>3. CASE LoopConnecting
    <2>1. CheckConnected /\ UNCHANGED <<subscriptions, children, resend, booted>>
      BY <1>3 DEF LoopConnecting
    <2>2. CASE StartLookup /\ UNCHANGED <<sentBirth, settling>>
      BY <2>1, <2>2, LookupType DEF LocalType, PhaseType
    <2>3. CASE /\ state' = "CONNECTED" /\ sentBirth' = FALSE /\ settling' = TRUE
               /\ UNCHANGED <<dnsResolved, dnsError, connectAge, subscriptions, subscribed, tried,
                              worldVars, inboundVars>>
      <3>1. PhaseType'
        BY <2>1, <2>3 DEF LocalType, PhaseType, States
      <3>2. TopicType' /\ ChildType' /\ WorldType'
        BY <2>1, <2>3 DEF LocalType, TopicType, ChildType, WorldType, worldVars
      <3>. QED  BY <3>1, <3>2 DEF LocalType
    <2>. QED  BY <2>1, <2>2, <2>3 DEF CheckConnected, BirthPending
  <1>4. CASE LoopConnected
    <2>1. /\ Birth /\ Resubscribe /\ Resends
          /\ UNCHANGED <<state, dnsResolved, dnsError, connectAge, subscriptions, children, booted,
                         settling>>
          /\ UNCHANGED <<backend, report, lookups, netUp, session, calm, inboundVars>>
      BY <1>4 DEF LoopConnected
    <2>2. sentBirth' \in BOOLEAN
      BY <2>1 DEF Birth, LocalType, PhaseType
    <2>3. available' \in {"online", available}
      BY <2>1 DEF Birth
    <2>4. PhaseType'
      BY <2>1, <2>2 DEF LocalType, PhaseType
    <2>5. TopicType'
      BY <2>1, ResubscribeType DEF LocalType
    <2>6. ChildType'
      <3>1. PICK taken \in Accepted(UNION {SendsOf(c) : c \in ResendTurn}) :
               /\ resend' = (resend \ ResendTurn) \cup {c \in ResendTurn : MustResend(c, taken)}
               /\ announced' = announced \cup Reaches(taken)
        BY <2>1 DEF Resends
      <3>2. ResendTurn \subseteq ToSet(children)
        BY DEF ResendTurn, ToSet
      <3>3. Reaches(taken) \subseteq UNION {SendsOf(c) : c \in ToSet(children)}
        BY <3>1, <3>2, AcceptedOnline DEF Reaches
      <3>4. resend' \subseteq ToSet(children)
        BY <3>1, <3>2 DEF LocalType, ChildType
      <3>. QED  BY <2>1, <3>1, <3>3, <3>4 DEF LocalType, ChildType
    <2>7. WorldType'
      BY <2>1, <2>3 DEF LocalType, WorldType
    <2>. QED  BY <2>4, <2>5, <2>6, <2>7 DEF LocalType
  <1>. QED  BY <1>1, <1>2, <1>3, <1>4 DEF Loop

LEMMA SubscriptionType ==
    ASSUME LocalType, Settle \/ Subscribe \/ Unsubscribe
    PROVE  LocalType'
  <1>1. TopicType'
    <2>1. CASE Settle
      BY <2>1, ResubscribeType DEF Settle, LocalType
    <2>2. CASE Subscribe
      <3>0. PICK t \in Topics \ subscriptions : \E taken \in Accepted({t}) :
                   /\ subscriptions' = subscriptions \cup {t}
                   /\ subscribed' = subscribed \cup taken
                   /\ tried' = [tried EXCEPT ![t] = 0]
                   /\ held' = held \cup Reaches(taken)
        BY <2>2 DEF Subscribe
      <3>1. PICK taken \in Accepted({t}) :
               /\ subscriptions' = subscriptions \cup {t}
               /\ subscribed' = subscribed \cup taken
               /\ tried' = [tried EXCEPT ![t] = 0]
               /\ held' = held \cup Reaches(taken)
        BY <3>0
      <3>2. taken \subseteq {t} /\ Reaches(taken) \subseteq taken
        BY <3>1, AcceptedOnline DEF Reaches
      <3>3. 0 \in 0 .. ResubscribeDelay + 1
        BY ClientAssumption
      <3>. QED  BY <3>1, <3>2, <3>3 DEF LocalType, TopicType
    <2>3. CASE Unsubscribe
      <3>0. PICK t \in subscriptions : \E taken \in Taken({t}) :
                   /\ subscriptions' = subscriptions \ {t}
                   /\ subscribed' = subscribed \ {t}
                   /\ tried' = [tried EXCEPT ![t] = NeverTried]
                   /\ held' = held \ Reaches(taken)
        BY <2>3 DEF Unsubscribe
      <3>1. PICK taken \in Taken({t}) :
               /\ subscriptions' = subscriptions \ {t}
               /\ subscribed' = subscribed \ {t}
               /\ tried' = [tried EXCEPT ![t] = NeverTried]
               /\ held' = held \ Reaches(taken)
        BY <3>0
      <3>. QED  BY <3>1 DEF LocalType, TopicType
    <2>. QED  BY <2>1, <2>2, <2>3
  <1>2. PhaseType'
    BY DEF LocalType, PhaseType, Settle, Subscribe, Unsubscribe
  <1>3. ChildType'
    <2>1. /\ UNCHANGED <<children, announced>>
          /\ resend' \in {resend, ToSet(children)}
      BY DEF Settle, Subscribe, Unsubscribe, AllResend
    <2>. QED  BY <2>1 DEF LocalType, ChildType
  <1>4. WorldType'
    BY DEF LocalType, WorldType, Settle, Subscribe, Unsubscribe
  <1>. QED  BY <1>1, <1>2, <1>3, <1>4 DEF LocalType

LEMMA SetupType ==
    ASSUME LocalType, SetupComponent
    PROVE  LocalType'
  <1>1. PICK c \in Components \ ToSet(children) :
           /\ children' = Append(children, c)
           /\ IF IsConnected
              THEN \E taken \in Accepted(SendsOf(c)) :
                      /\ resend' = IF MustResend(c, taken) THEN resend \cup {c} ELSE resend
                      /\ announced' = announced \cup Reaches(taken)
              ELSE UNCHANGED <<resend, announced>>
    BY DEF SetupComponent
  <1>2. children \in Seq(Components) /\ children' \in Seq(Components)
    BY <1>1 DEF LocalType, ChildType
  <1>3. ToSet(children') = ToSet(children) \cup {c}
    <2>1. /\ DOMAIN children = 1 .. Len(children) /\ Len(children) \in Nat
          /\ DOMAIN children' = 1 .. Len(children) + 1
          /\ \A i \in 1 .. Len(children) : children'[i] = children[i]
          /\ children'[Len(children) + 1] = c
      BY <1>1, <1>2
    <2>2. \A x : x \in ToSet(children') => x \in ToSet(children) \cup {c}
      BY <2>1 DEF ToSet
    <2>3. \A x : x \in ToSet(children) \cup {c} => x \in ToSet(children')
      BY <2>1 DEF ToSet
    <2>. QED  BY <2>2, <2>3
  <1>4. resend' \subseteq resend \cup {c} /\ announced' \subseteq announced \cup SendsOf(c)
    <2>1. CASE IsConnected
      <3>1. PICK taken \in Accepted(SendsOf(c)) :
               /\ resend' = IF MustResend(c, taken) THEN resend \cup {c} ELSE resend
               /\ announced' = announced \cup Reaches(taken)
        BY <1>1, <2>1
      <3>2. Reaches(taken) \subseteq SendsOf(c)
        BY <3>1, AcceptedOnline DEF Reaches
      <3>. QED  BY <3>1, <3>2
    <2>2. CASE ~ IsConnected
      BY <1>1, <2>2
    <2>. QED  BY <2>1, <2>2
  <1>5. ChildType'
    BY <1>2, <1>3, <1>4 DEF LocalType, ChildType
  <1>6. PhaseType' /\ TopicType' /\ WorldType'
    BY DEF SetupComponent, LocalType, PhaseType, TopicType, WorldType
  <1>. QED  BY <1>5, <1>6 DEF LocalType

LEMMA DisabledType ==
    ASSUME LocalType, Disable \/ Reboot
    PROVE  LocalType'
  <1>1. PhaseType'
    <2>1. CASE Disable
      BY <2>1 DEF LocalType, PhaseType, Disable, States
    <2>2. CASE Reboot
      <3>1. 0 \in 0 .. MaxAge /\ MaxAge \in 0 .. MaxAge
        BY Ages
      <3>2. /\ state' = "DISABLED" /\ connectAge' \in {0, MaxAge}
            /\ dnsResolved' = FALSE /\ dnsError' = FALSE /\ sentBirth' = FALSE
            /\ booted' = FALSE /\ settling' = FALSE
        BY <2>2 DEF Reboot
      <3>. QED  BY <3>1, <3>2 DEF PhaseType, States
    <2>. QED  BY <2>1, <2>2
  <1>2. TopicType'
    <2>1. CASE Disable
      BY <2>1 DEF Disable, ClosesBackend, LocalType, TopicType
    <2>2. CASE Reboot
      BY <2>2 DEF Reboot, LocalType, TopicType
    <2>. QED  BY <2>1, <2>2
  <1>3. ChildType'
    <2>1. CASE Disable
      BY <2>1 DEF Disable, ClosesBackend, LocalType, ChildType
    <2>2. CASE Reboot
      BY <2>2 DEF Reboot, ChildType
    <2>. QED  BY <2>1, <2>2
  <1>4. WorldType'
    <2>1. /\ backend' = "closed" /\ session' \in {session, "stale"}
          /\ available' \in {available, "offline"}
          /\ report' \in {report, FALSE} /\ lookups' \in {lookups, 0}
          /\ UNCHANGED <<netUp, calm>>
      BY DEF Disable, Reboot, ClosesBackend, Abandoned
    <2>2. lookups' \in 0 .. MaxLookups
      BY <2>1, ClientAssumption DEF LocalType, WorldType
    <2>. QED  BY <2>1, <2>2 DEF LocalType, WorldType
  <1>. QED  BY <1>1, <1>2, <1>3, <1>4 DEF LocalType

LEMMA NetworkType ==
    ASSUME LocalType,
           Opens \/ Lost \/ Reported \/ BrokerDrops \/ BrokerRestarts \/ NetworkChanges \/ Calms
             \/ LookupAnswered
    PROVE  LocalType'
  <1>1. PhaseType'
    <2>1. /\ state' \in {state, "DISABLED", "DISCONNECTED"}
          /\ UNCHANGED <<connectAge, sentBirth, booted, settling>>
          /\ dnsResolved' \in {dnsResolved, TRUE} /\ dnsError' \in {dnsError, TRUE}
      BY DEF Opens, Lost, Reported, BrokerDrops, BrokerRestarts, NetworkChanges, Calms,
             LookupAnswered, clientVars
    <2>. QED  BY <2>1 DEF LocalType, PhaseType, States
  <1>2. TopicType'
    <2>1. UNCHANGED <<subscriptions, subscribed, tried>> /\ held' \in {held, {}}
      BY DEF Opens, Lost, Reported, BrokerDrops, BrokerRestarts, NetworkChanges, Calms,
             LookupAnswered, clientVars
    <2>. QED  BY <2>1 DEF LocalType, TopicType
  <1>3. ChildType'
    <2>1. UNCHANGED <<children, resend>> /\ announced' \in {announced, {}}
      BY DEF Opens, Lost, Reported, BrokerDrops, BrokerRestarts, NetworkChanges, Calms,
             LookupAnswered, clientVars
    <2>. QED  BY <2>1 DEF LocalType, ChildType
  <1>4. WorldType'
    <2>1. backend' \in {backend, "open", "closed"}
      BY DEF Opens, Lost, Reported, BrokerDrops, BrokerRestarts, NetworkChanges, Calms,
             LookupAnswered
    <2>2. session' \in {session, "current", "stale", "none"}
      BY DEF Opens, Lost, Reported, BrokerDrops, BrokerRestarts, NetworkChanges, Calms,
             LookupAnswered, Abandoned
    <2>3. available' \in {available, "offline"}
      BY DEF Opens, Lost, Reported, BrokerDrops, BrokerRestarts, NetworkChanges, Calms,
             LookupAnswered
    <2>4. lookups' \in 0 .. MaxLookups
      BY ClientAssumption
      DEF Opens, Lost, Reported, BrokerDrops, BrokerRestarts, NetworkChanges, Calms,
          LookupAnswered, LocalType, WorldType
    <2>5. /\ report' \in {report, TRUE, FALSE} /\ netUp' \in {netUp, ~ netUp}
          /\ calm' \in {calm, TRUE}
      BY DEF Opens, Lost, Reported, BrokerDrops, BrokerRestarts, NetworkChanges, Calms,
             LookupAnswered
    <2>. QED  BY <2>1, <2>2, <2>3, <2>4, <2>5 DEF LocalType, WorldType
  <1>. QED  BY <1>1, <1>2, <1>3, <1>4 DEF LocalType

LEMMA ElapseType ==
    ASSUME LocalType, Elapse
    PROVE  LocalType'
  <1>1. PhaseType'
    <2>1. connectAge' \in 0 .. MaxAge
      BY Ages DEF Elapse, Older, LocalType, PhaseType
    <2>. QED  BY <2>1 DEF Elapse, LocalType, PhaseType
  <1>2. TopicType'
    <2>1. ResubscribeDelay \in Nat
      BY ClientAssumption
    <2>2. \A n \in 0 .. ResubscribeDelay + 1 :
             Older(n, ResubscribeDelay + 1) \in 0 .. ResubscribeDelay + 1
      BY <2>1 DEF Older
    <2>3. tried' \in [Topics -> {NeverTried} \cup 0 .. ResubscribeDelay + 1]
      BY <2>2 DEF Elapse, LocalType, TopicType
    <2>. QED  BY <2>3 DEF Elapse, LocalType, TopicType, worldVars
  <1>3. ChildType' /\ WorldType'
    BY DEF Elapse, LocalType, ChildType, WorldType, worldVars
  <1>. QED  BY <1>1, <1>2, <1>3 DEF LocalType

LEMMA InitType == Init => LocalType
  <1>. SUFFICES ASSUME Init PROVE LocalType
    OBVIOUS
  <1>1. PhaseType
    <2>1. connectAge \in 0 .. MaxAge
      BY Ages DEF Init
    <2>. QED  BY <2>1 DEF Init, PhaseType, States
  <1>2. TopicType
    BY DEF Init, TopicType
  <1>3. ChildType
    BY DEF Init, ChildType
  <1>4. WorldType
    <2>1. lookups \in 0 .. MaxLookups
      BY ClientAssumption DEF Init
    <2>2. backend = "closed" /\ session = "none" /\ available = "offline"
      BY DEF Init
    <2>3. report \in BOOLEAN /\ netUp \in BOOLEAN /\ calm \in BOOLEAN
      BY DEF Init
    <2>. QED  BY <2>1, <2>2, <2>3 DEF WorldType
  <1>. QED  BY <1>1, <1>2, <1>3, <1>4 DEF LocalType

LEMMA NextType == LocalType /\ [Next]_vars => LocalType'
  <1>. SUFFICES ASSUME LocalType, [Next]_vars PROVE LocalType'
    OBVIOUS
  <1>1. CASE Enable \/ (SetupClient /\ EnableOnBoot)
    <2>1. /\ StartLookup /\ booted' \in {booted, TRUE}
          /\ UNCHANGED <<subscriptions, sentBirth, children, resend, settling>>
      BY <1>1 DEF Enable, SetupClient, Enabled
    <2>. QED  BY <2>1, LookupType DEF LocalType, PhaseType
  <1>2. CASE Loop
    BY <1>2, LoopType
  <1>3. CASE Settle \/ Subscribe \/ Unsubscribe
    BY <1>3, SubscriptionType
  <1>4. CASE SetupComponent
    BY <1>4, SetupType
  <1>5. CASE Disable \/ Reboot
    BY <1>5, DisabledType
  <1>6. CASE Opens \/ Lost \/ Reported \/ BrokerDrops \/ BrokerRestarts \/ NetworkChanges \/ Calms
               \/ LookupAnswered
    BY <1>6, NetworkType
  <1>7. CASE Elapse
    BY <1>7, ElapseType
  <1>8. CASE Receives \/ Handles \/ UNCHANGED vars
    <2>1. UNCHANGED <<clientVars, worldVars>>
      BY <1>8 DEF Receives, Handles, vars, clientVars, worldVars
    <2>. QED
      BY <2>1
      DEF clientVars, worldVars, LocalType, PhaseType, TopicType, ChildType, WorldType
  <1>9. CASE SetupClient /\ ~ EnableOnBoot
    <2>1. /\ UNCHANGED <<state, dnsResolved, dnsError, connectAge, subscriptions, subscribed, tried,
                         sentBirth, children, resend, settling, worldVars>>
          /\ booted' = TRUE
      BY <1>9 DEF SetupClient
    <2>. QED
      BY <2>1 DEF worldVars, LocalType, PhaseType, TopicType, ChildType, WorldType
  <1>. QED  BY <1>1, <1>2, <1>3, <1>4, <1>5, <1>6, <1>7, <1>8, <1>9 DEF Next

(* Every variable keeps its type: in particular a topic marked subscribed  *)
(* is one still subscribed, only registered components are resent or       *)
(* announced, and no more calls wait for the main loop than it holds.      *)
THEOREM TypeCorrect == Spec => []TypeOK
  <1>1. IInv /\ LocalType => TypeOK
    <2>1. IInv => TypeOKInbound
      BY DEF IInv, InboundInv, TypeOKInbound
    <2>. QED
      BY <2>1 DEF TypeOK, LocalType, PhaseType, TopicType, ChildType, WorldType
  <1>2. Spec => []LocalType
    BY InitType, NextType, PTL DEF Spec
  <1>. QED  BY <1>1, <1>2, AlwaysIInv, PTL
=============================================================================
