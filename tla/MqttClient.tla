------------------------------ MODULE MqttClient ------------------------------
(***************************************************************************)
(* MQTTClientComponent (components/mqtt/mqtt_client.cpp) over the ESP8266  *)
(* backend (mqtt_backend_esp8266.h), with the state resends of             *)
(* MQTTComponent (mqtt_component.cpp): name lookup, connection, birth      *)
(* message, subscriptions, loss and retry.                                 *)
(*                                                                         *)
(* The main loop and the network's context interleave: the network's       *)
(* callbacks run between two loop passes and whenever the loop waits, here *)
(* in the delay that follows a connection (settling).  A wait between two  *)
(* sends inside a pass is covered by letting any send fail.                *)
(*                                                                         *)
(* The broker is modelled as far as it is used: it keeps subscriptions     *)
(* over connections (clean_session is off), publishes the will of a        *)
(* connection that it sees end, and may restart.  A connection may be half *)
(* open: either end may learn of its end later than the other.             *)
(***************************************************************************)
EXTENDS MqttInbound, FiniteSets

CONSTANTS
    Components,         \* MQTTComponents: how each is configured
    TopicPrefixEmpty,   \* topic_prefix is empty
    DiscoveryEnabled,   \* the prefix of discovery_info_ is not empty
    DiscoveryClean,     \* discovery_info_.clean: discovery removes its entries
    EnableOnBoot,       \* enable_on_boot_
    MaxResends,         \* MAX_RESENDS_PER_LOOP
    ResubscribeDelay,   \* 1000 ms, in ticks of the model
    RetryDelay,         \* 5000 ms between two attempts
    DnsTimeout,         \* 20000 ms for a name lookup
    ConnectTimeout,     \* 60000 ms for a connection
    MaxLookups          \* bound of the model: lookups under way

ASSUME ClientAssumption ==
    /\ \A c \in Components :
          /\ DOMAIN c = {"name", "stateTopic", "commandTopic", "internal", "discovery"}
          /\ {c.stateTopic, c.commandTopic} \subseteq {"default", "empty", "custom"}
          /\ {c.internal, c.discovery} \subseteq BOOLEAN
    /\ {TopicPrefixEmpty, DiscoveryEnabled, DiscoveryClean, EnableOnBoot} \subseteq BOOLEAN
    /\ MaxResends \in Nat \ {0}
    /\ {ResubscribeDelay, RetryDelay, DnsTimeout, ConnectTimeout} \subseteq Nat
    /\ MaxLookups \in Nat

VARIABLES
    state,          \* state_
    dnsResolved,    \* dns_resolved_
    dnsError,       \* dns_resolve_error_
    connectAge,     \* ticks since connect_begin_, capped
    subscriptions,  \* topics of subscriptions_
    subscribed,     \* topics whose subscription is marked subscribed
    tried,          \* topic -> ticks since resubscribe_timeout, capped, or NeverTried
    sentBirth,      \* sent_birth_message_
    children,       \* children_: components in order of registration
    resend,         \* components whose resend_state_ is set
    booted,         \* setup() has run
    settling        \* check_connected waits before it subscribes

VARIABLES
    backend,        \* the library's connection: "closed", "opening" or "open"
    report,         \* the library still has to report the loss of a connection
    lookups,        \* name lookups whose callback is outstanding
    netUp,          \* network::is_connected()
    session,        \* the broker's connection of this client: "none", "stale" or "current"
    held,           \* topics the broker holds a subscription for
    available,      \* the retained availability: "online", or else ("offline" or nothing)
    announced,      \* what the broker has of the components from its current connection
    calm            \* the network and the broker have stopped failing

clientVars == <<state, dnsResolved, dnsError, connectAge, subscriptions, subscribed, tried, sentBirth,
                children, resend, booted, settling>>
worldVars == <<backend, report, lookups, netUp, session, held, available, announced, calm>>
vars == <<state, dnsResolved, dnsError, connectAge, subscriptions, subscribed, tried, sentBirth,
          children, resend, booted, settling,
          backend, report, lookups, netUp, session, held, available, announced, calm,
          buffer, deferred, inflight>>

States == {"DISABLED", "DISCONNECTED", "RESOLVING_ADDRESS", "CONNECTING", "CONNECTED"}
MaxAge == 1 + CHOOSE d \in {RetryDelay, DnsTimeout, ConnectTimeout} :
                  \A e \in {RetryDelay, DnsTimeout, ConnectTimeout} : e <= d
NeverTried == -1

(* connect_begin_ has no initialiser: any age is possible until the first  *)
(* attempt sets it.                                                        *)
Init ==
    /\ state = "DISABLED"
    /\ dnsResolved = FALSE
    /\ dnsError = FALSE
    /\ connectAge \in {0, MaxAge}
    /\ subscriptions = {}
    /\ subscribed = {}
    /\ tried = [t \in Topics |-> NeverTried]
    /\ sentBirth = FALSE
    /\ children = << >>
    /\ resend = {}
    /\ booted = FALSE
    /\ settling = FALSE
    /\ backend = "closed"
    /\ report = FALSE
    /\ lookups = 0
    /\ netUp \in BOOLEAN
    /\ session = "none"
    /\ held = {}
    /\ available = "offline"
    /\ announced = {}
    /\ calm = FALSE
    /\ InitInbound

-----------------------------------------------------------------------------
(* Connecting.                                                             *)

IsConnected == state = "CONNECTED" /\ backend = "open"

(* The broker's view when this end closes its connection, or loses it.     *)
Abandoned == IF session = "current" THEN "stale" ELSE session

(* What the library's connection carries goes with it.                     *)
ClosesBackend(next) ==
    /\ backend' = next
    /\ session' = Abandoned
    /\ announced' = {}
    /\ inflight' = Nothing
    /\ UNCHANGED <<buffer, deferred, report, held, available, netUp, calm>>

(* start_connect_: nothing at all without a network; otherwise a forced    *)
(* disconnect, whose report arrives in the call and is overwritten, and a  *)
(* new attempt.                                                            *)
StartConnect(unconnected) ==
    \/ /\ ~ netUp
       /\ state' = unconnected
       /\ UNCHANGED <<connectAge, backend, session, announced, inflight>>
       /\ UNCHANGED <<buffer, deferred, report, held, available, netUp, calm>>
    \/ /\ netUp
       /\ state' = "CONNECTING"
       /\ connectAge' = 0
       /\ ClosesBackend("opening")

(* Faulty variant: the subscriptions of the last connection still count.   *)
ForgetSubscriptionsTimes == UNCHANGED subscribed /\ tried' = [t \in Topics |-> NeverTried]

ForgetSubscriptions == subscribed' = {} /\ tried' = [t \in Topics |-> NeverTried]

(* start_dnslookup_, called in state DISCONNECTED.  The address may be     *)
(* known at once; otherwise a lookup is under way or was refused, and a    *)
(* refused one is only noticed by its timeout.                             *)
StartLookup ==
    /\ ForgetSubscriptions
    /\ dnsError' = FALSE
    /\ \/ /\ dnsResolved' = TRUE
          /\ StartConnect("DISCONNECTED")
          /\ UNCHANGED lookups
       \/ /\ dnsResolved' = FALSE
          /\ \/ lookups < MaxLookups /\ lookups' = lookups + 1
             \/ ~ calm /\ UNCHANGED lookups
          /\ state' = "RESOLVING_ADDRESS"
          /\ connectAge' = 0
          /\ UNCHANGED <<backend, session, announced, inflight>>
          /\ UNCHANGED <<buffer, deferred, report, held, available, netUp, calm>>

(* check_dnslookup_.                                                       *)
LookupFailed == dnsError \/ (~ dnsResolved /\ connectAge > DnsTimeout)

CheckLookup ==
    \/ /\ LookupFailed
       /\ dnsError' = TRUE
       /\ state' = "DISCONNECTED"
       /\ UNCHANGED <<connectAge, worldVars, inboundVars>>
    \/ /\ ~ LookupFailed /\ dnsResolved
       /\ StartConnect("RESOLVING_ADDRESS")
       /\ UNCHANGED <<dnsError, lookups>>

(* dns_found_callback, perhaps of an earlier lookup.                       *)
LookupAnswered ==
    /\ lookups > 0
    /\ lookups' = lookups - 1
    /\ \/ dnsResolved' = TRUE /\ UNCHANGED dnsError
       \/ ~ calm /\ dnsError' = TRUE /\ UNCHANGED dnsResolved
    /\ UNCHANGED <<state, connectAge, subscriptions, subscribed, tried, sentBirth, children, resend, booted, settling>>
    /\ UNCHANGED <<backend, report, netUp, session, held, available, announced, calm, inboundVars>>

(* enable(), by an automation or by setup() of the client, which comes     *)
(* before that of every component and trigger.                             *)
Enabled ==
    /\ state = "DISABLED"
    /\ StartLookup
    /\ UNCHANGED <<subscriptions, sentBirth, children, resend, settling>>

Enable == ~ settling /\ booted /\ Enabled /\ UNCHANGED booted

SetupClient ==
    /\ ~ booted
    /\ booted' = TRUE
    /\ IF EnableOnBoot THEN Enabled
       ELSE UNCHANGED <<state, dnsResolved, dnsError, connectAge, subscriptions, subscribed, tried, sentBirth,
                        children, resend, settling, worldVars, inboundVars>>

(* disable(): the state changes first, so on_shutdown finds no connection  *)
(* to publish on, and the forced disconnect leaves the rest to the will.   *)
Disable ==
    /\ ~ settling
    /\ state # "DISABLED"
    /\ state' = "DISABLED"
    /\ ClosesBackend("closed")
    /\ UNCHANGED <<dnsResolved, dnsError, connectAge, subscriptions, subscribed, tried, sentBirth,
                   children, resend, booted, settling, lookups>>

-----------------------------------------------------------------------------
(* Connected.                                                              *)

(* Outcomes of sends that the library may or may not accept: which of a    *)
(* set were accepted.  Without a connection of its own none is.            *)
Taken(sends) == IF backend # "open" THEN {{}} ELSE IF calm THEN {sends} ELSE SUBSET sends

(* publish and subscribe_ do not even try unless the client is connected.  *)
Accepted(sends) == IF IsConnected THEN Taken(sends) ELSE {{}}

(* What of it reaches the broker.                                          *)
Reaches(sends) == IF session = "current" THEN sends ELSE {}

ResubscribeDue ==
    {t \in subscriptions \ subscribed : tried[t] = NeverTried \/ tried[t] > ResubscribeDelay}

(* resubscribe_subscriptions_.  A subscription counts once the library has *)
(* taken the request; no answer is awaited.                                *)
Resubscribe ==
    \E taken \in Accepted(ResubscribeDue) :
        /\ subscribed' = subscribed \cup taken
        /\ tried' = [t \in Topics |-> IF t \in ResubscribeDue THEN 0 ELSE tried[t]]
        /\ held' = held \cup Reaches(taken)

(* Faulty variant: a birth message sent once is sent for good.             *)
BirthPendingKept == UNCHANGED sentBirth

BirthPending == sentBirth' = FALSE

(* check_connected, up to the wait that follows a connection ...           *)
CheckConnected ==
    \/ /\ backend # "open" /\ connectAge > ConnectTimeout
       /\ StartLookup
       /\ UNCHANGED <<sentBirth, settling>>
    \/ /\ backend = "open"
       /\ state' = "CONNECTED"
       /\ BirthPending
       /\ settling' = TRUE
       /\ UNCHANGED <<dnsResolved, dnsError, connectAge, subscriptions, subscribed, tried, worldVars, inboundVars>>

(* Faulty variant: only what is marked already is resent.                  *)
AllResendKept == resend

(* Faulty variant: internal components, which are never registered, too.   *)
AllResendInternal == Components

AllResend == ToSet(children)

(* ... and what follows the wait, whatever happened meanwhile.             *)
Settle ==
    /\ settling
    /\ settling' = FALSE
    /\ Resubscribe
    /\ resend' = AllResend
    /\ UNCHANGED <<state, dnsResolved, dnsError, connectAge, subscriptions, sentBirth, children, booted>>
    /\ UNCHANGED <<backend, report, lookups, netUp, session, available, announced, calm, inboundVars>>

(* The birth message, until the library takes it; publish() has a second   *)
(* try of its own.                                                         *)
Birth ==
    \/ sentBirth /\ UNCHANGED <<sentBirth, available>>
    \/ /\ ~ sentBirth
       /\ \E taken \in Accepted({"online"}) :
             /\ sentBirth' = (taken # {})
             /\ available' = IF Reaches(taken) # {} THEN "online" ELSE available

(* The components whose turn it is: the first MaxResends that wait, in the *)
(* order of their registration.                                            *)
ResendTurn ==
    {children[i] : i \in {i \in DOMAIN children :
        /\ children[i] \in resend
        /\ Cardinality({j \in 1 .. i : children[j] \in resend}) <= MaxResends}}

(* compute_is_internal_.                                                   *)
IsInternal(c) ==
    \/ c.stateTopic = "empty"
    \/ c.stateTopic = "default" /\ c.commandTopic = "empty"
    \/ /\ c.stateTopic = "default" /\ c.commandTopic = "default"
       /\ TopicPrefixEmpty \/ c.internal

(* get_state_topic_to_: without a prefix there is no default topic, and    *)
(* publish() on no topic fails.                                            *)
HasStateTopic(c) == c.stateTopic = "custom" \/ ~ TopicPrefixEmpty

(* What a component sends when it is set up and when it resends: its       *)
(* discovery entry, or the removal of it, and its state.                   *)
Discovery(c) ==
    IF c.discovery /\ DiscoveryEnabled
    THEN {<<c, IF DiscoveryClean THEN "removal" ELSE "entry">>} ELSE {}
SendsOf(c) == Discovery(c) \cup (IF HasStateTopic(c) THEN {<<c, "state">>} ELSE {})

(* schedule_resend_state: one send that failed repeats all.                *)
MustResend(c, taken) == ~ HasStateTopic(c) \/ ~ SendsOf(c) \subseteq taken

(* process_resend of each.                                                 *)
Resends ==
    \E taken \in Accepted(UNION {SendsOf(c) : c \in ResendTurn}) :
        /\ resend' = (resend \ ResendTurn) \cup {c \in ResendTurn : MustResend(c, taken)}
        /\ announced' = announced \cup Reaches(taken)

(* One pass of loop().                                                     *)
LoopDisconnected ==
    /\ state = "DISCONNECTED"
    /\ connectAge > RetryDelay
    /\ StartLookup
    /\ UNCHANGED <<subscriptions, sentBirth, children, resend, booted, settling>>

LoopResolving ==
    /\ state = "RESOLVING_ADDRESS"
    /\ CheckLookup
    /\ UNCHANGED <<dnsResolved, subscriptions, subscribed, tried, sentBirth, children, resend, booted, settling>>

LoopConnecting ==
    /\ state = "CONNECTING"
    /\ CheckConnected
    /\ UNCHANGED <<subscriptions, children, resend, booted>>

LoopLost ==
    /\ state = "CONNECTED" /\ backend # "open"
    /\ StartLookup
    /\ UNCHANGED <<subscriptions, sentBirth, children, resend, booted, settling>>

LoopConnected ==
    /\ state = "CONNECTED" /\ backend = "open"
    /\ Birth
    /\ Resubscribe
    /\ Resends
    /\ UNCHANGED <<state, dnsResolved, dnsError, connectAge, subscriptions, children, booted, settling>>
    /\ UNCHANGED <<backend, report, lookups, netUp, session, calm, inboundVars>>

Loop ==
    /\ ~ settling
    /\ LoopDisconnected \/ LoopResolving \/ LoopConnecting \/ LoopLost \/ LoopConnected

(* subscribe() and subscribe_json(), by a trigger at boot or by a component *)
(* later: one try at once, and the entry for the tries to come.            *)
Subscribe ==
    /\ ~ settling /\ booted
    /\ \E t \in Topics \ subscriptions : \E taken \in Accepted({t}) :
          /\ subscriptions' = subscriptions \cup {t}
          /\ subscribed' = subscribed \cup taken
          /\ tried' = [tried EXCEPT ![t] = 0]
          /\ held' = held \cup Reaches(taken)
    /\ UNCHANGED <<state, dnsResolved, dnsError, connectAge, sentBirth, children, resend, booted, settling>>
    /\ UNCHANGED <<backend, report, lookups, netUp, session, available, announced, calm, inboundVars>>

(* unsubscribe(): the entry goes whether or not the library takes it.      *)
Unsubscribe ==
    /\ ~ settling
    /\ \E t \in subscriptions : \E taken \in Taken({t}) :
          /\ subscriptions' = subscriptions \ {t}
          /\ subscribed' = subscribed \ {t}
          /\ tried' = [tried EXCEPT ![t] = NeverTried]
          /\ held' = held \ Reaches(taken)
    /\ UNCHANGED <<state, dnsResolved, dnsError, connectAge, sentBirth, children, resend, booted, settling>>
    /\ UNCHANGED <<backend, report, lookups, netUp, session, available, announced, calm, inboundVars>>

(* call_setup of a component, at any time of the boot.                     *)
SetupComponent ==
    /\ ~ settling /\ booted
    /\ \E c \in Components \ ToSet(children) :
          /\ ~ IsInternal(c)
          /\ children' = Append(children, c)
          /\ IF IsConnected
             THEN \E taken \in Accepted(SendsOf(c)) :
                     /\ resend' = IF MustResend(c, taken) THEN resend \cup {c} ELSE resend
                     /\ announced' = announced \cup Reaches(taken)
             ELSE UNCHANGED <<resend, announced>>
    /\ UNCHANGED <<state, dnsResolved, dnsError, connectAge, subscriptions, subscribed, tried, sentBirth,
                   booted, settling>>
    /\ UNCHANGED <<backend, report, lookups, netUp, session, held, available, calm, inboundVars>>

-----------------------------------------------------------------------------
(* The library, the network and the broker.                                *)

(* The connection opens; the broker takes an earlier one of the same       *)
(* client over and publishes its will first.                               *)
Opens ==
    /\ backend = "opening" /\ netUp
    /\ backend' = "open"
    /\ session' = "current"
    /\ available' = IF session = "stale" THEN "offline" ELSE available
    /\ UNCHANGED <<clientVars, report, lookups, netUp, held, announced, calm, inboundVars>>

(* An attempt fails, or the connection is lost; the library reports it at  *)
(* once or a little later.                                                 *)
Lost ==
    /\ backend # "closed"
    /\ ~ calm \/ (backend = "open" /\ session # "current")
    /\ backend' = "closed"
    /\ session' = Abandoned
    /\ announced' = {}
    /\ inflight' = Nothing
    /\ report' = TRUE
    /\ UNCHANGED <<clientVars, lookups, netUp, held, available, calm, buffer, deferred>>

(* The on_disconnect lambda.                                               *)
Reported ==
    /\ report
    /\ report' = FALSE
    /\ state' = IF state = "DISABLED" THEN "DISABLED" ELSE "DISCONNECTED"
    /\ UNCHANGED <<dnsResolved, dnsError, connectAge, subscriptions, subscribed, tried, sentBirth,
                   children, resend, booted, settling>>
    /\ UNCHANGED <<backend, lookups, netUp, session, held, available, announced, calm, inboundVars>>

(* The broker sees a connection end, or gives it up.                       *)
BrokerDrops ==
    /\ session = "stale" \/ (session = "current" /\ ~ calm)
    /\ session' = "none"
    /\ available' = "offline"
    /\ announced' = {} /\ inflight' = Nothing
    /\ UNCHANGED <<clientVars, backend, report, lookups, netUp, held, calm, buffer, deferred>>

BrokerRestarts ==
    /\ ~ calm
    /\ session' = "none"
    /\ held' = {}
    /\ available' \in {available, "offline"}
    /\ announced' = {} /\ inflight' = Nothing
    /\ UNCHANGED <<clientVars, backend, report, lookups, netUp, calm, buffer, deferred>>

NetworkChanges ==
    /\ ~ calm
    /\ netUp' = ~ netUp
    /\ UNCHANGED <<clientVars, backend, report, lookups, session, held, available, announced, calm,
                   inboundVars>>

Calms ==
    /\ ~ calm /\ netUp
    /\ calm' = TRUE
    /\ UNCHANGED <<clientVars, backend, report, lookups, netUp, session, held, available, announced,
                   inboundVars>>

Receives ==
    /\ backend = "open" /\ session = "current"
    /\ PartArrives(held)
    /\ UNCHANGED <<clientVars, worldVars>>

Handles ==
    /\ ~ settling
    /\ Dispatch
    /\ UNCHANGED <<clientVars, worldVars>>

(* The ESP restarts.  A planned restart runs on_shutdown first; the broker *)
(* may or may not get its message.                                         *)
Reboot ==
    /\ ~ calm
    /\ state' = "DISABLED"
    /\ dnsResolved' = FALSE /\ dnsError' = FALSE
    /\ connectAge' \in {0, MaxAge}
    /\ subscriptions' = {} /\ subscribed' = {} /\ tried' = [t \in Topics |-> NeverTried]
    /\ sentBirth' = FALSE
    /\ children' = << >> /\ resend' = {}
    /\ booted' = FALSE /\ settling' = FALSE
    /\ backend' = "closed" /\ report' = FALSE /\ lookups' = 0
    /\ session' = Abandoned
    /\ available' \in {available} \cup (IF IsConnected THEN {"offline"} ELSE {})
    /\ announced' = {}
    /\ buffer' = << >> /\ deferred' = << >> /\ inflight' = Nothing
    /\ UNCHANGED <<netUp, held, calm>>

Older(age, cap) == IF age < cap THEN age + 1 ELSE age

(* A tick passes.  In calm weather lookups and connections take less than  *)
(* one.                                                                    *)
Elapse ==
    /\ ~ settling
    /\ calm => lookups = 0 /\ backend # "opening"
    /\ connectAge' = Older(connectAge, MaxAge)
    /\ tried' = [t \in Topics |->
                    IF tried[t] = NeverTried THEN NeverTried ELSE Older(tried[t], ResubscribeDelay + 1)]
    /\ UNCHANGED <<state, dnsResolved, dnsError, subscriptions, subscribed, sentBirth, children, resend, booted,
                   settling, worldVars, inboundVars>>

Next ==
    \/ SetupClient \/ Enable \/ Disable \/ Loop \/ Settle \/ SetupComponent \/ Handles
    \/ Subscribe \/ Unsubscribe
    \/ LookupAnswered \/ Opens \/ Lost \/ Reported \/ Receives
    \/ BrokerDrops \/ BrokerRestarts \/ NetworkChanges \/ Calms
    \/ Reboot \/ Elapse

(* The main loop runs, setup included, and time passes.  The library       *)
(* finishes what it has begun, reports what it lost and notices the end of *)
(* a half-open connection by its keep-alive.                               *)
Fairness ==
    /\ WF_vars(SetupClient \/ Loop \/ Settle)
    /\ WF_vars(Handles) /\ WF_vars(SetupComponent)
    /\ WF_vars(Elapse)
    /\ WF_vars(LookupAnswered) /\ WF_vars(Opens) /\ WF_vars(Reported)
    /\ WF_vars(session # "current" /\ Lost)

Spec == Init /\ [][Next]_vars /\ Fairness
-----------------------------------------------------------------------------
(* Properties.                                                             *)

TypeOK ==
    /\ state \in States
    /\ {dnsResolved, dnsError, sentBirth, booted, settling} \subseteq BOOLEAN
    /\ connectAge \in 0 .. MaxAge
    /\ subscriptions \subseteq Topics
    /\ subscribed \subseteq subscriptions
    /\ tried \in [Topics -> {NeverTried} \cup 0 .. ResubscribeDelay + 1]
    /\ children \in Seq(Components)
    /\ resend \subseteq ToSet(children)
    /\ backend \in {"closed", "opening", "open"}
    /\ {report, netUp, calm} \subseteq BOOLEAN
    /\ lookups \in 0 .. MaxLookups
    /\ session \in {"none", "stale", "current"}
    /\ held \subseteq Topics
    /\ available \in {"online", "offline"}
    /\ announced \subseteq UNION {SendsOf(c) : c \in ToSet(children)}
    /\ TypeOKInbound

(* A topic marked subscribed is one the broker delivers, as long as this   *)
(* very connection lasts at both ends: the marks of an earlier connection  *)
(* never survive into one whose broker may have forgotten them             *)
(* (start_dnslookup_, resubscribe_subscription_).                          *)
SubscribedIsHeld == IsConnected /\ session = "current" => subscribed \subseteq held

(* Once the birth message is marked sent, the retained availability reads  *)
(* online while the connection lasts at both ends: no will of an earlier   *)
(* connection and no shutdown message is the last word (check_connected,   *)
(* loop).                                                                  *)
AvailabilityTruthful ==
    IsConnected /\ session = "current" /\ sentBirth => available = "online"

Serving ==
    /\ IsConnected /\ session = "current"
    /\ subscriptions \subseteq held
    /\ available = "online"
    /\ announced = UNION {SendsOf(c) : c \in {c \in Components : ~ IsInternal(c)}}

(* Once the network and the broker behave, an enabled client comes to      *)
(* serve and keeps serving: connected, its topics subscribed, available,   *)
(* the discovery entry and the state of every component sent on this       *)
(* connection, whatever was under way, half open or answered too late      *)
(* before ("reboot_timeout: 0s": nothing restarts a client that is stuck). *)
(* Registered components have a state topic here: one without is resent    *)
(* for ever, and MaxResends of them leave the others no turn.              *)
ComesToServe == <>[](calm /\ state # "DISABLED") => <>[]Serving
=============================================================================
