----------------------------- MODULE MqttInbound -----------------------------
(***************************************************************************)
(* How a publish reaches its handler: the on_message lambda of             *)
(* MQTTClientComponent::setup (mqtt_client.cpp), the inbound payload guard *)
(* (rf433_inbound_guard.h) and on_message with its defer.                  *)
(*                                                                         *)
(* The library hands a publish over in parts, in the network's context,    *)
(* which runs whenever the main loop waits.  The parts of one publish come *)
(* in order and are not mixed with another's on one connection; a          *)
(* connection may end between two parts.                                   *)
(***************************************************************************)
EXTENDS Naturals, Sequences, SequencesExt

CONSTANTS
    Topics,         \* topic filters of subscriptions_, as sequences of levels
    Messages,       \* publishes a broker may send: topic, size and number of parts
    MaxInbound,     \* MAX_INBOUND_PAYLOAD
    MaxDeferred     \* bound of the model: messages that wait for the main loop

-----------------------------------------------------------------------------
(* Topics.                                                                 *)

(* Wildcards cover no level of a topic that starts with a $, the first one *)
(* (is_normal, past_separator), and no empty level at its end, where the   *)
(* message runs out first.                                                 *)
Wild(topic, i) ==
    /\ i > 1 \/ topic[1] # "$"
    /\ i < Len(topic) \/ topic[i] # ""

Fits(topic, filter, i) ==
    \/ topic[i] = filter[i]
    \/ filter[i] = "+" /\ Wild(topic, i)

(* topic_match().  A level that starts with a $ is the level "$".          *)
TopicMatch(topic, filter) ==
    \/ /\ Len(topic) = Len(filter)
       /\ \A i \in DOMAIN topic : Fits(topic, filter, i)
    \/ \E n \in DOMAIN topic \cap DOMAIN filter :
          /\ filter[n] = "#" /\ Wild(topic, n)
          /\ \A i \in 1 .. n - 1 : Fits(topic, filter, i)

(* What the protocol says a filter covers.  "#" covers its parent too and  *)
(* a wildcard an empty level, which topic_match does not know: the         *)
(* messages and filters of the model leave those out.                      *)
Covers(filter, topic) ==
    LET rest == filter[Len(filter)] = "#"
        fixed == IF rest THEN Len(filter) - 1 ELSE Len(filter)
    IN  /\ topic[1] = "$" => filter[1] = "$"
        /\ IF rest THEN Len(topic) >= fixed ELSE Len(topic) = fixed
        /\ \A i \in 1 .. fixed : filter[i] \in {"+", topic[i]}

ASSUME TopicAssumption ==
    /\ \A f \in Topics : f \in Seq(STRING) \ {<< >>} /\ "#" \notin ToSet(f)
    /\ \A m \in Messages : m.topic \in Seq(STRING) \ {<< >>} /\ m.topic[Len(m.topic)] # ""

ASSUME InboundAssumption ==
    /\ \A m \in Messages :
          /\ DOMAIN m = {"topic", "size", "parts"}
          /\ m.size \in Nat
          /\ m.parts \in Nat \ {0}
    /\ MaxInbound \in Nat
    /\ MaxDeferred \in Nat \ {0}

VARIABLES
    buffer,         \* payload_buffer_: the parts assembled so far
    deferred,       \* on_message calls that wait for the main loop
    inflight        \* what the connection has carried of a publish: [msg, next], or Nothing

inboundVars == <<buffer, deferred, inflight>>

Nothing == [next |-> 0]

InitInbound ==
    /\ buffer = << >>
    /\ deferred = << >>
    /\ inflight = Nothing

(* accept_inbound_payload.                                                 *)
Accept(m) == m.size <= MaxInbound

(* Faulty variant: the first part of a publish is appended like any other. *)
AssembledKeeping(m, k) == Append(buffer, [msg |-> m, part |-> k])

(* payload_buffer_ after part k of m is appended: the first part starts    *)
(* over.                                                                   *)
Assembled(m, k) == Append(IF k = 1 THEN << >> ELSE buffer, [msg |-> m, part |-> k])

(* The on_message lambda.  Parts of an oversized publish are dropped, with *)
(* whatever was assembled; the last part hands the payload to on_message,  *)
(* which defers it.                                                        *)
OnPart(m, k) ==
    \/ /\ ~ Accept(m)
       /\ buffer' = << >>
       /\ UNCHANGED deferred
    \/ /\ Accept(m) /\ k < m.parts
       /\ buffer' = Assembled(m, k)
       /\ UNCHANGED deferred
    \/ /\ Accept(m) /\ k = m.parts
       /\ Len(deferred) < MaxDeferred
       /\ deferred' = Append(deferred, [topic |-> m.topic, payload |-> Assembled(m, k)])
       /\ buffer' = << >>

(* The next part of the publish under way, or the first of a new one that  *)
(* a subscription the broker holds covers.                                 *)
PartArrives(held) ==
    \E m \in Messages :
        LET k == IF inflight = Nothing THEN 1 ELSE inflight.next IN
        /\ IF inflight = Nothing THEN \E f \in held : Covers(f, m.topic) ELSE m = inflight.msg
        /\ OnPart(m, k)
        /\ inflight' = IF k = m.parts THEN Nothing ELSE [msg |-> m, next |-> k + 1]

(* The subscriptions whose callbacks a message is handed to.               *)
Handlers(subscriptions, topic) == {f \in subscriptions : TopicMatch(topic, f)}

(* The main loop runs a deferred call.  The scheduler of the framework may *)
(* run calls deferred in the same millisecond in any order.                *)
Dispatch ==
    /\ \E i \in DOMAIN deferred : deferred' = RemoveAt(deferred, i)
    /\ UNCHANGED <<buffer, inflight>>

(* The payload of m, complete.                                             *)
WholeOf(m) == [k \in 1 .. m.parts |-> [msg |-> m, part |-> k]]

TypeOKInbound ==
    /\ buffer \in Seq([msg : Messages, part : Nat \ {0}])
    /\ Len(deferred) <= MaxDeferred
    /\ inflight = Nothing \/ inflight \in [msg : Messages, next : Nat \ {0}]

(* A handler only ever sees the payload of one publish, whole and under    *)
(* its own topic, however many connections ended in the middle of one, and *)
(* never one that announced more than the guard lets in: "Every fragment   *)
(* of an oversized message carries the same total, so continuations die on *)
(* the same test" (setup).  Every subscription it was delivered for gets   *)
(* it.                                                                     *)
WholeMessagesOnly ==
    \A i \in DOMAIN deferred :
        \E m \in Messages :
            /\ deferred[i] = [topic |-> m.topic, payload |-> WholeOf(m)]
            /\ m.size <= MaxInbound
            /\ \A f \in Topics : Covers(f, m.topic) => f \in Handlers(Topics, m.topic)
=============================================================================
