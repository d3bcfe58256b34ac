---------------------------- MODULE MCMqttClient ----------------------------
(* Constants for the checks of MqttClient. *)
EXTENDS MqttClient

Message(topic, size, parts) == [topic |-> topic, size |-> size, parts |-> parts]

(* A publish in two parts, and one that is too large. *)
LongAndBig == {Message(<<"rf433", "tx">>, 2, 2), Message(<<"rf433", "tx">>, 3, 2)}

AnyTx == {<<"+", "tx">>}

Component(name, stateTopic, commandTopic) ==
    [name |-> name, stateTopic |-> stateTopic, commandTopic |-> commandTopic,
     internal |-> FALSE, discovery |-> TRUE]

(* One with a topic of its own, and one without, which is internal as the *)
(* prefix is empty.                                                       *)
OneOfEach == {Component("a", "custom", "default"), Component("b", "default", "default")}
=============================================================================
