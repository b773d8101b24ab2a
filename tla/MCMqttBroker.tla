---------------------------- MODULE MCMqttBroker ----------------------------
(* Finite instances of MqttBroker, beside the messages it exchanges with its clients. *)
EXTENDS MqttBroker, MqttMessage

\* An expression that a topic begins with and one for all behind a level, which match that
\* topic both; neither matches the other topic.
MCExpression == {<<<<"a">>, <<"a", "/", "#">>>>}
MCTopic == {<<"a", "b">>, <<"b">>}

\* Nothing tells the clients apart.
MCSymmetry == Permutations(Client)

\* What the broker and its clients write to one another, once they do, is what they read:
\* mqtt.c on all the samples of MqttMessage.
WireFormat == (\E c \in Client : sent[c] # <<>>) => MessagesReadBack /\ TopicsReadBack
=============================================================================
