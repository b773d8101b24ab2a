---------------------------- MODULE MqttMessage -----------------------------
(***************************************************************************)
(* MQTT messages as mqtt.c writes them at the end of a connection's        *)
(* send_mbuf and reads them from the head of a recv_mbuf. Bytes are        *)
(* numbers; strings are sequences of bytes, here without their NUL.        *)
(***************************************************************************)
EXTENDS Integers, Sequences, SequencesExt, Mbuf

Commands == <<"CONNECT", "CONNACK", "PUBLISH", "PUBACK", "PUBREC", "PUBREL", "PUBCOMP",
              "SUBSCRIBE", "SUBACK", "UNSUBSCRIBE", "UNSUBACK", "PINGREQ", "PINGRESP", "DISCONNECT">>
CmdCode(cmd) == CHOOSE i \in DOMAIN Commands : Commands[i] = cmd

QoS(q) == 2 * q
GetQoS(flags) == (flags % 8) \div 2
HasBit(flags, bit) == (flags \div bit) % 2 = 1

Str(s) == U16(Len(s)) \o s
-----------------------------------------------------------------------------
(* Composing. *)

\* Mutant: the high part comes first.
VarLen_HighFirst(n) == IF n < 128 THEN <<n>> ELSE <<128 + (n \div 128), n % 128>>

\* The variable length, up to the two bytes that the messages here need
VarLen(n) == IF n < 128 THEN <<n>> ELSE <<128 + (n % 128), n \div 128>>

\* mg_mqtt_prepend_header: in front of the last len bytes
PrependHeader(buf, cmd, flags, len) ==
  Insert(buf, Len(buf) - len, <<16 * CmdCode(cmd) + flags>> \o VarLen(len))

\* The body goes to the end of the buffer first, the header before it afterwards.
Compose(buf, cmd, flags, body) == PrependHeader(AppendTo(buf, body), cmd, flags, Len(body))

\* mg_mqtt_publish
ComposePublish(buf, topic, id, flags, data) ==
  Compose(buf, "PUBLISH", flags, Str(topic) \o (IF GetQoS(flags) > 0 THEN U16(id) ELSE <<>>) \o data)

\* mg_mqtt_subscribe and mg_mqtt_unsubscribe; topics are expressions with their qos
ComposeSubscribe(buf, topics, id) ==
  Compose(buf, "SUBSCRIBE", QoS(1),
          U16(id) \o FlattenSeq([i \in DOMAIN topics |-> Append(Str(topics[i].topic), topics[i].qos)]))

ComposeUnsubscribe(buf, topics, id) ==
  Compose(buf, "UNSUBSCRIBE", QoS(1), U16(id) \o FlattenSeq([i \in DOMAIN topics |-> Str(topics[i])]))

\* mg_mqtt_connack, mg_mqtt_suback, mg_send_mqtt_short_command and what has no body
ComposeConnack(buf, code) == Compose(buf, "CONNACK", 0, <<0, code>>)
ComposeSuback(buf, qoss, id) == Compose(buf, "SUBACK", QoS(1), U16(id) \o qoss)
ComposeShort(buf, cmd, id) == Compose(buf, cmd, QoS(1), U16(id))
ComposeEmpty(buf, cmd) == Compose(buf, cmd, 0, <<>>)

\* mg_send_mqtt_handshake_opt: opts has will_topic, will_message, user_name and password, each <<>>
\* for NULL, and keep_alive. The length is kept in one byte, whatever it is.
ConnectFlags(opts) ==
  (IF opts.user_name # <<>> THEN 128 ELSE 0) + (IF opts.password # <<>> THEN 64 ELSE 0)
  + (IF opts.will_topic # <<>> /\ opts.will_message # <<>> THEN 4 ELSE 0)

ComposeHandshake(buf, client_id, opts) ==
  LET flags == ConnectFlags(opts)
      Opt(bit, s) == IF HasBit(flags, bit) THEN Str(s) ELSE <<>>
      body == <<0, 6, 77, 81, 73, 115, 100, 112, 3, flags>>
              \o U16(IF opts.keep_alive = 0 THEN 60 ELSE opts.keep_alive)
              \o Str(client_id) \o Opt(4, opts.will_topic) \o Opt(4, opts.will_message)
              \o Opt(128, opts.user_name) \o Opt(64, opts.password)
  IN  AppendTo(buf, <<16, Len(body) % 256>> \o body)
-----------------------------------------------------------------------------
(* Parsing. *)

\* scanto: the string at p, and the place behind it
Scan(io, p) == SubSeq(io, p + 2, p + 1 + GetU16(io, p))
Behind(io, p) == p + 2 + GetU16(io, p)

\* The strings a CONNECT ends with, as long as there are bytes: the client's name, then
\* those that its flags announce
RECURSIVE ScanAll(_, _, _, _)
ScanAll(io, p, end, bits) ==
  IF bits = <<>> THEN <<>>
  ELSE IF p < end /\ Head(bits)
       THEN <<Scan(io, p)>> \o ScanAll(io, Behind(io, p), end, Tail(bits))
       ELSE <<<<>>>> \o ScanAll(io, p, end, Tail(bits))

ParseConnect(io, p, end) ==
  LET q == Behind(io, p)
      flags == io[q + 1]
      s == ScanAll(io, q + 4, end, <<TRUE, HasBit(flags, 4), HasBit(flags, 4),
                                     HasBit(flags, 128), HasBit(flags, 64)>>)
  IN  [protocol |-> Scan(io, p), version |-> io[q], flags |-> flags, keep_alive |-> GetU16(io, q + 2),
       client_id |-> s[1], will_topic |-> s[2], will_message |-> s[3], user_name |-> s[4],
       password |-> s[5]]

ParsePublish(io, p, end, qos) ==
  LET q == IF qos > 0 THEN p + 2 ELSE p
  IN  [id |-> IF qos > 0 THEN GetU16(io, p) ELSE 0, topic |-> Scan(io, q),
       payload |-> SubSeq(io, Behind(io, q), end - 1)]

\* parse_mqtt: the length of the message and what is in it; -1 when the buffer has not all of it
Incomplete == [len |-> 0 - 1]

ParseMqtt(io) ==
  LET two == io[2] >= 128
      p   == IF two THEN 4 ELSE 3
      end == p + (IF two THEN io[2] - 128 + 128 * io[3] ELSE io[2])
      cmd == Commands[io[1] \div 16]
      qos == GetQoS(io[1] % 16)
      Is(body) == [len |-> end - 1, cmd |-> cmd, qos |-> qos, body |-> body]
  IN  IF Len(io) < 2 \/ end > Len(io) + 2 THEN Incomplete
      ELSE CASE cmd = "CONNECT" -> Is(ParseConnect(io, p, end))
             [] cmd = "CONNACK" -> Is(io[p + 1])
             [] cmd \in {"PUBACK", "PUBREC", "PUBREL", "PUBCOMP", "SUBACK"} -> Is(GetU16(io, p))
             [] cmd = "PUBLISH" -> Is(ParsePublish(io, p, end, qos))
             [] cmd = "SUBSCRIBE" -> Is([id |-> GetU16(io, p), payload |-> SubSeq(io, p + 2, end - 1)])
             [] OTHER -> Is({})

\* mg_mqtt_next_subscribe_topic, over the whole payload of a SUBSCRIBE
RECURSIVE SubscribeTopics(_)
SubscribeTopics(payload) ==
  IF payload = <<>> THEN <<>>
  ELSE LET n == GetU16(payload, 1)
       IN  <<[topic |-> SubSeq(payload, 3, n + 2), qos |-> payload[n + 3]]>>
           \o SubscribeTopics(DropBytes(payload, n + 3))
-----------------------------------------------------------------------------
(* What is written is read back. *)

Bytes(n) == [i \in 1 .. n |-> i % 256]

NoOpts == [will_topic |-> <<>>, will_message |-> <<>>, user_name |-> <<>>, password |-> <<>>,
           keep_alive |-> 0]

\* A buffer to which a message was appended, and what that message is to be read as
Samples(buf) ==
  {[io |-> ComposePublish(buf, Bytes(t), 7, 0, Bytes(n)), cmd |-> "PUBLISH", qos |-> 0,
    body |-> [id |-> 0, topic |-> Bytes(t), payload |-> Bytes(n)]] :
      t \in {1, 3}, n \in {0, 1} \cup 120 .. 130}
  \cup {[io |-> ComposeConnack(buf, code), cmd |-> "CONNACK", qos |-> 0, body |-> code] : code \in 0 .. 5}
  \cup {[io |-> ComposeShort(buf, cmd, id), cmd |-> cmd, qos |-> 1, body |-> id] :
           cmd \in {"PUBACK", "PUBREC", "PUBREL", "PUBCOMP"}, id \in {1, 255, 256, 65535}}
  \cup {[io |-> ComposeSuback(buf, Bytes(n), 300), cmd |-> "SUBACK", qos |-> 1, body |-> 300] : n \in {1, 2, 130}}
  \cup {[io |-> ComposeEmpty(buf, cmd), cmd |-> cmd, qos |-> 0, body |-> {}] :
           cmd \in {"PINGREQ", "PINGRESP", "DISCONNECT"}}
  \cup {[io |-> ComposeHandshake(buf, Bytes(n), [opts EXCEPT !.keep_alive = 10]), cmd |-> "CONNECT", qos |-> 0,
         body |-> [protocol |-> <<77, 81, 73, 115, 100, 112>>, version |-> 3, flags |-> ConnectFlags(opts),
                   keep_alive |-> 10, client_id |-> Bytes(n),
                   will_topic |-> opts.will_topic, will_message |-> opts.will_message,
                   user_name |-> opts.user_name, password |-> opts.password]] :
           n \in {1, 20},
           opts \in {NoOpts, [NoOpts EXCEPT !.user_name = Bytes(2), !.password = Bytes(3)],
                     [NoOpts EXCEPT !.will_topic = Bytes(1), !.will_message = Bytes(4), !.password = Bytes(2)]}}

\* Every message that mqtt.c composes for a connection is what parse_mqtt takes it for, is taken off the
\* buffer exactly, and leaves what is in front of and behind it alone: CONNECT up to 127
\* bytes, PUBLISH with QoS 0 (with another the identifier is read where the topic is).
MessagesReadBack ==
  \A buf \in {<<>>, Bytes(3)}, next \in {<<>>, <<192, 0>>} : \A m \in Samples(buf) :
    /\ SubSeq(m.io, 1, Len(buf)) = buf
    /\ ParseMqtt(DropBytes(m.io, Len(buf)) \o next)
         = [len |-> Len(m.io) - Len(buf), cmd |-> m.cmd, qos |-> m.qos, body |-> m.body]

\* The expressions of a SUBSCRIBE come out of its payload as they went in.
TopicsReadBack ==
  \A topics \in SeqOf({[topic |-> Bytes(n), qos |-> q] : n \in {0, 1, 3}, q \in {0, 1}}, 2) :
    SubscribeTopics(ParseMqtt(ComposeSubscribe(<<>>, topics, 9)).body.payload) = topics
=============================================================================
