----------------------------- MODULE MqttBroker -----------------------------
(***************************************************************************)
(* mongoose's MQTT broker (mqtt_server.c) on its protocol handler          *)
(* (mqtt.c): the clients' messages come in over streams cut anywhere, the  *)
(* handler frames one message per MG_EV_RECV, the broker keeps a session   *)
(* per client in a list and hands each publication to the sessions whose   *)
(* subscriptions match. The clients keep to the protocol: CONNECT, wait    *)
(* for CONNACK, then anything, then they close.                            *)
(***************************************************************************)
EXTENDS Naturals, Sequences, FiniteSets, SequencesExt

CONSTANTS Client,
          Expression,   \* the topic expressions clients subscribe to, in lists
          Topic,        \* what they publish to; topics are sequences of characters
          MaxMessages,  \* messages of all clients behind their CONNECTs
          Cuts          \* after which of the three parts of a message a recv may end

\* A message on the wire has three parts: its header with some of its bytes, the others but
\* the last, and its last byte. A PINGREQ has two bytes, so its second part is empty.
Whole == 3
ASSUME CutsAssumption == Cuts \subseteq 1 .. Whole
ASSUME ExpressionAssumption == Expression \subseteq Seq(UNION {ToSet(exps) : exps \in Expression})

VARIABLES conn,       \* where a client's connection is
          sent,       \* the messages a client sent
          wire,       \* how many of their parts the kernel has not delivered yet
          recv,       \* the parts in the connection's recv_mbuf
          out,        \* what the broker sent to a client
          session,    \* the sessions ever made; their numbers are their addresses
          sessions,   \* brk->sessions; no connection sees in which order they are served
          userdata,   \* nc->user_data: the session, or 0
          undefined,  \* a session of a freed connection was written to, or an array overrun
          handled     \* history: the messages in the order the broker handled them: from whom,
                      \* whether the last byte was there, whether a session could be allocated

brokerVars == <<conn, sent, wire, recv, out, session, sessions, userdata, undefined, handled>>

BrokerInit ==
  /\ conn = [c \in Client |-> "new"] /\ sent = [c \in Client |-> <<>>]
  /\ wire = [c \in Client |-> 0] /\ recv = [c \in Client |-> 0]
  /\ out = [c \in Client |-> <<>>]
  /\ session = <<>> /\ sessions = {} /\ userdata = [c \in Client |-> 0]
  /\ undefined = FALSE /\ handled = <<>>
-----------------------------------------------------------------------------
(* Clients. *)

Connect == [cmd |-> "CONNECT"]
Ping == [cmd |-> "PINGREQ"]
Subscribe(exps, id) == [cmd |-> "SUBSCRIBE", exps |-> exps, id |-> id]
Publish(topic, id) == [cmd |-> "PUBLISH", topic |-> topic, payload |-> id, last |-> TRUE]

Connack(code) == [cmd |-> "CONNACK", code |-> code]
Suback(m) == [cmd |-> "SUBACK", id |-> m.id, qoss |-> Len(m.exps)]

Broker == <<recv, out, session, sessions, userdata, undefined, handled>>

Send(c, m) == /\ sent' = [sent EXCEPT ![c] = Append(@, m)]
              /\ wire' = [wire EXCEPT ![c] = @ + Whole]
              /\ UNCHANGED Broker

\* MG_EV_ACCEPT: the pointer to the broker that the connection inherited is cleared.
Open(c) == /\ conn[c] = "new" /\ conn' = [conn EXCEPT ![c] = "open"]
           /\ Send(c, Connect)

Accepted(c) == out[c] # <<>> /\ out[c][1] = Connack(0)

\* The number of a message tells the client and the place in what it sent.
Number(c) == <<c, Len(sent[c])>>

\* The messages of all clients behind their CONNECTs, each the place in what one client sent
More == {p \in Client \X (2 .. MaxMessages + 1) : p[2] <= Len(sent[p[1]])}

SendMore(c) ==
  /\ conn[c] = "open" /\ Accepted(c) /\ Cardinality(More) < MaxMessages
  /\ UNCHANGED conn
  /\ \/ Send(c, Ping)
     \/ \E exps \in Expression : Send(c, Subscribe(exps, Number(c)))
     \/ \E topic \in Topic : Send(c, Publish(topic, Number(c)))
-----------------------------------------------------------------------------
(* The broker. *)

\* mg_mqtt_broker_handle_connect: a new session in the list, unless there is no memory
\* for it; it keeps what the connection's user_data was before.
HandleConnect(c, ok) ==
  IF ok
  THEN /\ session' = Append(session, [nc |-> c, subs |-> <<>>, room |-> 0, userdata |-> userdata[c]])
       /\ sessions' = sessions \cup {Len(session')}
       /\ userdata' = [userdata EXCEPT ![c] = Len(session')]
       /\ out' = [out EXCEPT ![c] = Append(@, Connack(0))]
       /\ UNCHANGED undefined
  ELSE /\ out' = [out EXCEPT ![c] = Append(@, Connack(3))]
       /\ UNCHANGED <<session, sessions, userdata, undefined>>

\* mg_mqtt_broker_handle_subscribe: the array is made as long as this message needs, the new
\* expressions go behind those that are there.
HandleSubscribe(c, m) ==
  LET s == userdata[c]
  IN  /\ session' = [session EXCEPT ![s].subs = @ \o m.exps, ![s].room = Len(m.exps)]
      /\ out' = [out EXCEPT ![c] = Append(@, Suback(m))]
      /\ undefined' = (undefined \/ Len(session'[s].subs) > session'[s].room)
      /\ UNCHANGED <<sessions, userdata>>

\* How many characters mg_mqtt_match_topic_expression compares; for an expression of
\* one character, "#", the length is negative and wraps around.
Compared(exp, topic) ==
  IF ~Contains(exp, "#") THEN Len(exp)
  ELSE IF Len(exp) >= 2 /\ Len(exp) - 2 <= Len(topic) THEN Len(exp) - 2 ELSE Len(topic)

\* strncmp on the topic, which the payload follows in the buffer without a terminator;
\* the payload shares no character with an expression.
Matches(exp, topic) ==
  LET n == Compared(exp, topic)
  IN  n <= Len(topic) /\ n <= Len(exp) /\ SubSeq(topic, 1, n) = SubSeq(exp, 1, n)

Wants(s, topic) == \E i \in DOMAIN session[s].subs : Matches(session[s].subs[i], topic)

\* Mutant: a publication is sent once for each subscription that matches.
Copies_PerSubscription(s, topic) ==
  {i \in DOMAIN session[s].subs : Matches(session[s].subs[i], topic)}

\* The subscriptions of a session a publication is sent for: the first that matches
Copies(s, topic) ==
  {i \in DOMAIN session[s].subs :
     /\ Matches(session[s].subs[i], topic)
     /\ \A j \in 1 .. (i - 1) : ~Matches(session[s].subs[j], topic)}

\* mg_mqtt_broker_handle_publish: the message goes out with QoS 0 and no identifier.
HandlePublish(m) ==
  LET copies(c) == UNION {{s} \X Copies(s, m.topic) : s \in {t \in sessions : session[t].nc = c}}
  IN  /\ out' = [c \in Client |-> IF conn[c] = "open"
                   THEN out[c] \o [i \in 1 .. Cardinality(copies(c)) |-> m] ELSE out[c]]
      /\ undefined' = (undefined \/ \E s \in sessions : conn[session[s].nc] # "open" /\ Wants(s, m.topic))
      /\ UNCHANGED <<session, sessions, userdata>>

\* mg_mqtt_broker; UNSUBSCRIBE, PINGREQ and the rest it leaves to no one.
Handle(c, m, ok) ==
  CASE m.cmd = "CONNECT"   -> HandleConnect(c, ok)
    [] m.cmd = "SUBSCRIBE" -> HandleSubscribe(c, m)
    [] m.cmd = "PUBLISH"   -> HandlePublish(m)
    [] OTHER               -> UNCHANGED <<out, session, sessions, userdata, undefined>>

\* What parse_mqtt makes of m: of what the broker uses, only the payload of a PUBLISH has the
\* last byte of its message (in a SUBSCRIBE it is a QoS); whatever lies behind the buffer
\* stands in for it when it is missing.
Read(m, whole) == IF m.cmd = "PUBLISH" THEN [m EXCEPT !.last = whole] ELSE m

\* The message at the head of the buffer
First(c) == sent[c][Len(sent[c]) - (wire[c] + recv[c] + Whole - 1) \div Whole + 1]

\* Mutant: the length of the message is compared with that of the buffer, the other way round.
Framed_Any(m, parts) == parts >= 1

\* parse_mqtt: whether it takes the message m for complete. It does when one byte is
\* missing (end > io->buf + io->len + 1), if there are two (io->len < 2).
Framed(m, parts) == parts >= Whole \/ (parts = Whole - 1 /\ m.cmd # "PINGREQ")

\* mbuf_remove of the whole message, which does nothing when the buffer is shorter.
Left(parts) == IF parts >= Whole THEN parts - Whole ELSE parts

\* A recv may end with left parts still on the wire.
MayEnd(left) == LET part == left % Whole IN part = 0 \/ (Whole - part) \in Cuts

\* One recv and mqtt_handler: what arrives is a number of parts, one message is handled. One
\* that lacks its last byte stays, and is handled again when something arrives.
Recv(c) ==
  /\ conn[c] = "open" /\ wire[c] > 0 /\ ~undefined
  /\ \E n \in 1 .. wire[c] :
       LET parts == recv[c] + n
       IN  /\ MayEnd(wire[c] - n)
           /\ wire' = [wire EXCEPT ![c] = @ - n]
           /\ IF Framed(First(c), parts)
              THEN \E ok \in (IF First(c).cmd = "CONNECT" THEN BOOLEAN ELSE {TRUE}) :
                     /\ Handle(c, Read(First(c), parts >= Whole), ok)
                     /\ recv' = [recv EXCEPT ![c] = Left(parts)]
                     /\ handled' = Append(handled, [from |-> c, m |-> First(c), whole |-> parts >= Whole, ok |-> ok])
              ELSE /\ recv' = [recv EXCEPT ![c] = parts]
                   /\ UNCHANGED <<out, session, sessions, userdata, undefined, handled>>
  /\ UNCHANGED <<conn, sent>>

\* Mutant: the session of a connection that closes stays in the list.
CloseSession_Kept(s) == sessions

\* mg_mqtt_close_session
CloseSession(s) == sessions \ {s}

\* MG_EV_CLOSE: the client closed, or the network failed
HandleClose(c) ==
  /\ conn[c] = "open" /\ ~undefined
  /\ conn' = [conn EXCEPT ![c] = "freed"]
  /\ sessions' = IF userdata[c] # 0 THEN CloseSession(userdata[c]) ELSE sessions
  /\ UNCHANGED <<sent, wire, recv, out, session, userdata, undefined, handled>>

BrokerNext == \E c \in Client : Open(c) \/ SendMore(c) \/ Recv(c) \/ HandleClose(c)

BrokerSpec == BrokerInit /\ [][BrokerNext]_brokerVars
-----------------------------------------------------------------------------
(* Properties. *)

\* The messages of c among the first n handled, and those of them that were whole
MessagesOf(c, n) == {i \in 1 .. n : handled[i].from = c}
WholeOf(c, n) == {i \in MessagesOf(c, n) : handled[i].whole}

\* A CONNECT of c was handled before its last byte, and will be handled again.
ConnectsTwice(c) == \E i \in MessagesOf(c, Len(handled)) : handled[i].m = Connect /\ ~handled[i].whole

\* c had more than one SUBSCRIBE handled, be it the same one.
SubscribesTwice(c) ==
  \E i, j \in MessagesOf(c, Len(handled)) :
    i # j /\ handled[i].m.cmd = "SUBSCRIBE" /\ handled[j].m.cmd = "SUBSCRIBE"

\* The session that an open connection was given last is in the list. Any other session there
\* is what a CONNECT handled twice left behind, for good when its connection closes; it
\* has no subscriptions. So nothing is written to a connection that is gone, and what is
\* undefined comes of an array overrun by a client's second SUBSCRIBE.
SessionsMatch ==
  /\ \A c \in Client : conn[c] = "open" /\ userdata[c] # 0
       => userdata[c] \in sessions /\ session[userdata[c]].nc = c
  /\ \A s \in sessions :
       \/ conn[session[s].nc] = "open" /\ userdata[session[s].nc] = s
       \/ ConnectsTwice(session[s].nc) /\ session[s].subs = <<>>
  /\ undefined => \E c \in Client : SubscribesTwice(c)

\* A message that is not fully buffered is not handled, and none is handled twice or out
\* of turn: the k-th handled of a client is the k-th it sent (the comment in mqtt_handler).
HandledOnce ==
  \A n \in DOMAIN handled :
    LET c == handled[n].from
        k == Cardinality(MessagesOf(c, n))
    IN  k \in DOMAIN sent[c] /\ handled[n].m = sent[c][k]

\* However the stream is cut, the messages of a client are handled in the order sent, each
\* exactly once when it is whole, and at most once before, for want of its last byte.
HandledInOrder ==
  \A n \in DOMAIN handled :
    LET c == handled[n].from
        done == Cardinality(WholeOf(c, n - 1))
    IN  /\ done + 1 \in DOMAIN sent[c] /\ handled[n].m = sent[c][done + 1]
        /\ ~handled[n].whole =>
             \A i \in MessagesOf(c, n - 1) : ~handled[i].whole => Cardinality(WholeOf(c, i)) # done

\* The subscriptions of c that were acknowledged before the n-th message handled
Subscriptions(c, n) ==
  UNION {ToSet(handled[i].m.exps) :
           i \in {j \in MessagesOf(c, n - 1) : handled[j].m.cmd = "SUBSCRIBE"}}

\* What c should get because of the n-th message handled: an answer to its own CONNECT and
\* SUBSCRIBE, and a publication, as it was read, once.
Due(c, n) ==
  LET h == handled[n]
  IN  IF h.m.cmd = "CONNECT" /\ h.from = c THEN <<Connack(IF h.ok THEN 0 ELSE 3)>>
      ELSE IF h.m.cmd = "SUBSCRIBE" /\ h.from = c THEN <<Suback(h.m)>>
      ELSE IF h.m.cmd = "PUBLISH" /\ \E e \in Subscriptions(c, n) : Matches(e, h.m.topic)
      THEN <<Read(h.m, h.whole)>> ELSE <<>>

\* A client that is connected gets each publication its subscriptions match once for every time
\* it was handled, from whichever client, and the answers to its own requests, all in
\* the order in which the broker handled them; unless a second SUBSCRIBE overran the array.
DeliveredAsHandled ==
  \A c \in Client : conn[c] = "open" /\ ~undefined =>
    out[c] = FlattenSeq([n \in DOMAIN handled |-> Due(c, n)])
=============================================================================
