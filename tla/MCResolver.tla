----------------------------- MODULE MCResolver -----------------------------
(* Finite instances of Resolver, beside the messages that go over datagrams. *)
EXTENDS Resolver

Dns == INSTANCE DnsMessage
Coap == INSTANCE CoapMessage

\* An address behind an alias, an alias alone, and nothing of use
MCAnswers == {{"CNAME", "A"}, {"CNAME"}, {}}

Datagram(len, version, mode) == [len |-> len, version |-> version, mode |-> mode]

\* A reply, and what a client sent
MCReplies == {Datagram(48, 4, 4), Datagram(48, 4, 3)}

\* What dns.c, dns_server.c and coap.c write to one another is read back, cut anywhere it is
\* refused or read as far as it goes, once a request is under way: the samples of DnsMessage
\* and CoapMessage.
DatagramsReadBack ==
  /\ dns.st = "live" => Dns!QueriesAnswered /\ Dns!CutRepliesHarmless
  /\ nc.st = "live" => Coap!MessagesParsed /\ Coap!CutMessagesPrefix
=============================================================================
