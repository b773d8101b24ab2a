----------------------------- MODULE DnsMessage -----------------------------
(***************************************************************************)
(* DNS messages as dns.c and dns_server.c write and read them. Bytes are   *)
(* numbers; a position in a message counts from 1.                         *)
(***************************************************************************)
EXTENDS Integers, Sequences, SequencesExt, Mbuf

A == 1
CNAME == 5
Dot == 46
MaxRecords == 32
Invalid == [ok |-> FALSE]
-----------------------------------------------------------------------------
(* Writing. *)

\* mg_dns_insert_header, of a message without its bytes
Header(msg) ==
  msg.tid \o U16(msg.flags) \o U16(Len(msg.questions)) \o U16(Len(msg.answers)) \o <<0, 0, 0, 0>>

\* The parts of a name between its dots
RECURSIVE Chunks(_)
Chunks(name) ==
  LET dots == {i \in DOMAIN name : name[i] = Dot}
      s    == CHOOSE i \in dots : \A j \in dots : i <= j
  IN  IF dots = {} THEN <<name>>
      ELSE <<SubSeq(name, 1, s - 1)>> \o Chunks(SubSeq(name, s + 1, Len(name)))

Encodable(name) == \A c \in ToSet(Chunks(name)) : Len(c) <= 127

\* Mutant: without the empty chunk.
EncodeName_NoEnd(name) == FlattenSeq([i \in DOMAIN Chunks(name) |-> <<Len(Chunks(name)[i])>> \o Chunks(name)[i]])

\* mg_dns_encode_name: every chunk behind its length, and an empty one
EncodeName(name) ==
  FlattenSeq([i \in DOMAIN Chunks(name) |-> <<Len(Chunks(name)[i])>> \o Chunks(name)[i]]) \o <<0>>

\* mg_dns_encode_record; the data of a CNAME is a name
EncodeQuestion(rr, name) == EncodeName(name) \o U16(rr.rtype) \o U16(rr.rclass)

EncodeAnswer(rr, name, rdata) ==
  LET data == IF rr.rtype = CNAME THEN EncodeName(rdata) ELSE rdata
  IN  EncodeQuestion(rr, name) \o U16(rr.ttl \div 65536) \o U16(rr.ttl) \o U16(Len(data)) \o data

\* mg_send_dns_query: over UDP; TCP has the length in front.
Question(type) == [rtype |-> type, rclass |-> 1]

QueryBytes(tid, name, type) ==
  Header([tid |-> tid, flags |-> 256, questions |-> <<Question(type)>>, answers |-> <<>>])
  \o EncodeQuestion(Question(type), name)

OverTcp(pkt) == Insert(pkt, 0, U16(Len(pkt)))
-----------------------------------------------------------------------------
(* Reading. *)

\* Where a name that begins at p ends: at its empty chunk, or in a pointer
RECURSIVE NameEnd(_, _)
NameEnd(b, p) ==
  IF p > Len(b) \/ b[p] = 0 THEN p
  ELSE IF b[p] >= 64 THEN p + 1
  ELSE NameEnd(b, p + b[p] + 1)

\* mg_parse_dns_resource_record: the record and the position behind it
ParseRecord(b, p, reply) ==
  LET q    == NameEnd(b, p)
      more == Len(b) - q - 4
      rr   == [name |-> p, end |-> q, rtype |-> GetU16(b, q + 1), rclass |-> GetU16(b, q + 3)]
      rlen == GetU16(b, q + 9)
  IN  IF more < 0 \/ (reply /\ more <= 6) THEN Invalid
      ELSE IF ~reply THEN [ok |-> TRUE, rr |-> rr, next |-> q + 5]
      ELSE [ok |-> TRUE, next |-> q + 11 + rlen,
            rr |-> rr @@ [ttl |-> GetU16(b, q + 5) * 65536 + GetU16(b, q + 7),
                          rdata |-> q + 11, rlen |-> rlen]]

\* n records, one behind the other
RECURSIVE ParseRecords(_, _, _, _)
ParseRecords(b, p, n, reply) ==
  LET first == ParseRecord(b, p, reply)
      rest  == ParseRecords(b, first.next, n - 1, reply)
  IN  IF n = 0 THEN [ok |-> TRUE, rrs |-> <<>>, next |-> p]
      ELSE IF ~first.ok THEN Invalid
      ELSE IF ~rest.ok THEN Invalid
      ELSE [rest EXCEPT !.rrs = <<first.rr>> \o @]

\* mg_parse_dns
Counted(n) == IF n > MaxRecords THEN MaxRecords ELSE n

ParseDns(b) ==
  LET qs == ParseRecords(b, 13, Counted(GetU16(b, 5)), FALSE)
      as == ParseRecords(b, qs.next, Counted(GetU16(b, 7)), TRUE)
  IN  IF Len(b) < 12 THEN Invalid
      ELSE IF ~qs.ok THEN Invalid
      ELSE IF ~as.ok THEN Invalid
      ELSE [ok |-> TRUE, pkt |-> b, tid |-> SubSeq(b, 1, 2), flags |-> GetU16(b, 3),
            questions |-> qs.rrs, answers |-> as.rrs]

\* Where the pointer at p leads
PointsTo(b, p) == (GetU16(b, p) % 16384) + 1

NotThere == <<0 - 1>>

\* mg_dns_uncompress_name, the chunks from p on, each with a dot behind it
RECURSIVE Expand(_, _, _)
Expand(b, p, room) ==
  LET n   == b[p]
      cut == IF n > room THEN room ELSE n
  IN  IF n = 0 THEN <<>>
      ELSE IF p = Len(b) THEN NotThere
      ELSE IF n >= 64 THEN IF PointsTo(b, p) > Len(b) THEN NotThere ELSE Expand(b, PointsTo(b, p), room)
      ELSE IF p + cut >= Len(b) THEN NotThere
      ELSE IF cut = room THEN SubSeq(b, p + 1, p + cut) \o <<Dot>>
      ELSE SubSeq(b, p + 1, p + cut) \o <<Dot>> \o Expand(b, p + 1 + cut, room - cut - 1)

\* Nothing when the name is not all there
UncompressName(b, p, room) ==
  LET s == Expand(b, p, room)
  IN  IF p > Len(b) \/ s = <<>> THEN <<>>
      ELSE IF Last(s) = Last(NotThere) THEN <<>>
      ELSE Front(s)

\* mg_dns_next_record: the first answer of a type; 0 for none
NextRecord(msg, type) ==
  LET found == {i \in DOMAIN msg.answers : msg.answers[i].rtype = type}
  IN  IF found = {} THEN 0 ELSE CHOOSE i \in found : \A j \in found : i <= j

\* mg_dns_parse_record_data: an address of four bytes; nothing if it is not all there
Address(msg, rr) ==
  IF rr.rdata + 3 > Len(msg.pkt) THEN <<>> ELSE SubSeq(msg.pkt, rr.rdata, rr.rdata + 3)
-----------------------------------------------------------------------------
(* The server. *)

\* mg_dns_create_reply: the questions as they came, and no answers yet
CopyQuestions(msg) == IF msg.questions = <<>> THEN <<>> ELSE SubSeq(msg.pkt, 13, Last(msg.questions).end + 4)

CreateReply(msg) ==
  [io |-> CopyQuestions(msg), count |-> 0,
   msg |-> [msg EXCEPT !.flags = @ + (IF @ < 32768 THEN 32768 ELSE 0) + (IF (@ \div 128) % 2 = 0 THEN 128 ELSE 0)]]

\* mg_dns_reply_record, to a question by its own name
ReplyRecord(rep, question, rtype, ttl, rdata) ==
  IF rep.count >= MaxRecords THEN rep
  ELSE [rep EXCEPT !.count = @ + 1,
         !.io = @ \o EncodeAnswer([rtype |-> rtype, rclass |-> question.rclass, ttl |-> ttl],
                                  UncompressName(rep.msg.pkt, question.name, 511), rdata)]

\* mg_dns_send_reply
SendReply(rep) ==
  Insert(rep.io, 0, Header([rep.msg EXCEPT !.answers = [i \in 1 .. rep.count |-> i]]))

\* What an application does that answers with the records as
RECURSIVE AddRecords(_, _)
AddRecords(rep, as) ==
  IF as = <<>> THEN rep
  ELSE AddRecords(ReplyRecord(rep, rep.msg.questions[1], Head(as).rtype, Head(as).ttl, Head(as).rdata), Tail(as))

\* dns_handler: what is no message is sent back behind a header that says so.
HandleDns(b, as) ==
  LET msg == ParseDns(b)
  IN  IF msg.ok THEN SendReply(AddRecords(CreateReply(msg), as))
      ELSE Insert(b, 0, Header([tid |-> <<0, 0>>, flags |-> 32897, questions |-> <<>>, answers |-> <<>>]))
-----------------------------------------------------------------------------
(* What is written is read back. *)

SampleNames == {<<97>>, <<97, 98, Dot, 99>>, <<97, Dot, 98, Dot, 99, 100>>}
SampleAnswers == {[rtype |-> A, ttl |-> 70000, rdata |-> <<10, 0, 0, 7>>],
                  [rtype |-> CNAME, ttl |-> 5, rdata |-> <<120, Dot, 121>>]}

ReplyBytes(name, type, as) ==
  HandleDns(QueryBytes(<<1, 2>>, name, type), as)

\* A name server that writes the name of an answer as a pointer to the question
PointerReply(name, rdata) ==
  Header([tid |-> <<1, 2>>, flags |-> 33152, questions |-> <<1>>, answers |-> <<1>>])
  \o EncodeQuestion(Question(A), name) \o <<192, 12>> \o U16(A) \o U16(1) \o U16(0) \o U16(9) \o U16(4) \o rdata

ReadAs(msg, i, a) ==
  LET rr == msg.answers[i]
  IN  /\ rr.rtype = a.rtype
      /\ rr.ttl = a.ttl
      /\ IF a.rtype = A THEN Address(msg, rr) = a.rdata
         ELSE UncompressName(msg.pkt, rr.rdata, 511) = a.rdata

\* What the server of dns_server.c answers to a query of the resolver carries the identifier and
\* question of that query, and its answers are read back one by one.
QueriesAnswered ==
  \A name \in SampleNames, type \in {A, CNAME}, as \in SeqOf(SampleAnswers, 2) :
    LET msg == ParseDns(ReplyBytes(name, type, as))
    IN  /\ msg.ok
        /\ msg.tid = <<1, 2>>
        /\ msg.flags = 33152
        /\ Len(msg.questions) = 1
        /\ msg.questions[1].rtype = type
        /\ UncompressName(msg.pkt, msg.questions[1].name, 511) = name
        /\ Len(msg.answers) = Len(as)
        /\ \A i \in DOMAIN as :
             /\ ReadAs(msg, i, as[i])
             /\ UncompressName(msg.pkt, msg.answers[i].name, 511) = name

\* A reply cut short anywhere yields the address it had or none, and never one put together
\* from other bytes; the same with a pointer in place of the name, which is followed.
CutRepliesHarmless ==
  \A name \in SampleNames : LET b == PointerReply(name, <<10, 0, 0, 7>>) IN
    \A n \in 12 .. Len(b) :
      LET msg == ParseDns(SubSeq(b, 1, n))
      IN  msg.ok => LET i == NextRecord(msg, A)
                    IN  /\ Address(msg, msg.answers[i]) = IF n = Len(b) THEN <<10, 0, 0, 7>> ELSE <<>>
                        /\ UncompressName(msg.pkt, msg.answers[i].name, 511) = name
=============================================================================
