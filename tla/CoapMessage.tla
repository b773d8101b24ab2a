---------------------------- MODULE CoapMessage ----------------------------
(***************************************************************************)
(* CoAP messages as coap.c composes and parses them. Bytes are numbers; a  *)
(* message has the fields of mg_coap_message, its options a sequence.      *)
(***************************************************************************)
EXTENDS Integers, Sequences, SequencesExt, Mbuf

Ack == 2
LongestOption == 65535 + 269

\* mg_coap_add_option: behind every option that is not greater
AddOption(options, new) ==
  LET before == SelectSeq(options, LAMBDA o : o.number <= new.number)
  IN  Insert(options, Len(before), <<new>>)
-----------------------------------------------------------------------------
(* Composing. *)

\* coap_get_ext_opt_size
ExtSize(value) ==
  IF value \in 13 .. 268 THEN 1 ELSE IF value \in 269 .. LongestOption THEN 2 ELSE 0

\* coap_split_opt and coap_add_opt_info: what fits four bits, and the bytes for the rest
Split(value) ==
  IF value < 13 THEN [base |-> value, ext |-> <<>>]
  ELSE IF value <= 268 THEN [base |-> 13, ext |-> <<value - 13>>]
  ELSE [base |-> 14, ext |-> U16(value - 269)]

\* The number of the option before the i-th
Before(options, i) == IF i = 1 THEN 0 ELSE options[i - 1].number

\* coap_calculate_packet_size: what cannot be sent, or the number of bytes
Rejected(cm) ==
  \/ cm.type > 3
  \/ Len(cm.token) > 8
  \/ cm.class > 7
  \/ cm.detail > 31
  \/ \E i \in DOMAIN cm.options :
       \/ i < Len(cm.options) /\ cm.options[i].number > cm.options[i + 1].number
       \/ Len(cm.options[i].value) > LongestOption
       \/ cm.options[i].number - Before(cm.options, i) > LongestOption

PacketSize(cm) ==
  LET Size(i) == 1 + ExtSize(cm.options[i].number - Before(cm.options, i))
                 + ExtSize(Len(cm.options[i].value)) + Len(cm.options[i].value)
  IN  FoldLeftDomain(LAMBDA n, i : n + Size(i), 4 + Len(cm.token), cm.options)
      + (IF cm.payload = <<>> THEN 0 ELSE Len(cm.payload) + 1)

\* mg_coap_compose, of a message that is not rejected
OptionBytes(cm, i) ==
  LET delta  == Split(cm.options[i].number - Before(cm.options, i))
      length == Split(Len(cm.options[i].value))
  IN  <<16 * delta.base + length.base>> \o delta.ext \o length.ext \o cm.options[i].value

Compose(cm) ==
  <<64 + 16 * cm.type + Len(cm.token), 32 * cm.class + cm.detail>> \o U16(cm.id) \o cm.token
  \o FlattenSeq([i \in DOMAIN cm.options |-> OptionBytes(cm, i)])
  \o (IF cm.payload = <<>> THEN <<>> ELSE <<255>> \o cm.payload)

\* mg_coap_send_ack
SendAck(id) ==
  Compose([type |-> Ack, token |-> <<>>, class |-> 0, detail |-> 0, id |-> id, options |-> <<>>, payload |-> <<>>])
-----------------------------------------------------------------------------
(* Parsing. *)

Error(what) == [error |-> what]
IsError(parsed) == "error" \in DOMAIN parsed

\* coap_get_ext_opt: the value that begins with four bits, and how many of the bytes at p belong to it
ExtOpt(b, p, bits) ==
  IF bits < 13 THEN [value |-> bits, size |-> 0]
  ELSE IF p + bits - 13 > Len(b) THEN Error("not enough data")
  ELSE IF bits = 13 THEN [value |-> b[p] + 13, size |-> 1]
  ELSE [value |-> (GetU16(b, p) + 269) % 65536, size |-> 2]

\* coap_get_options: the options from p on, behind those read so far, up to the marker
RECURSIVE Options(_, _, _, _)
Options(b, p, last, options) ==
  IF p > Len(b) THEN [options |-> options, next |-> p]
  ELSE IF b[p] = 255 THEN [options |-> options, next |-> p]
  ELSE IF b[p] \div 16 = 15 \/ b[p] % 16 = 15 THEN Error("format")
  ELSE LET delta == ExtOpt(b, p + 1, b[p] \div 16)
           len   == ExtOpt(b, p + 1 + delta.size, b[p] % 16)
           at    == p + 1 + delta.size + len.size
           number == (delta.value + last) % 65536
       IN  IF IsError(delta) THEN delta
           ELSE IF IsError(len) THEN len
           ELSE IF at + len.value - 1 > Len(b) THEN Error("not enough data")
           ELSE Options(b, at + len.value, number,
                        AddOption(options, [number |-> number, value |-> SubSeq(b, at, at + len.value - 1)]))

\* mg_coap_parse; the first byte holds the version, the type and the length of the token.
Parse(b) ==
  LET tkl  == b[1] % 16
      read == Options(b, 5 + tkl, 0, <<>>)
  IN  IF Len(b) < 4 THEN Error("not enough data")
      ELSE IF b[1] \div 64 # 1 THEN Error("ignore")
      ELSE IF tkl > 8 THEN Error("format")
      ELSE IF 4 + tkl > Len(b) THEN Error("not enough data")
      ELSE IF IsError(read) THEN read
      ELSE [type |-> (b[1] % 64) \div 16, token |-> SubSeq(b, 5, 4 + tkl),
            class |-> b[2] \div 32, detail |-> b[2] % 32, id |-> GetU16(b, 3),
            options |-> read.options, payload |-> SubSeq(b, read.next + 1, Len(b))]
-----------------------------------------------------------------------------
(* What is composed is parsed. *)

Ones(n) == [i \in 1 .. n |-> 1]

AddAll(options) == FoldLeft(AddOption, <<>>, options)

\* Numbers and lengths around the places where the extended forms begin
SampleOptions == [number : {0, 12, 13, 268, 269, 65535}, value : {Ones(n) : n \in {0, 12, 13, 268, 269}}]

Message(options, token, payload) ==
  [type |-> 1, token |-> token, class |-> 7, detail |-> 31, id |-> 258, options |-> AddAll(options), payload |-> payload]

\* A message whose options were added in whatever order is parsed into itself, takes exactly
\* the bytes that were reserved for it, and has its options by rising numbers, those with
\* the same number in the order in which they were added.
MessagesParsed ==
  \A o1, o2 \in SampleOptions, payload \in {<<>>, <<255, 3>>} :
    LET cm == Message(<<o1, [number |-> 13, value |-> <<2>>], o2>>, <<9>>, payload)
    IN  /\ ~Rejected(cm)
        /\ Len(Compose(cm)) = PacketSize(cm)
        /\ Parse(Compose(cm)) = cm
        /\ \A i \in 1 .. 2 : cm.options[i].number <= cm.options[i + 1].number
        /\ o1.number = o2.number =>
             SelectSeq(cm.options, LAMBDA o : o \in {o1, o2}) = <<o1, o2>>

\* A message cut short has no option or token that the whole one does not begin with.
CutMessagesPrefix ==
  \A o \in SampleOptions :
    LET cm == Message(<<o, [number |-> 300, value |-> <<4, 5>>]>>, <<9, 9>>, <<>>)
    IN  \A n \in 0 .. (IF Len(Compose(cm)) < 20 THEN Len(Compose(cm)) ELSE 20) :
          LET cut == Parse(SubSeq(Compose(cm), 1, n))
          IN  ~IsError(cut) => cut.token = cm.token /\ IsPrefix(cut.options, cm.options)
=============================================================================
