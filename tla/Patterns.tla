------------------------------ MODULE Patterns ------------------------------
(* What mongoose matches names and addresses against: patterns, lists between commas, access
   lists, endpoints and file types; and how addresses are read and written. A character is its
   code. *)
EXTENDS Uri

Star == 42
Bar == 124
Dollar == 36
-----------------------------------------------------------------------------
(* mg_match_prefix_n: how much of a string a pattern takes, or -1. A string is the first n
   characters of m; what stands behind them in memory is read too: only a question mark and a
   dollar ask whether the string has ended. *)

RECURSIVE MatchIn(_, _, _), MatchFrom(_, _, _, _, _)

\* The longest a star can take behind j: all there is if there are two, else up to a slash, or,
\* once the end of the string is missed, as far as there is none
StarTakes(m, n, j, double) ==
  LET slash == NextOf(m, {Slash}, j + 1) - (j + 1)
  IN IF double \/ (j <= n /\ n - j < slash) THEN n - j ELSE slash

\* Two stars behind the end of the string go back, here to its beginning at most.
MatchFrom(p, m, n, i, j) ==
  LET double == StartsAt(p, <<Star, Star>>, i)
      rest == SubSeq(p, IF double THEN i + 2 ELSE i + 1, Len(p))
      most == StarTakes(m, n, j, double)
      taken(k) == MatchIn(rest, SubSeq(m, j + k + 1, Len(m)), n - j - k)
      good == {k \in (IF j > n THEN -j ELSE 0) .. most : taken(k) # -1}
  IN IF i > Len(p) THEN j
     ELSE CASE p[i] = Question /\ j # n -> MatchFrom(p, m, n, i + 1, j + 1)
            [] p[i] = Dollar -> IF j = n THEN j ELSE -1
            [] p[i] = Star -> IF rest = <<>> THEN j + most
                              ELSE IF good = {} THEN -1 ELSE j + Max(good) + taken(Max(good))
            [] OTHER -> IF j < Len(m) /\ Lower(p[i]) = Lower(m[j + 1])
                        THEN MatchFrom(p, m, n, i + 1, j + 1) ELSE -1

MatchIn(p, m, n) ==
  LET bar == NextOf(p, {Bar}, 1)
      first == MatchIn(SubSeq(p, 1, bar - 1), m, n)
  IN IF bar > Len(p) THEN MatchFrom(p, m, n, 1, 0)
     ELSE IF first > 0 THEN first ELSE MatchIn(SubSeq(p, bar + 1, Len(p)), m, n)

\* mg_match_prefix: a string of C, which ends with a zero
MatchPrefix(p, s) == MatchIn(p, Append(s, 0), Len(s))
-----------------------------------------------------------------------------
(* mg_next_comma_list_entry: the entries of a list, and what is behind their equals signs *)

Entry(e) == LET at == NextOf(e, {Eq}, 1)
            IN [val |-> SubSeq(e, 1, at - 1),
                eq |-> IF at > Len(e) THEN Failed ELSE SubSeq(e, at + 1, Len(e))]

RECURSIVE Entries(_)
Entries(list) ==
  LET comma == NextOf(list, {Comma}, 1)
  IN IF list = <<>> THEN <<>>
     ELSE <<Entry(SubSeq(list, 1, comma - 1))>> \o Entries(SubSeq(list, comma + 1, Len(list)))
-----------------------------------------------------------------------------
(* mg_check_ip_acl. An address is its four bytes. *)

\* The characters between two separators, which sscanf reads as numbers
RECURSIVE SplitAt(_, _)
SplitAt(s, sep) ==
  LET end == NextOf(s, {sep}, 1)
  IN <<SubSeq(s, 1, end - 1)>> \o
     (IF end > Len(s) THEN <<>> ELSE SplitAt(SubSeq(s, end + 1, Len(s)), sep))

IsNumber(s) == s # <<>> /\ \A i \in DOMAIN s : s[i] \in Digit
Number(s) == FoldLeft(LAMBDA n, ch : 10 * n + ch - 48, 0, s)

\* parse_net: the address and the number of bits that count, with no address if it has none.
\* What is no number behind the slash is ignored.
ParseNet(spec) ==
  LET slash == NextOf(spec, {Slash}, 1)
      bits == SubSeq(spec, slash + 1, Len(spec))
      bytes == SplitAt(SubSeq(spec, 1, slash - 1), Dot)
      n == IF IsNumber(bits) THEN Number(bits) ELSE 32
  IN IF Len(bytes) = 4 /\ (\A i \in 1 .. 4 : IsNumber(bytes[i]) /\ Number(bytes[i]) <= 255) /\ n < 33
     THEN [net |-> [i \in 1 .. 4 |-> Number(bytes[i])], bits |-> n]
     ELSE [net |-> <<>>, bits |-> 0]

\* An address cut down to its first bits
Masked(ip, bits) ==
  [i \in 1 .. 4 |-> LET kept == Max({0, Min({8, bits - 8 * (i - 1)})})
                    IN (ip[i] \div 2 ^ (8 - kept)) * 2 ^ (8 - kept)]

\* 1 if allowed, 0 if not, -1 at an entry that is not right. The network of the list is taken
\* as it stands, its other bits included.
CheckIpAcl(acl, ip) ==
  LET entries == Entries(acl)
      net(e) == ParseNet(Tail(e.val))
      bad(e) == e.val = <<>> \/ e.val[1] \notin {43, 45} \/ net(e).net = <<>>
      step(allowed, e) == IF allowed = -1 \/ bad(e) THEN -1
                          ELSE IF net(e).net = Masked(ip, net(e).bits)
                               THEN (IF e.val[1] = 43 THEN 1 ELSE 0) ELSE allowed
  IN FoldLeft(step, IF acl = <<>> THEN 1 ELSE 0, entries)
-----------------------------------------------------------------------------
(* mg_http_get_endpoint_handler: endpoints are pairs of pattern and handler, the one that was
   registered last at the front (mg_register_http_endpoint); 0 is no handler. *)

Register(endpoints, pattern, handler) == <<<<pattern, handler>>>> \o endpoints

\* The URI is the first n characters of the rest of the request line.
EndpointHandler(endpoints, line, n) ==
  LET step(best, e) == LET takes == MatchIn(e[1], line, n)
                       IN IF takes > best.n THEN [n |-> takes, handler |-> e[2]] ELSE best
  IN FoldLeft(step, [n |-> 0, handler |-> 0], endpoints).handler

\* mg_get_mime_type: overrides by the end of the name, then the extensions of the table
MimeType(path, default, overrides, table) ==
  LET ends(ext) == /\ Len(path) > Len(ext)
                   /\ SameIgnoringCase(SubSeq(path, Len(path) - Len(ext) + 1, Len(path)), ext)
      mine == SelectSeq(overrides, LAMBDA o : ends(o.val))
      known == SelectSeq(table, LAMBDA t : ends(t[1]) /\ path[Len(path) - Len(t[1])] = Dot)
  IN CASE mine # <<>> -> mine[1].eq
       [] mine = <<>> /\ known # <<>> -> known[1][2]
       [] OTHER -> default
-----------------------------------------------------------------------------
(* What these are compared with *)

\* How much of s a pattern without alternatives may take, as a set of lengths
RECURSIVE Lengths(_, _)
Lengths(p, s) ==
  LET longer(n) == {n + m : m \in Lengths(Tail(p), SubSeq(s, n + 1, Len(s)))}
      double == StartsAt(p, <<Star, Star>>, 1)
      after == IF double THEN Tail(Tail(p)) ELSE Tail(p)
      skips == {n \in 0 .. Len(s) : double \/ \A i \in 1 .. n : s[i] # Slash}
  IN IF p = <<>> THEN {0}
     ELSE CASE p[1] = Dollar -> IF s = <<>> THEN {0} ELSE {}
            [] p[1] = Star -> UNION {{n + m : m \in Lengths(after, SubSeq(s, n + 1, Len(s)))} : n \in skips}
            [] p[1] = Question -> IF s = <<>> THEN {} ELSE longer(1)
            [] OTHER -> IF s # <<>> /\ Lower(p[1]) = Lower(s[1]) THEN longer(1) ELSE {}

\* A pattern takes a length it may take, and none only if there is none, of a string of C and of
\* one in the request line, if the character behind that one is none of the pattern's.
PatternsRight ==
  \A p \in SeqOf({97, Star, Question}, 4), end \in {<<>>, <<Dollar>>}, s \in SeqOf({65, 98, Slash}, 3) :
    LET n == MatchPrefix(p \o end, s)
        may == Lengths(p \o end, s)
        other == MatchPrefix(<<98, Bar>> \o p \o end, s)
        inLine(behind) == MatchIn(p \o end, s \o <<behind, 97, Slash>>, Len(s))
    IN /\ n \in may \union {-1} /\ (n = -1 <=> may = {})
       /\ other = IF s # <<>> /\ s[1] = 98 THEN 1 ELSE n
       /\ \A behind \in {Space, Question} \ ToSet(p) : inLine(behind) = n

\* A match takes no more than the string: what follows it in the request line, a question mark
\* and a query here, is not matched (mg_match_prefix_n).
MatchesInside ==
  \A p \in SeqOf({97, Question}, 3), s \in SeqOf({65, Slash}, 2) :
    MatchIn(p, s \o <<Question, 97>>, Len(s)) <= Len(s)

\* A list of networks allows what the last of them that holds the address says.
AclRight ==
  LET ten == <<49, 48, Dot, 48, Dot, 48, Dot, 48, Slash, 56>>
      sixteen == <<49, 48, Dot, 49, 54, Dot, 48, Dot, 48, Slash, 49, 50>>
      one == <<49, 48, Dot, 49, Dot, 50, Dot, 51>>
      list(a, b, c) == <<a>> \o ten \o <<Comma, b>> \o sixteen \o <<Comma, c>> \o one
      yes(flag) == IF flag = 43 THEN 1 ELSE 0
  IN \A a, b, c \in {43, 45}, x \in {9, 10}, y \in {1, 16}, z \in {3, 4} :
       CheckIpAcl(list(a, b, c), <<x, y, 2, z>>) =
         CASE x = 9 -> 0 [] x = 10 /\ y = 16 -> yes(b) [] OTHER -> IF z = 3 THEN yes(c) ELSE yes(a)

\* The most specific endpoint gets the request, of two alike the one registered last, with or
\* without a query; no pattern here goes on with what is behind the URI.
EndpointsRight ==
  LET all == Register(Register(Register(<<>>, <<Slash>>, 1), <<Slash, 97>>, 2), <<Slash, 98, Star>>, 3)
      again == Register(all, <<Slash, 97>>, 4)
  IN \A s \in SeqOf({97, 98, Slash}, 3), query \in {<<>>, <<Question, 97>>} :
       EndpointHandler(again, <<Slash>> \o s \o query \o <<Space>>, Len(s) + 1) =
         CASE s = <<>> -> 1
           [] OTHER -> IF s[1] = 97 THEN 4 ELSE IF s[1] = 98 THEN 3 ELSE 1
-----------------------------------------------------------------------------
(* Addresses of connections: how they are read and written, and the files of the system that
   names are looked up in first. A line of a file is the sequence of its words. *)

NoAddress == [code |-> -1, ip |-> <<0, 0, 0, 0>>, port |-> 0, host |-> <<>>]

\* What sscanf reads of "%u" with separators behind each but the last, from i on: the numbers
\* before something else comes, and the position behind them if they are all there
RECURSIVE Scanned(_, _, _, _)
Scanned(s, i, seps, read) ==
  LET end == CHOOSE k \in i .. Len(s) + 1 : /\ \A j \in i .. k - 1 : s[j] \in Digit
                                            /\ k > Len(s) \/ s[k] \notin Digit
      all == Append(read, Number(SubSeq(s, i, end - 1)))
  IN IF end = i THEN [read |-> read, end |-> i]
     ELSE IF seps = <<>> \/ ~StartsAt(s, <<Head(seps)>>, end) THEN [read |-> all, end |-> end]
     ELSE Scanned(s, end + 1, Tail(seps), all)

\* An address is a number of 32 bits.
Bytes(n) == [i \in 1 .. 4 |-> n[i] % 256]

\* mg_resolve_from_hosts_file: the address of the first line with the name, <<>> if none has it
FromHosts(name, hosts) ==
  LET lines == SelectSeq(hosts, LAMBDA line : name \in ToSet(Tail(line)))
      at(line) == Scanned(line[1], 1, <<Dot, Dot, Dot>>, <<>>).read
      there == SelectSeq(lines, LAMBDA line : Len(at(line)) = 4)
  IN IF there = <<>> THEN <<>> ELSE Bytes(at(there[1]))

\* mg_get_ip_address_of_nameserver, of /etc/resolv.conf
Nameserver(conf) ==
  LET at(line) == Scanned(line[2], 1, <<Dot, Dot, Dot>>, <<>>)
      known == SelectSeq(conf, LAMBDA line : Len(line) > 1 /\ line[1] = "nameserver" /\ Len(at(line).read) = 4)
  IN IF known = <<>> THEN <<>> ELSE at(known[1]).read

Udp == <<117, 100, 112, Colon, Slash, Slash>>
Tcp == <<116, 99, 112, Colon, Slash, Slash>>
Localhost == <<108, 111, 99, 97, 108, 104, 111, 115, 116>>

HostEnd(s) == NextOf(s, {Space, Colon}, 1)

\* mg_parse_address, without IPv6: code is -1 for what is no address, 0 for a name DNS must be
\* asked for, and else how long the address is. A port has 16 bits, and the last is refused.
ParseAddress(str, hosts, room) ==
  LET udp == StartsAt(str, Udp, 1)
      s == IF udp \/ StartsAt(str, Tcp, 1) THEN SubSeq(str, 7, Len(str)) ELSE str
      ip == Scanned(s, 1, <<Dot, Dot, Dot, Colon>>, <<>>)
      name == SubSeq(s, 1, HostEnd(s) - 1)
      behind == Scanned(s, HostEnd(s) + 1, <<>>, <<>>)
      named == /\ Len(s) < room /\ name # <<>>
               /\ StartsAt(s, <<Colon>>, HostEnd(s)) /\ behind.read # <<>>
      alone == Scanned(s, IF StartsAt(s, <<Colon>>, 1) THEN 2 ELSE 1, <<>>, <<>>)
      found == FromHosts(name, hosts)
      local == SameIgnoringCase(SubSeq(name, 1, Min({9, Len(name)})), Localhost)
      result(code, bytes, port, host) ==
        [code |-> code, ip |-> bytes, port |-> port % 65536, host |-> host]
      checked(bytes, port, end, host) ==
        IF port < 65535 /\ (end > Len(s) \/ s[end] \in {Comma, Space})
        THEN result(end - 1, bytes, port, host) ELSE NoAddress
      proto(a) == [a EXCEPT !.host = <<udp, a.host>>]
  IN proto(
     IF Len(ip.read) = 5 THEN checked(Bytes(ip.read), ip.read[5], ip.end, <<>>)
     ELSE IF named
          THEN IF found # <<>> THEN checked(found, behind.read[1], behind.end, name)
               ELSE IF local THEN NoAddress ELSE result(0, <<0, 0, 0, 0>>, behind.read[1], name)
     ELSE IF alone.read # <<>> THEN checked(<<0, 0, 0, 0>>, alone.read[1], alone.end, <<>>)
     ELSE NoAddress)

\* mg_sock_addr_to_str with address and port
RECURSIVE Decimal(_)
Decimal(n) == (IF n < 10 THEN <<>> ELSE Decimal(n \div 10)) \o <<48 + (n % 10)>>
AddrToStr(ip, port) ==
  Decimal(ip[1]) \o <<Dot>> \o Decimal(ip[2]) \o <<Dot>> \o Decimal(ip[3]) \o <<Dot>>
    \o Decimal(ip[4]) \o <<Colon>> \o Decimal(port)

\* An address that is written reads back, but for the last port; a name is the one of the hosts
\* or left to DNS, whatever stands behind the address in a list.
AddressesReadBack ==
  LET hosts == <<<<<<49, 48, Dot, 48, Dot, 48, Dot, 57>>, <<97>>, <<98, 98>>>>,
                 <<<<49, Dot, 49, Dot, 49, Dot, 49>>, <<97>>>>>>
  IN \A port \in {0, 9, 80, 65534, 65535}, schema \in {<<>>, Udp, Tcp}, more \in {<<>>, <<Comma, 97>>} :
       LET of(text) == ParseAddress(schema \o text \o more, hosts, 30)
           gives(text, ip, host) ==
             of(text) = [NoAddress EXCEPT !.code = IF port = 65535 THEN -1 ELSE Len(text),
                           !.ip = IF port = 65535 THEN @ ELSE ip, !.port = IF port = 65535 THEN @ ELSE port,
                           !.host = <<schema = Udp, IF port = 65535 THEN <<>> ELSE host>>]
       IN /\ \A x, y \in {0, 10, 255} : gives(AddrToStr(<<x, y, 1, 200>>, port), <<x, y, 1, 200>>, <<>>)
          /\ \A name \in {<<97>>, <<98, 98>>} : gives(name \o <<Colon>> \o Decimal(port), <<10, 0, 0, 9>>, name)
          /\ gives(Decimal(port), <<0, 0, 0, 0>>, <<>>)
          /\ LET dns == of(<<99, Dot, 99, Colon>> \o Decimal(port))
             IN dns.code = 0 /\ dns.port = port /\ dns.host[2] = <<99, Dot, 99>>
=============================================================================
