-------------------------------- MODULE Uri --------------------------------
(* URIs and their parts, as mongoose takes them apart. A character is its code. *)
EXTENDS Integers, Sequences, SequencesExt, FiniteSetsExt

Slash == 47
Dot == 46
Colon == 58
At == 64
Percent == 37
Amp == 38
Eq == 61
Question == 63
Hash == 35
Quote == 34
Backslash == 92
Comma == 44
Semicolon == 59
Space == 32

Failed == <<-1>>

Digit == 48 .. 57
Lower(ch) == IF ch \in 65 .. 90 THEN ch + 32 ELSE ch
IsHex(ch) == ch \in Digit \/ Lower(ch) \in 97 .. 102
IsAlnum(ch) == ch \in Digit \/ Lower(ch) \in 97 .. 122

\* Where one of the characters is next, at i or behind it; behind the end if nowhere
NextOf(s, chars, i) ==
  LET at == {k \in i .. Len(s) : s[k] \in chars} IN IF at = {} THEN Len(s) + 1 ELSE Min(at)

StartsAt(s, word, i) == /\ i + Len(word) - 1 <= Len(s)
                        /\ SubSeq(s, i, i + Len(word) - 1) = word

SameIgnoringCase(s, t) == /\ Len(s) = Len(t)
                          /\ \A i \in DOMAIN s : Lower(s[i]) = Lower(t[i])

\* parse_uri_component: the text up to a separator, and the position behind that
Component(s, i, sep) ==
  LET end == NextOf(s, {sep}, i)
  IN [text |-> SubSeq(s, i, end - 1), next |-> Min({end + 1, Len(s) + 1})]
-----------------------------------------------------------------------------
(* mg_normalize_uri_path *)

\* Mutant: the slash the output ends with is where the way back stops.
Backtracked_AtSlash(out) ==
  SubSeq(out, 1, Max({0} \union {k \in DOMAIN out : out[k] = Slash}))

\* Back to the slash before the last component
Backtracked(out) ==
  LET d == IF Len(out) > 1 /\ Last(out) = Slash THEN Len(out) - 1 ELSE Len(out)
  IN SubSeq(out, 1, Max({0} \union {k \in 1 .. d : out[k] = Slash}))

\* The first n characters of a line are resolved from i on, in place, behind the d that are. What
\* is no longer needed behind them stays as it was last written.
RECURSIVE Resolved(_, _, _, _)
Resolved(line, n, i, d) ==
  LET c == Component(SubSeq(line, 1, n), i, Slash)
      piece == SubSeq(line, i, c.next - 1)
      moved == [k \in DOMAIN line |-> IF k - d \in DOMAIN piece THEN piece[k - d] ELSE line[k]]
  IN IF i > n THEN IF d = 0 THEN [line |-> [line EXCEPT ![1] = Slash], n |-> 1]
                   ELSE [line |-> line, n |-> d]
     ELSE CASE c.text = <<Dot>> -> Resolved(line, n, c.next, d)
            [] c.text = <<Dot, Dot>> -> Resolved(line, n, c.next, Len(Backtracked(SubSeq(line, 1, d))))
            [] OTHER -> Resolved(moved, n, c.next, d + Len(piece))

\* The line and the length of the path in it, 0 if it is none
NormalizeIn(line, n) ==
  IF n = 0 \/ line[1] # Slash THEN [line |-> line, n |-> 0] ELSE Resolved(line, n, 1, 0)

Normalize(u) == LET r == NormalizeIn(u, Len(u)) IN IF r.n = 0 THEN Failed ELSE SubSeq(r.line, 1, r.n)
-----------------------------------------------------------------------------
(* mg_parse_uri *)

NoUri == [scheme |-> <<>>, user |-> <<>>, host |-> <<>>, port |-> 0, path |-> <<>>,
          query |-> <<>>, fragment |-> <<>>]

\* P_REST, at a slash
Rest(u, i, parts) ==
  LET path == Component(u, i, Question)
      query == Component(u, path.next, Hash)
      fragment == Component(u, query.next, 0)
  IN IF i > Len(u) THEN parts
     ELSE [parts EXCEPT !.path = path.text, !.query = query.text, !.fragment = fragment.text]

\* P_PORT, at a colon
Port(u, i, parts) ==
  LET end == NextOf(u, {Slash}, i + 1)
  IN Rest(u, end, [parts EXCEPT !.port = FoldLeft(LAMBDA n, ch : 10 * n + ch - 48, 0,
                                                  SubSeq(u, i + 1, end - 1))])

Behind(u, i, parts) == IF i <= Len(u) /\ u[i] = Colon THEN Port(u, i, parts) ELSE Rest(u, i, parts)

\* P_HOST
Host(u, i, parts) ==
  LET end == NextOf(u, {Colon, Slash}, i)
  IN Behind(u, end, [parts EXCEPT !.host = SubSeq(u, i, end - 1)])

\* P_USER_INFO; without an @ it is the host that comes here.
UserInfo(u, i, parts) ==
  LET end == NextOf(u, {At, Slash}, i)
  IN IF end <= Len(u) /\ u[end] = At
     THEN Host(u, end + 1, [parts EXCEPT !.user = SubSeq(u, i, end - 1)])
     ELSE Host(u, i, parts)

\* P_START and P_SCHEME_OR_PORT
ParseUri(u) ==
  LET end == NextOf(u, {Colon, Slash}, 1)
      before == SubSeq(u, 1, end - 1)
  IN IF StartsAt(u, <<Colon, Slash, Slash>>, end)
     THEN UserInfo(u, end + 3, [NoUri EXCEPT !.scheme = before])
     ELSE Behind(u, end, [NoUri EXCEPT !.host = before])
-----------------------------------------------------------------------------
(* Escapes and parameters *)

HexToI(ch) == IF ch \in Digit THEN ch - 48 ELSE Lower(ch) - 87

Unescape(s, i) == 16 * HexToI(s[i + 1]) + HexToI(s[i + 2])

Escaped(s, i) == i + 2 <= Len(s) /\ IsHex(s[i + 1]) /\ IsHex(s[i + 2])

\* mg_url_decode into room characters, the terminator included
RECURSIVE Decoded(_, _, _, _)
Decoded(s, i, room, form) ==
  IF i > Len(s) THEN <<>>
  ELSE IF room <= 1 \/ (s[i] = Percent /\ ~Escaped(s, i)) THEN Failed
  ELSE LET rest == Decoded(s, IF s[i] = Percent THEN i + 3 ELSE i + 1, room - 1, form)
           ch == CASE s[i] = Percent -> Unescape(s, i)
                   [] form /\ s[i] = 43 -> Space
                   [] OTHER -> s[i]
       IN IF rest = Failed THEN Failed ELSE <<ch>> \o rest

UrlDecode(s, room, form) == Decoded(s, 1, room, form)

DontEscape == {46, 95, 45, 36, 44, 59, 126, 40, 41, 47}
Hex(n) == IF n < 10 THEN 48 + n ELSE 87 + n
Escape(ch) == IF IsAlnum(ch) \/ ch \in DontEscape THEN <<ch>>
              ELSE <<Percent, Hex(ch \div 16), Hex(ch % 16)>>

\* mg_url_encode; what has no room is left out.
UrlEncode(s, room) ==
  FoldLeft(LAMBDA out, ch : LET e == Escape(ch) IN
             IF Len(out) + 2 >= room - 1 \/ (Len(e) = 3 /\ Len(out) + 3 >= room) THEN out
             ELSE out \o e,
           <<>>, s)

\* mg_get_http_var: the value, Failed if it is not there, <<-2>> if it does not fit
HttpVar(buf, name, room) ==
  LET n == Len(name)
      at == {p \in 1 .. Len(buf) - n : /\ p = 1 \/ buf[p - 1] = Amp
                                       /\ buf[p + n] = Eq
                                       /\ SameIgnoringCase(SubSeq(buf, p, p + n - 1), name)}
      from == Min(at) + n + 1
      value == UrlDecode(SubSeq(buf, from, NextOf(buf, {Amp}, from) - 1), room, TRUE)
  IN CASE room = 0 -> <<-2>> [] room > 0 /\ at = {} -> Failed
       [] OTHER -> IF value = Failed THEN <<-2>> ELSE value

\* The characters of a value up to its end, and where that is
RECURSIVE Taken(_, _, _, _, _)
Taken(h, i, ends, room, quote) ==
  IF i > Len(h) \/ h[i] \in ends \/ room = 0 THEN [text |-> <<>>, end |-> i, room |-> room]
  ELSE LET at == IF quote # Space /\ StartsAt(h, <<Backslash, quote>>, i) THEN i + 1 ELSE i
           rest == Taken(h, at + 1, ends, room - 1, quote)
       IN [rest EXCEPT !.text = <<h[at]>> \o @]

\* mg_http_parse_header: the value of a parameter, empty if it is not there or does not fit.
\* A comma or semicolon at its end is cut off, by its place in the header.
ParseHeader(h, name, room) ==
  LET n == Len(name)
      at == {p \in 1 .. Len(h) - n : /\ p = 1 \/ h[p - 1] \in {Space, Comma, Semicolon}
                                     /\ h[p + n] = Eq /\ SubSeq(h, p, p + n - 1) = name}
      from == Min(at) + n + 1
      quoted == h[from] \in {Quote, 39}
      start == IF quoted THEN from + 1 ELSE from
      quote == IF quoted THEN h[from] ELSE Space
      v == Taken(h, start, IF quoted THEN {quote} ELSE {Space, Comma}, room, quote)
      closed == ~quoted \/ (v.end <= Len(h) /\ h[v.end] = quote)
      cut(t, ch) == IF t # <<>> /\ h[start + Len(t) - 1] = ch THEN SubSeq(t, 1, Len(t) - 1) ELSE t
  IN IF at = {} \/ from > Len(h) THEN <<>>
     ELSE IF v.room = 0 \/ ~closed THEN <<>>
     ELSE cut(cut(v.text, Comma), Semicolon)
-----------------------------------------------------------------------------
(* mg_http_common_url_parse, without TLS: what is before the first slash is the address, with
   the name and password of the user in front of an @. *)

UrlParse(url, schema) ==
  LET u == IF StartsAt(url, schema, 1) THEN SubSeq(url, Len(schema) + 1, Len(url)) ELSE url
      end == NextOf(u, {Slash}, 1)
      a == SubSeq(u, 1, end - 1)
      ats == {k \in DOMAIN a : a[k] = At}
      auth == IF ats = {} THEN 0 ELSE Max(ats)
      colons(i, j) == {k \in i .. j : a[k] = Colon}
      port == colons(auth + 1, Len(a))
      before == IF auth = 0 THEN {}
                ELSE colons(Max({0} \union {k \in ats : k < auth}) + 1, auth - 1)
      addr == IF port = {} THEN a \o <<Colon, 56, 48>> ELSE a
  IN IF a = <<>> THEN Failed
     ELSE [addr |-> SubSeq(addr, auth + 1, Len(addr)),
           path |-> IF end > Len(u) THEN <<Slash>> ELSE SubSeq(u, end, Len(u)),
           user |-> IF auth = 0 THEN Failed
                    ELSE IF before = {} THEN <<-2>> ELSE SubSeq(a, 1, Max(before) - 1),
           pass |-> IF auth = 0 \/ before = {} THEN Failed ELSE SubSeq(a, Max(before) + 1, auth - 1),
           port_i |-> IF port = {} THEN Len(a) ELSE -1]
-----------------------------------------------------------------------------
(* What these are compared with *)

\* RFC 3986, remove_dot_segments, on the segments between the slashes
RECURSIVE Segments(_, _)
Segments(u, i) == IF i > Len(u) + 1 THEN <<>>
                  ELSE LET end == NextOf(u, {Slash}, i)
                       IN <<SubSeq(u, i, end - 1)>> \o Segments(u, end + 1)

DotsRemoved(segments) ==
  LET n == Len(segments)
      step(stack, i) ==
        LET popped == IF segments[i] = <<Dot, Dot>> /\ stack # <<>> THEN Front(stack) ELSE stack
        IN IF segments[i] \notin {<<Dot>>, <<Dot, Dot>>} THEN Append(stack, segments[i])
           ELSE IF i = n THEN Append(popped, <<>>) ELSE popped
  IN FoldLeft(step, <<>>, [i \in 1 .. n |-> i])

Joined(segments) == FoldLeft(LAMBDA out, s : out \o <<Slash>> \o s, <<>>, segments)

\* Every path of up to n characters resolves as RFC 3986 has it, and is resolved then.
PathsResolved(n) ==
  \A s \in SeqOf({Slash, Dot, 97}, n) :
    LET u == <<Slash>> \o s IN
    /\ Normalize(u) = Joined(DotsRemoved(Tail(Segments(u, 1))))
    /\ Normalize(Normalize(u)) = Normalize(u)

Words == {<<97>>, <<97, 98>>, <<104, 49>>}
Assembled(scheme, user, host, port, path, query) ==
  scheme \o <<Colon, Slash, Slash>> \o (IF user = <<>> THEN <<>> ELSE user \o <<At>>) \o host
    \o (IF port = 0 THEN <<>> ELSE <<Colon, 56, 48 + port>>) \o <<Slash>> \o path
    \o (IF query = <<>> THEN <<>> ELSE <<Question>> \o query)

\* A URI put together is taken apart into the same parts, and so is the URL of a connection.
UrisTakenApart ==
  \A scheme, host \in Words, user, path, query \in Words \union {<<>>}, port \in {0, 1} :
    LET u == Assembled(scheme, user, host, port, path, query)
        url == UrlParse(Assembled(scheme, user \o <<Colon>> \o user, host, port, path, query),
                        scheme \o <<Colon, Slash, Slash>>)
        number == IF port = 0 THEN 0 ELSE 80 + port
    IN /\ ParseUri(u) = [scheme |-> scheme, user |-> user, host |-> host, port |-> number,
                         path |-> <<Slash>> \o path, query |-> query, fragment |-> <<>>]
       /\ url.addr = host \o (IF port = 0 THEN <<Colon, 56, 48>> ELSE <<Colon, 56, 48 + port>>)
       /\ url.user = user /\ url.pass = user

Characters == {97, 65, Slash, Percent, Amp, Eq, Quote, Space, 43, 200}

\* What is escaped reads back, as a path, as a variable of a form among others, and between
\* quotes with backslashes.
EscapesReadBack ==
  \A s \in SeqOf(Characters, 3) :
    LET e == UrlEncode(s, 20)
        form == FoldLeft(LAMBDA out, ch : out \o (IF ch = 43 THEN <<Percent, 50, 98>> ELSE Escape(ch)),
                         <<>>, s)
        quoted == FoldLeft(LAMBDA out, ch : out \o (IF ch = Quote THEN <<Backslash, ch>> ELSE <<ch>>),
                           <<>>, s)
    IN /\ UrlDecode(e, 20, FALSE) = s
       /\ HttpVar(<<98, Eq, 97, Amp, 97, Eq>> \o form \o <<Amp, 97, Eq, 98>>, <<65>>, 20) = s
       /\ ParseHeader(<<98, Eq, 49, Comma, Space, 97, Eq, Quote>> \o quoted \o <<Quote, Comma, 99>>,
                      <<97>>, 20) = s
=============================================================================
