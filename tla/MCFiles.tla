------------------------------ MODULE MCFiles -------------------------------
(* Trees and requests for the file server, and pages for it to put together *)
EXTENDS ServeHttp

W == <<119>>
A == <<97>>
B == <<98>>
H == <<46, 104>>

Opts == [rewrites |-> <<>>, root |-> W, davRoot |-> W, authFile |-> <<46, 112>>, hidden |-> H,
         indexFiles |-> Entries(<<98, Comma, 99>>), cgi |-> <<Star, Star, 46, 99, Dollar>>,
         globalAuth |-> <<>>, davAuth |-> <<45>>, domain |-> "", now |-> 5000, listing |-> TRUE,
         acl |-> <<>>, port |-> <<56>>]

Ask(method, uri) ==
  [method |-> method, uri |-> uri, query |-> <<>>, host |-> None, auth |-> [user |-> ""],
   noneMatch |-> None, since |-> None, depth |-> 1, body |-> <<>>, cl |-> TRUE, range |-> <<>>,
   dest |-> None, ip |-> <<1, 2, 3, 4>>]

\* All trees with a root, a directory or file a in it, with what is in that, and a file b
ClosedDir == [DirNode EXCEPT !.open = FALSE]
InA == {<<W, A, A>>, <<W, A, B>>, <<W, A, H>>}
Trees ==
  LET top == <<>> :> DirNode @@ <<W>> :> DirNode
      b == {top, <<W, B>> :> FileNode(<<8>>) @@ top}
      filled(a) == {<<W, A>> :> a @@ f : f \in UNION {[s -> {DirNode, FileNode(<<7>>)}] : s \in SUBSET InA}}
  IN {f @@ t : f \in filled(DirNode) \union filled(ClosedDir)
                       \union {<<W, A>> :> FileNode(<<9>>), <<>>}, t \in b}

Uris == {<<Slash>>, <<Slash, 97>>, <<Slash, 97, Slash>>, <<Slash, 97, Slash, 97>>,
         <<Slash, 97, Slash, 98>>, <<Slash, 97, Slash, 46, 104>>, <<Slash, 98>>,
         <<Slash, 98, Slash, 97>>, <<Slash, 97, Slash, 46, 46, Slash, 98>>,
         <<Slash, 99, Slash, 99>>}

Site == <<120, Colon, Slash, Slash, 104>>

Requests ==
  {[Ask(m, u) EXCEPT !.cl = cl] : m \in {"GET", "DELETE", "MKCOL", "PROPFIND"}, u \in Uris, cl \in {TRUE}}
    \union {[Ask("PUT", u) EXCEPT !.body = <<5>>, !.cl = cl] : u \in Uris, cl \in BOOLEAN}
    \union {[Ask("MOVE", u) EXCEPT !.dest = Site \o to] : u \in Uris,
              to \in {<<Slash, 98>>, <<Slash, 97, Slash, 97>>, <<Slash, 99, Slash, 97>>}}

FilesAsAsked == \A t \in Trees, hm \in Requests : AsAsked(t, Opts, hm, <<W>>)

\* A URI is looked up, decoded, below the root of the first rule that holds for its host or its
\* first names, and below the document root if none does. No pattern here ends inside a name.
RootsChosen ==
  LET rule(key, root) == [val |-> key, eq |-> root]
      rules == <<rule(<<At, 104>>, <<120>>), rule(<<Slash, 97, Slash>>, <<121>>), rule(<<Slash, 98>>, <<122>>)>>
      path(uri, host) == LocalPath(<<>> :> DirNode, [Opts EXCEPT !.rewrites = rules],
                                   Normalized([Ask("GET", uri) EXCEPT !.host = host])).path
      root(names, host) == CASE host = <<72>> -> <<<<120>>>>
                             [] host # <<72>> /\ names[1] = A -> <<<<121>>>>
                             [] host # <<72>> /\ names[1] = B -> <<<<122>>>>
                             [] OTHER -> <<W>>
  IN \A names \in {<<x, y>> : x, y \in {A, B, <<99, 32>>}}, host \in {None, <<72>>} :
       path(FoldLeft(LAMBDA out, n : out \o <<Slash>> \o UrlEncode(n, 20), <<>>, names), host) =
         root(names, host) \o (IF host # <<72>> /\ names[1] \in {A, B} THEN Tail(names) ELSE names)

\* A file for those who have a password, and what is answered to a request for it
Guarded == <<>> :> DirNode @@ <<W>> :> DirNode @@ <<W, A>> :> FileNode(<<7>>)
             @@ <<W, Opts.authFile>> :> FileNode(<<[user |-> "u", domain |-> "e", ha1 |-> 3],
                                                   [user |-> "v", domain |-> "d", ha1 |-> 1],
                                                   [user |-> "u", domain |-> "d", ha1 |-> 2]>>)
Code(domain, hm) == Serve(Guarded, [Opts EXCEPT !.domain = domain], hm).code

\* Who has the password of an entry of the domain gets the file, for the method, URI and query
\* the header was made for, and for an hour if its nonce is in hexadecimal; nobody else does. A
\* URI with dots is the one they leave.
LoginRight ==
  LET get(uri, query) == [Ask("GET", uri) EXCEPT !.query = query]
      asked == {get(<<Slash, 97>>, query) : query \in {<<>>, <<Question>>, <<Question, 98>>}}
                 \union {get(<<Slash, 98, Slash, Dot, Dot, Slash, 97>>, <<>>)}
      signed(hm) == <<Slash, 97>> \o (IF hm.query = <<Question>> THEN <<>> ELSE hm.query)
  IN \A hm \in asked :
       /\ Code("", hm) = 200 /\ Code("d", hm) = 401
       /\ \A user \in {"u", "v", "w"}, ha1 \in 1 .. 3, method \in {"GET", "POST"},
             uri \in {hm.uri \o hm.query} \union {signed(h) : h \in asked}, now \in {1400, 1401, 5000} :
            Code("d", [hm EXCEPT !.auth = DigestHeader(method, uri, user, ha1, now)]) =
              IF /\ <<user, ha1>> \in {<<"u", 2>>, <<"v", 1>>} /\ now > 1400
                 /\ method = "GET" /\ uri = signed(hm)
              THEN 200 ELSE 401

\* An answer to a challenge of the server is good for an hour and no longer
\* (mg_http_send_digest_auth_request, mg_check_nonce).
ChallengesExpire ==
  \A then \in {1400, 1401, 5000} :
    LET auth == Response("GET", <<Slash, 97>>, "u", 2, Challenge(then))
    IN Code("d", [Ask("GET", <<Slash, 97>>) EXCEPT !.auth = auth]) = IF then > 1400 THEN 200 ELSE 401

\* A file is sent again if it has changed since it was asked for last: dates are in order, and
\* a day is a day, but for two: the leap day is counted from the first day of its year on.
Length(month, year) == IF month \in {4, 6, 9, 11} THEN 30
                       ELSE IF month # 2 THEN 31
                       ELSE IF year % 4 = 0 /\ (year % 100 # 0 \/ year % 400 = 0) THEN 29 ELSE 28
Years == {1971, 1972, 1999, 2000, 2023, 2024, 2037}
SecondsOf(month, year) ==
  ParseDate(1, IF month = 12 THEN 1 ELSE month + 1, IF month = 12 THEN year + 1 ELSE year, 0)
    - ParseDate(1, month, year, 0)
DatesRight ==
  \A year \in Years, month \in 1 .. 12 :
    LET leap == Length(2, year) = 29
        late == CASE month = 12 /\ Length(2, year + 1) = 29 -> 1 [] leap /\ month = 2 -> -1 [] OTHER -> 0
    IN /\ SecondsOf(month, year) = 86400 * (Length(month, year) + late)
       /\ ParseDate(Length(month, year), month, year, 86399) >= ParseDate(1, month, year, 0)

\* Every month has as many seconds as its days have (mg_parse_date_string).
MonthsCounted ==
  \A year \in Years, month \in 1 .. 12 : SecondsOf(month, year) = 86400 * Length(month, year)
-----------------------------------------------------------------------------
(* Pages put together from pieces, and what is to be sent for them *)
Server(pages) == INSTANCE Ssi WITH Pages <- pages, Raw <- {2}, BufSize <- 12, MaxLevel <- 2

Directive(word) == <<60, 33, 45, 45, 35, word, 32, 45, 45, 62>>
Comment == <<60, 33, 45, 45, 32, 45, 45, 62>>

\* Text, comments, directives and what only looks like one
Text == {<<97>>, <<60, 97, 98, 97, 98, 97>>, <<45, 45, 62>>,
         <<60, 33, 45, 45, 35, 97, 60, 98, 97, 98, 97, 98>>, Comment, [i \in 1 .. 13 |-> 98]}
Named == {1001, 1002, 1003, 1004, 2005, 2500}
Pieces == Text \union {Directive(word) : word \in Named}

Inner == <<<<99>>, Directive(2007)>>
Raw == <<60, 33, 45, 45, 35, 97, 45, 45, 62>>

\* What a page of pieces is to look like, each directive replaced by what it stands for
RECURSIVE AsSent(_, _)
AsSent(pieces, level) ==
  LET value(p) == CASE p \in Text -> p
                    [] p = Directive(1001) -> IF level = 2 THEN <<3000>> ELSE AsSent(pieces, level + 1)
                    [] p = Directive(1002) -> Raw
                    [] p = Directive(1003) -> IF level = 2 THEN <<3000>> ELSE <<99, 6007>>
                    [] p = Directive(1004) -> <<4004>>
                    [] p = Directive(2005) -> <<6005>>
                    [] OTHER -> <<6500>>
  IN FoldLeft(LAMBDA out, p : out \o value(p), <<>>, pieces)

Once(pieces) == Cardinality({i \in DOMAIN pieces : pieces[i] = Directive(1001)}) <= 1

\* Every directive of a page is replaced by what it stands for and everything else is sent as
\* it is, however deep pages include each other. No comment here ends within five characters:
\* such a one is taken for a directive, with what the buffer held before as its words.
PagesAssembled ==
  \A pieces \in {s \in SeqOf(Pieces, 3) : Once(s)} :
    LET pages == <<FlattenSeq(pieces), Raw, FlattenSeq(Inner)>>
    IN Server(pages)!Page(1, 0) = AsSent(pieces, 0)
=============================================================================
