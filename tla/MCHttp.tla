------------------------------- MODULE MCHttp -------------------------------
(* Scripts for the HTTP server, one for each way it treats a request *)
EXTENDS HttpServer

NoHead == [method |-> "GET", cl |-> -1, type |-> "plain", do |-> "reply", file |-> 0,
           range |-> <<>>, keep |-> TRUE, error |-> "", boundary |-> TRUE, starts |-> TRUE]

MCHeads == 1001 :> NoHead
        @@ 1002 :> [NoHead EXCEPT !.method = "POST", !.cl = 2]
        @@ 1003 :> [NoHead EXCEPT !.method = "POST", !.type = "chunked"]
        @@ 1004 :> [NoHead EXCEPT !.do = "file", !.file = 501]
        @@ 1005 :> [NoHead EXCEPT !.do = "file", !.file = 501, !.range = <<1, 1>>]
        @@ 1006 :> [NoHead EXCEPT !.do = "file", !.file = 501, !.range = <<3>>, !.keep = FALSE]
        @@ 1007 :> [NoHead EXCEPT !.do = "file", !.file = 501, !.range = <<4, 9>>]
        @@ 1008 :> [NoHead EXCEPT !.do = "file", !.file = 509]
        @@ 1009 :> [NoHead EXCEPT !.method = "PUT", !.cl = 2, !.do = "put", !.file = 502]
        @@ 1010 :> [NoHead EXCEPT !.method = "POST", !.type = "multipart"]
        @@ 1011 :> [NoHead EXCEPT !.method = "POST", !.type = "multipart", !.do = "upload"]
        @@ 1012 :> [NoHead EXCEPT !.type = "websocket"]
        @@ 1013 :> [NoHead EXCEPT !.method = "POST", !.cl = 1, !.do = "proxy"]
        @@ 1014 :> [NoHead EXCEPT !.do = "cgi"]
        @@ 1015 :> [NoHead EXCEPT !.method = "POST", !.cl = 1, !.do = "cgi"]
        @@ 1016 :> [NoHead EXCEPT !.do = "file", !.file = 501, !.error = "EACCES"]
        @@ 1017 :> [NoHead EXCEPT !.do = "file", !.file = 501, !.error = "EMFILE"]
        @@ 1018 :> [NoHead EXCEPT !.method = "PUT", !.do = "put", !.file = 502]
        @@ 1019 :> [NoHead EXCEPT !.method = "PUT", !.cl = 1, !.do = "put", !.file = 0]
        @@ 1020 :> [NoHead EXCEPT !.method = "PUT", !.cl = 1, !.do = "put", !.file = 304]
        @@ 1021 :> [NoHead EXCEPT !.method = "PUT", !.cl = 2, !.do = "put", !.file = 501,
                                  !.range = <<1, 2>>]
        @@ 1022 :> [NoHead EXCEPT !.method = "PUT", !.cl = 2, !.do = "put", !.file = 502,
                                  !.range = <<1>>]
        @@ 1023 :> [NoHead EXCEPT !.method = "PUT", !.cl = 4, !.do = "put", !.file = 502]
        @@ 1024 :> [NoHead EXCEPT !.method = "POST", !.type = "multipart", !.boundary = FALSE]
        @@ 1025 :> [NoHead EXCEPT !.do = "proxy", !.starts = FALSE]
        @@ 1026 :> [NoHead EXCEPT !.do = "cgi", !.starts = FALSE]

MCBoundary == <<91, 92>>
MCNames == {301, 302, 303, 304}
MCRefused == {303}
MCUnwritable == {304}
MCDisk == 501 :> <<1, 2, 3, 4, 5>>
MCMask == <<17, 2, 3, 4>>
MCReplies == {Reply(200, <<7>>), <<ReplyHead(200, 99), Blank, 7>>, <<>>}
CgiHead == 3000
MCCgiOutputs == {<<CgiHead, Blank, 7>>, <<CgiHead>>, <<NotPrintable>>, <<>>}

Ask(h, body) == <<h, Blank>> \o body
Dashes == <<Dash, Dash>>
Part(name, data) == Dashes \o MCBoundary \o <<CR, LF, name, CR, LF, CR, LF>> \o data \o <<CR, LF>>
LastLine == Dashes \o MCBoundary \o Dashes \o <<CR, LF>>

Event(ev, name, data) == [ev |-> ev, name |-> name, data |-> data]
PartEvents(name, data) == <<Event("PART_BEGIN", name, <<>>), Event("PART_DATA", name, data),
                            Event("PART_END", name, <<>>)>>
MultipartEvents(parts) == <<Event("MULTIPART_REQUEST", 0, <<>>)>> \o parts
                            \o <<Event("MULTIPART_REQUEST_END", 0, <<>>)>>

\* stores: the files the messages store, as pairs of name and data; short: the client may
\* hang up in the middle of a message; waits: the last message ends with the connection; io: what
\* comes of a file too big for the disk; moves, stale: when realloc moves the buffer and what the
\* block it was in holds then
Script(messages, answers, events) == [messages |-> messages, answers |-> answers,
                                      events |-> events, stores |-> {}, short |-> TRUE,
                                      waits |-> FALSE, io |-> "full", moves |-> {}, stale |-> 0]

Asked(h, body, answer) == Script(<<Ask(h, body)>>, <<{answer}>>,
                                 <<Event("HTTP_REQUEST", h, body)>>)

\* One script after the other on the same connection
Then(a, b) == Script(a.messages \o b.messages, a.answers \o b.answers, a.events \o b.events)

Plain == Then(Asked(1001, <<>>, Reply(200, <<>>)), Asked(1002, <<5, 6>>, Reply(200, <<5, 6>>)))

Bad == Script(<<<<1001, NotPrintable>>>>, <<{}>>, <<>>)
Endless == Script(<<[i \in 1 .. MaxRequest |-> 1001]>>, <<{}>>, <<>>)

Chunked == Script(<<<<1003, Blank>> \o Chunk(<<1, 2>>) \o Chunk(<<3>>) \o Chunk(<<>>)>>,
                  <<{Reply(200, <<1, 2, 3>>)}>>, <<Event("HTTP_REQUEST", 1003, <<1, 2, 3>>)>>)

Ranged(code, data) == <<ReplyHead(code, Len(data)), Blank>> \o data
Files == Then(Asked(1004, <<>>, Ranged(200, <<1, 2, 3, 4, 5>>)),
              Then(Asked(1005, <<>>, Ranged(206, <<2>>)),
                   Asked(1006, <<>>, Ranged(206, <<4, 5>>))))
NoFiles == Then(Asked(1007, <<>>, Ranged(416, <<>>)), Asked(1008, <<>>, Reply(404, <<0>>)))
Refusals == {Asked(1016, <<>>, Reply(403, <<0>>)), Asked(1017, <<>>, Reply(500, <<0>>)),
             Asked(1019, <<1>>, Reply(500, <<0>>)), Asked(1020, <<1>>, Reply(500, <<0>>)),
             Asked(1025, <<>>, Reply(502, <<0>>)), Asked(1026, <<>>, Reply(500, <<0>>))}

Stores(h, data, code, name, whole) ==
  [Asked(h, data, Reply(code, <<>>)) EXCEPT !.stores = {<<name, whole>>}]
Big == Stores(1023, <<5, 6, 7, 8>>, 201, 502, <<5, 6, 7, 8>>)

\* A range that does not say its end stores less than the body.
Store == {Stores(1009, <<5, 6>>, 201, 502, <<5, 6>>), Stores(1021, <<5, 6>>, 206, 501, <<0, 5, 6>>),
          Stores(1022, <<5, 6>>, 206, 502, <<0, 5>>), Big, [Big EXCEPT !.io = "late"]}

Unsized == [Script(<<Ask(1018, <<5>>)>>, <<{}>>, <<>>) EXCEPT !.waits = TRUE]
NoBoundary == Script(<<Ask(1024, <<>>)>>, <<{}>>, <<>>)

Multipart(h, parts, answer) ==
  Script(<<Ask(h, FlattenSeq([i \in DOMAIN parts |-> Part(parts[i][1], parts[i][2])])
                    \o LastLine)>>, <<{answer}>>,
         MultipartEvents(FlattenSeq([i \in DOMAIN parts |->
                                       PartEvents(parts[i][1], parts[i][2])])))
Parts == Then(Multipart(1010, <<<<301, <<1, 2, 3, 4, 5, 6, 7, 8, CR, LF, Dash, Dash, 91>>>>,
                                <<302, <<>>>>>>,
                        Reply(200, <<>>)),
              Asked(1001, <<>>, Reply(200, <<>>)))

Upload(name, data, code) ==
  Multipart(1011, <<<<name, data>>>>, <<ReplyHead(code, 99), Blank, name>>)
Lost == [Upload(302, <<1, 2, 3, 4>>, 200) EXCEPT !.io = "late", !.stores = {<<302, <<1, 2, 3, 4>>>>}]
Uploads == {[Upload(301, <<1, 2>>, 200) EXCEPT !.stores = {<<301, <<1, 2>>>>}], Lost,
            Upload(302, <<1, 2, 3, 4>>, 413), [Upload(302, <<1, 2, 3, 4>>, 500) EXCEPT !.io = "error"],
            Upload(303, <<1>>, 403), Upload(304, <<1>>, 500)}

Framing == [Script(<<Ask(1012, <<>>),
                    Frame(Text, FALSE, <<3>>, MCMask) \o Frame(0, TRUE, <<4, 5>>, MCMask),
                    Frame(PingOp, TRUE, <<>>, MCMask) \o Frame(Text, TRUE, <<6>>, MCMask),
                    Frame(Close, TRUE, <<>>, MCMask)>>,
                  <<{Reply(101, <<>>)}, {Frame(Text, TRUE, <<3, 4, 5>>, <<>>)},
                    {Frame(Text, TRUE, <<6>>, <<>>)}, {Frame(Close, TRUE, <<>>, <<>>)}>>,
                  <<Event("FRAME", 0, <<3, 4, 5>>), Event("CONTROL_FRAME", PingOp, <<>>),
                    Event("FRAME", Text, <<6>>), Event("CONTROL_FRAME", Close, <<>>)>>)
            EXCEPT !.short = FALSE]
Moving == {[Framing EXCEPT !.moves = {1}, !.stale = x] : x \in {0, Close}}

Proxied == [Asked(1013, <<5>>, <<>>) EXCEPT
              !.answers = <<(MCReplies \ {<<>>}) \union {Reply(502, <<0>>)}>>]

ByCgi(h, body) == [Asked(h, body, <<>>) EXCEPT
                     !.answers = <<{<<ReplyHead(200, 99), CgiHead, Blank, 7>>,
                                    Reply(500, <<0>>)}>>]

\* A line for the type of the file, as a browser sends it
Typed == [Upload(301, <<1, 2>>, 200) EXCEPT
            !.messages[1] = InsertAt(InsertAt(InsertAt(@, 12, LF), 12, CR), 12, 400)]

MCScripts == {Plain, Bad, Endless, Chunked, Files, NoFiles, Unsized, NoBoundary, Parts, Typed,
              Framing, Proxied, ByCgi(1014, <<>>), ByCgi(1015, <<5>>)}
             \union Refusals \union Store \union Uploads \union Moving

\* Two chunked requests, one after the other
Again == Then(Chunked, Script(<<<<1003, Blank>> \o Chunk(<<>>)>>, <<{Reply(200, <<>>)}>>,
                              <<Event("HTTP_REQUEST", 1003, <<>>)>>))
AgainScripts == {Again}
-----------------------------------------------------------------------------
(* The rules of texts, files and pages that the requests are answered by *)
Coded == INSTANCE Digest WITH BlockSize <- 4, LengthSize <- 2
Matched == INSTANCE Patterns
Stored == INSTANCE MCFiles

\* Room for few bytes, and for few variables
VarSize(name, value) == 6 + Len(value)
CgiBytes == INSTANCE CgiEnv WITH BufSize <- 80, MaxVars <- 20, Size <- VarSize
CgiVars == INSTANCE CgiEnv WITH BufSize <- 300, MaxVars <- 12, Size <- VarSize

\* Paths resolve as RFC 3986 has it (mg_normalize_uri_path); what is put together or encoded is
\* taken apart into the same parts (mg_parse_uri, mg_url_decode, mg_http_parse_header, base64,
\* the blocks of MD5 and SHA1, mg_parse_address, the environment of a CGI program), in whatever
\* pieces it comes; and patterns, lists of networks and endpoints match what they may match
\* (mg_match_prefix_n, mg_check_ip_acl).
TextsReadBack ==
  sent = 0 /\ script = Bad =>
    /\ Coded!PathsResolved(5) /\ Coded!UrisTakenApart /\ Coded!EscapesReadBack
    /\ Coded!Base64ReadsBack /\ Coded!BlocksRight(9)
    /\ Matched!AddressesReadBack /\ CgiBytes!ProgramsTold /\ CgiVars!ProgramsTold
    /\ Matched!PatternsRight /\ Matched!AclRight /\ Matched!EndpointsRight

\* A match takes no more than the string it was given the length of: what follows the URI in the
\* request line is not matched (mg_match_prefix_n).
MatchesInside == sent = 0 => Matched!MatchesInside

\* An answer to a request for a file is true: a PUT, DELETE, MKCOL or MOVE that is answered with
\* success has done what it asks and nothing else, one that is not has changed nothing, and the
\* next request finds what was left; only of a directory a DELETE that is answered with success
\* may have left what is hidden or locked. The file is the one below the root the rules choose,
\* for whoever may have it, and is sent again if it has changed, as the dates are read, with the
\* leap day counted from the first of January (mg_serve_http).
FilesAsAsked ==
  sent = 0 /\ script = Bad =>
    /\ Stored!FilesAsAsked /\ Stored!RootsChosen /\ Stored!LoginRight /\ Stored!DatesRight

\* A login that answers a challenge of the server is good for an hour and no longer: the nonce is
\* a time that must not be too old (mg_check_nonce).
ChallengesExpire == sent = 0 => Stored!ChallengesExpire

\* A date is read as the time it stands for: every month has the seconds of its days
\* (mg_parse_date_string).
MonthsCounted == sent = 0 => Stored!MonthsCounted

\* Every directive of a page with server side includes is replaced by what it stands for, and
\* everything else is sent as it is (mg_send_ssi_file).
PagesAssembled == sent = 0 /\ script = Bad => Stored!PagesAssembled
=============================================================================
