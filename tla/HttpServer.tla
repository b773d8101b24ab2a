----------------------------- MODULE HttpServer -----------------------------
(***************************************************************************)
(* A connection of mongoose's HTTP server (http.c) with its client: the    *)
(* protocol handler that frames requests out of what arrives and hands     *)
(* them to the application, and what the application's handlers do then,   *)
(* for as long as it takes: send a file or store one, stream a multipart   *)
(* request, pass the request to another server or to a CGI program through *)
(* a linked connection of their own, or turn it into a websocket.          *)
(* One action is one event of the manager, whose handlers run to the end.  *)
(* The client sends the messages of a script, each after the answer to the *)
(* one before, frames at any time; it may hang up.                         *)
(***************************************************************************)
EXTENDS Integers, Sequences, SequencesExt, HttpMessage, Websocket

CONSTANTS Scripts,      \* what clients send, with what is to come of it
          Disk,         \* the files there are at first
          SendLimit,    \* MG_MAX_HTTP_SEND_MBUF
          MaxRequest,   \* MG_MAX_HTTP_REQUEST_SIZE
          Replies,      \* of the other server; a reply without a length ends with the stream
          CgiOutputs,   \* of a CGI program before it exits
          MaxBytes      \* bound: connections idle, and are pinged, while fewer are sent

VARIABLES script, sent,   \* the client's script, how many of its messages it sent
          client,         \* "open" or "closed"
          wire,           \* bytes on their way to the server
          got,            \* bytes the client has received
          srv,            \* the server's connection
          be,             \* the connection linked to it, to another server or a CGI program
          peer            \* that server or program

vars == <<script, sent, client, wire, got, srv, be, peer>>

NoFile == [on |-> FALSE, type |-> "NONE", cl |-> 0, sent |-> 0, keep |-> FALSE,
           name |-> 0, from |-> 0, data |-> <<>>]
NewConn == [open |-> TRUE, recv |-> <<>>, send |-> <<>>, flags |-> {}, ws |-> FALSE,
            idle |-> FALSE, last |-> 0, file |-> NoFile, mp |-> NoStream, up |-> NoUpload,
            upload |-> FALSE, chunk |-> 0, link |-> FALSE, start |-> <<>>, user1 |-> FALSE,
            seen |-> <<>>, late |-> <<>>, failed |-> FALSE, astray |-> FALSE, undefined |-> FALSE,
            disk |-> Disk, io |-> "full", lost |-> FALSE,
            moves |-> {}, stale |-> 0, resized |-> 0, dangling |-> FALSE]
NoBackend == [kind |-> "none", open |-> FALSE, connecting |-> FALSE, back |-> FALSE,
              recv |-> <<>>, send |-> <<>>, flags |-> {}]
NoPeer == [in |-> <<>>, out |-> <<>>, st |-> "wait"]

Init == /\ script \in Scripts /\ sent = 0 /\ client = "open" /\ wire = <<>> /\ got = <<>>
        /\ srv = [NewConn EXCEPT !.io = script.io, !.moves = script.moves, !.stale = script.stale]
        /\ be = NoBackend /\ peer = NoPeer
-----------------------------------------------------------------------------
(* Handlers of the application. *)

Flag(c, f) == [c EXCEPT !.flags = @ \union {f}]
SendReply(c, code, body) == [c EXCEPT !.send = AppendTo(@, Reply(code, body))]

\* mg_http_send_error
SendError(c, code) == CloseSoon(SendReply(c, code, <<0>>))

\* mg_http_free_proto_data_file
FileClosed(c) ==
  [IF c.file.type = "PUT" THEN Flushed(c, c.file.name, c.disk[c.file.name]) ELSE c
     EXCEPT !.file = NoFile]

EndFile(c) == FileClosed(IF c.file.keep THEN c ELSE CloseSoon(c))

\* Mutant: a range is read up to the end of the file.
ToRead_All(room, left) == room

\* As much as fits into the send buffer, and no more than is left to send
ToRead(room, left) == IF left > 0 /\ room > left THEN left ELSE room

\* mg_http_transfer_file_data, out; the file ends when there is nothing to read.
SendPiece(c) ==
  LET left == c.file.cl - c.file.sent
      room == IF Len(c.send) < SendLimit THEN SendLimit - Len(c.send) ELSE 0
      n == ToRead(room, left)
      end == Min({c.file.sent + n, Len(c.file.data)})
      piece == SubSeq(c.file.data, c.file.sent + 1, end)
  IN IF n = 0 THEN c
     ELSE IF left <= 0 \/ piece = <<>> THEN EndFile(c)
     ELSE [c EXCEPT !.send = AppendTo(@, piece), !.file.sent = end]

\* A file with data behind its first at bytes, which read as zeros if they were never written
Extended(old, at, data) ==
  IF data = <<>> THEN old ELSE [i \in 1 .. at |-> IF i <= Len(old) THEN old[i] ELSE 0] \o data

\* mg_http_transfer_file_data, in: what of the body is there, or what the file takes of it. What
\* is left is unsigned: less than nothing is more than there is.
StorePiece(c) ==
  LET left == c.file.cl - c.file.sent
      write == IF left \in 0 .. Len(c.recv) THEN left ELSE Len(c.recv)
      at == c.file.from + c.file.sent
      n == IF Refuses(c, at + write) THEN Max({DiskSpace - at, 0}) ELSE write
      name == c.file.name
      stored == [c EXCEPT !.recv = DropBytes(@, n), !.file.sent = @ + n, !.lost = @ \/ n < write,
                          !.disk = (name :> Extended(@[name], at, SubSeq(c.recv, 1, n))) @@ @]
  IN IF n = 0 \/ stored.file.sent >= c.file.cl THEN EndFile(stored) ELSE stored

TransferFile(c) == CASE ~c.file.on -> c
                     [] c.file.type = "FILE" -> SendPiece(c)
                     [] c.file.type = "PUT" -> StorePiece(c)

\* What stat or fopen says of a file
OpenError(c, h) == IF h.file \notin DOMAIN c.disk THEN "ENOENT" ELSE h.error

\* mg_http_serve_file
ServeFile(c, h) ==
  IF OpenError(c, h) # ""
  THEN SendError(c, CASE OpenError(c, h) = "EACCES" -> 403 [] OpenError(c, h) = "ENOENT" -> 404
                      [] OTHER -> 500)
  ELSE LET data == c.disk[h.file]
           size == Len(data)
           r1 == h.range[1]
           r2 == IF Len(h.range) = 1 THEN size - 1 ELSE h.range[2]
           code == IF h.range = <<>> THEN 200 ELSE IF r1 > r2 \/ r2 >= size THEN 416 ELSE 206
           cl == CASE code = 200 -> size [] code = 206 -> r2 - r1 + 1 [] code = 416 -> 0
           from == IF code = 206 THEN r1 ELSE 0
           file == [NoFile EXCEPT !.on = TRUE, !.type = "FILE", !.cl = cl, !.keep = h.keep,
                                  !.data = SubSeq(data, from + 1, size)]
       IN TransferFile([c EXCEPT !.send = AppendTo(@, <<ReplyHead(code, cl), Blank>>),
                                 !.file = file])

\* Mutant: the headers stay in front of the payload.
Payload_Whole(b, hm) == b

\* Only the payload is left in the buffer.
Payload(b, hm) == DropBytes(b, hm.message - hm.body)

\* mg_handle_put: the directories of file 0 cannot be made. The answer comes before the body is
\* stored; the file is emptied, also for the part a Content-Range says, whose end may be left out.
Put(c, h, hm) ==
  LET idle == FileClosed(c)
      ranged == h.range # <<>>
      r1 == IF ranged THEN h.range[1] ELSE 0
      r2 == IF Len(h.range) = 2 THEN h.range[2] ELSE 0
      cl == CASE ~ranged -> h.cl [] ranged /\ r2 > r1 -> r2 - r1 + 1 [] OTHER -> h.cl - r1
      code == IF ranged THEN 206 ELSE IF h.file \in DOMAIN c.disk THEN 200 ELSE 201
      file == [NoFile EXCEPT !.on = TRUE, !.type = "PUT", !.cl = cl, !.name = h.file, !.from = r1]
  IN IF h.file = 0 THEN SendError(idle, 500)
     ELSE IF h.cl = -1 THEN SendError(idle, 411)
     ELSE IF h.file \in Unwritable THEN SendError(idle, 500)
     ELSE TransferFile([idle EXCEPT !.send = AppendTo(@, Reply(code, <<>>)), !.file = file,
                                    !.disk = (h.file :> <<>>) @@ @, !.recv = Payload(@, hm)])

\* mg_handle_cgi: the program starts with the whole body on its way. Where a failing start is
\* noticed it is an error; with fork it is not, and the program just says nothing.
Cgi(c, h, hm) ==
  IF ~h.starts THEN SendError(c, 500)
  ELSE [c EXCEPT !.start = <<"cgi", SubSeq(c.recv, hm.len + 1, Len(c.recv))>>,
                 !.link = TRUE, !.user1 = TRUE, !.recv = <<>>]

\* mg_http_reverse_proxy, whose address may be one that cannot be connected to
Proxy(c, h, hm) ==
  IF ~h.starts THEN SendError(c, 502)
  ELSE [c EXCEPT !.start = <<"proxy", SubSeq(c.recv, 1, hm.message)>>, !.link = TRUE]

\* MG_EV_HTTP_REQUEST
Serve(c, hm) ==
  LET h == Heads[hm.head]
      e == [ev |-> "HTTP_REQUEST", name |-> hm.head, data |-> Body(c.recv, hm)]
      told == [c EXCEPT !.seen = IF c.open THEN Append(@, e) ELSE @,
                        !.late = IF c.open THEN @ ELSE Append(@, e)]
  IN CASE h.do = "reply" -> SendReply(told, 200, Body(c.recv, hm))
       [] h.do = "file" -> ServeFile(told, h)
       [] h.do = "put" -> Put(told, h, hm)
       [] h.do = "cgi" -> Cgi(told, h, hm)
       [] h.do = "proxy" -> Proxy(told, h, hm)
-----------------------------------------------------------------------------
(* mg_http_handler *)

\* The body so far in place of the chunks it was in, then what is not read yet
Shifted(b, body, i) == body \o SubSeq(b, i + 1, Len(b))

\* mg_handle_chunked; MG_EV_HTTP_CHUNK is the application's to ignore. The assertion at its
\* beginning is that what it put together before is there.
HandleChunked(c, hm) ==
  LET b == SubSeq(c.recv, hm.len + 1, Len(c.recv))
      r == Collapse(b, c.chunk, SubSeq(b, 1, c.chunk))
      n == Len(r.body)
      read == [c EXCEPT !.recv = SubSeq(@, 1, hm.len) \o Shifted(b, r.body, r.i), !.chunk = n]
  IN IF Len(b) < c.chunk THEN [c |-> [c EXCEPT !.failed = TRUE], hm |-> hm]
     ELSE IF r.i = n THEN [c |-> c, hm |-> hm]
     ELSE [c |-> read,
           hm |-> IF r.zero THEN [hm EXCEPT !.body = n, !.message = Len(read.recv)]
                  ELSE [hm EXCEPT !.body = n]]

Closing(c) == c.flags \cap {"SEND_AND_CLOSE", "CLOSE_IMMEDIATELY"} # {}

\* A websocket request switches the protocol.
Upgrade(c, hm) ==
  LET on == [c EXCEPT !.recv = DropBytes(@, hm.len), !.ws = TRUE]
  IN IF Closing(c) THEN on ELSE WsReceived(IF c.send = <<>> THEN SendReply(on, 101, <<>>) ELSE on)

\* A message whose headers are there
Framed(c, hm) ==
  LET h == Heads[hm.head] IN
  CASE h.type = "multipart" -> Continue(Begin([c EXCEPT !.upload = h.do = "upload"], h, hm.len))
    [] h.type = "websocket" -> Upgrade(c, hm)
    [] hm.message <= Len(c.recv) ->
         LET served == Serve(c, hm) IN [served EXCEPT !.recv = DropBytes(@, hm.message)]
    [] OTHER -> c

\* MG_EV_RECV
HttpReceived(c) ==
  LET hm == Parse(c.recv, TRUE)
      r == IF hm.len > 0 /\ Heads[hm.head].type = "chunked" THEN HandleChunked(c, hm)
           ELSE [c |-> c, hm |-> hm]
  IN IF c.mp.on THEN Continue(c)
     ELSE IF hm.len < 0 \/ (hm.len = 0 /\ Len(c.recv) >= MaxRequest)
          THEN Flag(c, "CLOSE_IMMEDIATELY")
     ELSE IF hm.len = 0 THEN c
     ELSE Framed(r.c, r.hm)

Received(c) == IF c.ws THEN WsReceived(c) ELSE HttpReceived(TransferFile(c))

\* MG_EV_CLOSE: what is there of a request without its end is handed over.
CutShort(c) ==
  LET hm == Parse(c.recv, TRUE) IN
  IF c.recv = <<>> \/ hm.len <= 0 THEN c
  ELSE Serve(c, [hm EXCEPT !.message = Len(c.recv), !.body = Len(c.recv) - hm.len])

Closed(c) == LET off == [c EXCEPT !.open = FALSE] IN
             TransferFile(IF c.ws THEN off ELSE IF c.mp.on THEN Abort(off) ELSE CutShort(off))

\* The connection a handler started, if it did
Started(c) ==
  IF c.start = <<>> THEN be
  ELSE [NoBackend EXCEPT !.kind = c.start[1], !.open = TRUE, !.connecting = c.start[1] = "proxy",
                         !.back = TRUE, !.send = c.start[2]]

Become(c) == /\ srv' = [c EXCEPT !.start = <<>>]
             /\ be' = Started(c)
-----------------------------------------------------------------------------
(* The client. *)

\* The answers in what the client received: responses, and behind a 101 frames, where pings
\* do not count. A response without a length ends with the stream; nothing is read behind an
\* error that says it is the last. What is no response is an answer to nothing.
RECURSIVE FramesIn(_), Answers(_, _)
FramesIn(b) ==
  IF Len(b) < 2 \/ Len(b) < 2 + b[2] THEN <<>>
  ELSE LET rest == FramesIn(SubSeq(b, 3 + b[2], Len(b))) IN
       IF b[1] = Fin + PingOp THEN rest ELSE <<SubSeq(b, 1, 2 + b[2])>> \o rest

Answers(b, ended) ==
  LET hm == Parse(b, FALSE)
      whole == IF hm.message >= Unbounded THEN Len(b) ELSE hm.message
  IN IF b = <<>> \/ hm.len = 0 THEN <<>>
     ELSE IF hm.len < 0 THEN <<b>>
     ELSE IF hm.message > Len(b) /\ ~(ended /\ hm.message >= Unbounded) THEN <<>>
     ELSE <<SubSeq(b, 1, whole)>> \o
          (IF ReplyCode(hm.head) = 101 THEN FramesIn(SubSeq(b, whole + 1, Len(b)))
           ELSE IF ReplyCode(hm.head) \in {403, 404, 411, 500, 502} THEN <<>>
           ELSE Answers(SubSeq(b, whole + 1, Len(b)), ended))

answered == Answers(got, ~srv.open /\ client = "open")

ClientSend ==
  /\ client = "open" /\ srv.open /\ sent < Len(script.messages)
  /\ srv.ws \/ Len(answered) = sent
  /\ sent' = sent + 1 /\ wire' = wire \o script.messages[sent + 1]
  /\ UNCHANGED <<script, client, got, srv, be, peer>>

\* What is on its way still arrives, or it is lost with the client.
ClientClose ==
  /\ client = "open" /\ client' = "closed"
  /\ \/ UNCHANGED wire
     \/ script.short /\ \E n \in 0 .. Len(wire) : wire' = SubSeq(wire, 1, n)
  /\ UNCHANGED <<script, sent, got, srv, be, peer>>
-----------------------------------------------------------------------------
(* Events of the server's connection. *)

Recv(n) ==
  /\ srv.open /\ n <= Len(wire)
  /\ wire' = SubSeq(wire, n + 1, Len(wire))
  /\ \E c \in {Received([srv EXCEPT !.recv = AppendTo(@, SubSeq(wire, 1, n)), !.idle = FALSE])} :
       Become(c)
  /\ UNCHANGED <<script, sent, client, got, peer>>

HangUp ==
  /\ srv.open /\ client = "closed" /\ wire = <<>>
  /\ srv' = Flag(srv, "CLOSE_IMMEDIATELY")
  /\ UNCHANGED <<script, sent, client, wire, got, be, peer>>

\* MG_EV_SEND
Write(n) ==
  /\ srv.open /\ n <= Len(srv.send)
  /\ got' = IF client = "open" THEN got \o SubSeq(srv.send, 1, n) ELSE got
  /\ srv' = LET c == [srv EXCEPT !.send = DropBytes(@, n), !.idle = FALSE]
            IN IF c.ws THEN c ELSE TransferFile(c)
  /\ UNCHANGED <<script, sent, client, wire, be, peer>>

\* MG_EV_POLL; idle means that there was nothing to read or to write for PingInterval.
Poll ==
  /\ srv.open /\ Len(srv.send) < MaxBytes
  /\ srv' = IF srv.ws THEN WsPoll(srv, IF srv.idle THEN PingInterval + 1 ELSE 0)
            ELSE TransferFile(srv)
  /\ UNCHANGED <<script, sent, client, wire, got, be, peer>>

Idle == /\ srv.open /\ srv.ws /\ srv.send = <<>> /\ ~srv.idle
        /\ Len(got) < MaxBytes
        /\ srv' = [srv EXCEPT !.idle = TRUE]
        /\ UNCHANGED <<script, sent, client, wire, got, be, peer>>

Doomed(c) == \/ "CLOSE_IMMEDIATELY" \in c.flags
             \/ "SEND_AND_CLOSE" \in c.flags /\ c.send = <<>>

\* Mutant: the connection of the CGI program keeps the pointer to the one that closes.
Orphan_Kept(b) == [b EXCEPT !.flags = @ \union {"CLOSE_IMMEDIATELY"}]

\* The CGI program's connection closes with the one it works for.
Orphan(b) == [b EXCEPT !.back = FALSE, !.flags = @ \union {"CLOSE_IMMEDIATELY"}]

\* MG_EV_CLOSE and mg_http_conn_destructor, which flags the connection of the CGI program,
\* and unlinks that to the other server: meant to close as well, it stays as it is.
CloseConn ==
  /\ srv.open /\ Doomed(srv)
  /\ \E c \in {Closed([srv EXCEPT !.link = @ /\ be.kind # "cgi"])} :
     LET b == IF srv.link /\ be.kind = "cgi" THEN Orphan(be) ELSE be
         last == IF c.start = <<>> THEN b ELSE Started(c)
     IN /\ srv' = [FileClosed(c) EXCEPT !.link = FALSE, !.start = <<>>, !.mp = NoStream]
        /\ be' = CASE c.link /\ last.kind = "cgi" -> Flag(last, "CLOSE_IMMEDIATELY")
                   [] c.link /\ last.kind = "proxy" -> [last EXCEPT !.back = FALSE]
                   [] OTHER -> b
  /\ UNCHANGED <<script, sent, client, wire, got, peer>>
-----------------------------------------------------------------------------
(* Events of the linked connection, and the peer behind it. *)

Backend == <<script, sent, client, wire, got>>

\* mg_reverse_proxy_handler on MG_EV_CONNECT
ConnectBackend(ok) ==
  /\ be.open /\ be.connecting /\ "CLOSE_IMMEDIATELY" \notin be.flags
  /\ be' = IF ok THEN [be EXCEPT !.connecting = FALSE]
           ELSE Flag(be, "CLOSE_IMMEDIATELY")
  /\ srv' = IF ok \/ ~be.back THEN srv ELSE SendError(srv, 502)
  /\ UNCHANGED <<Backend, peer>>

BackendWrite ==
  /\ be.open /\ ~be.connecting /\ be.send # <<>>
  /\ peer' = [peer EXCEPT !.in = @ \o be.send]
  /\ be' = [be EXCEPT !.send = <<>>]
  /\ UNCHANGED <<Backend, srv>>

\* The other server waits for a whole request, a CGI program may answer at any time.
PeerReply ==
  /\ be.kind # "none" /\ peer.st = "wait"
  /\ \/ /\ be.kind = "proxy" /\ Parse(peer.in, TRUE).len > 0
        /\ Parse(peer.in, TRUE).message <= Len(peer.in)
        /\ \E r \in Replies : peer' = [peer EXCEPT !.out = r, !.st = "replied"]
     \/ /\ be.kind = "cgi"
        /\ \E r \in CgiOutputs : peer' = [peer EXCEPT !.out = r, !.st = "replied"]
  /\ UNCHANGED <<Backend, srv, be>>

PeerClose == /\ be.kind # "none" /\ peer.st = "replied" /\ peer' = [peer EXCEPT !.st = "gone"]
             /\ UNCHANGED <<Backend, srv, be>>

\* mg_reverse_proxy_handler on MG_EV_HTTP_REPLY
ProxyReply(c, message) == CloseSoon([c EXCEPT !.send = AppendTo(@, message)])

\* mg_http_handler and mg_reverse_proxy_handler on MG_EV_RECV
ProxyRecv(b) ==
  LET hm == Parse(b.recv, FALSE) IN
  IF hm.len < 0 THEN be' = Flag(b, "CLOSE_IMMEDIATELY") /\ UNCHANGED srv
  ELSE IF hm.len = 0 \/ hm.message > Len(b.recv) THEN be' = b /\ UNCHANGED srv
  ELSE IF ~b.back THEN be' = [b EXCEPT !.recv = DropBytes(@, hm.message)] /\ UNCHANGED srv
  ELSE /\ srv' = ProxyReply(srv, SubSeq(b.recv, 1, hm.message))
       /\ be' = Flag([b EXCEPT !.recv = DropBytes(@, hm.message)], "CLOSE_IMMEDIATELY")

HeadersRead(b) == RequestLen(b.recv) > 0

\* mg_cgi_ev_handler on MG_EV_RECV: a status line once the headers are there, then all there is
CgiRecv(b) ==
  LET line == IF srv.user1 THEN <<ReplyHead(200, 99)>> ELSE <<>> IN
  IF ~b.back THEN be' = Flag(b, "CLOSE_IMMEDIATELY") /\ UNCHANGED srv
  ELSE IF ~srv.open THEN srv' = [srv EXCEPT !.undefined = TRUE] /\ UNCHANGED be
  ELSE IF srv.user1 /\ (RequestLen(b.recv) < 0 \/ (HeadersRead(b) /\ Len(b.recv) > MaxRequest))
       THEN /\ be' = Flag([b EXCEPT !.recv = <<>>], "CLOSE_IMMEDIATELY")
            /\ srv' = LET c == SendError(srv, 500) IN
                      [c EXCEPT !.user1 = FALSE, !.send = AppendTo(@, b.recv)]
  ELSE IF srv.user1 /\ ~HeadersRead(b) THEN be' = b /\ UNCHANGED srv
  ELSE /\ srv' = [srv EXCEPT !.user1 = FALSE, !.send = AppendTo(@, line \o b.recv)]
       /\ be' = [b EXCEPT !.recv = <<>>]

BackendRecv(n) ==
  /\ be.open /\ ~be.connecting /\ n <= Len(peer.out)
  /\ peer' = [peer EXCEPT !.out = SubSeq(@, n + 1, Len(@))]
  /\ LET b == [be EXCEPT !.recv = AppendTo(@, SubSeq(peer.out, 1, n))] IN
     IF be.kind = "cgi" THEN CgiRecv(b) ELSE ProxyRecv(b)
  /\ UNCHANGED Backend

BackendHangUp == /\ be.open /\ peer.st = "gone" /\ peer.out = <<>>
                 /\ be' = Flag(be, "CLOSE_IMMEDIATELY") /\ UNCHANGED <<Backend, srv, peer>>

\* MG_EV_CLOSE of the linked connection: a reply without a length is whole now, and the
\* server's connection closes when all is sent. Through a pointer to a connection that is
\* gone this writes to freed memory.
CloseBackend ==
  /\ be.open /\ Doomed(be)
  /\ LET hm == Parse(be.recv, FALSE)
         reply == be.kind = "proxy" /\ hm.len > 0
         c == IF reply THEN ProxyReply(srv, be.recv) ELSE CloseSoon(srv)
     IN srv' = IF ~be.back THEN srv
               ELSE IF ~srv.open THEN [srv EXCEPT !.undefined = TRUE]
               ELSE [c EXCEPT !.link = FALSE]
  /\ be' = [be EXCEPT !.open = FALSE, !.back = FALSE]
  /\ UNCHANGED <<Backend, peer>>

SomeRecv == \E n \in 1 .. Len(wire) : Recv(n)
\* A write takes a byte or all there is.
SomeWrite == \E n \in {1, Len(srv.send)} \ {0} : Write(n)
SomeBackendRecv == \E n \in 1 .. Len(peer.out) : BackendRecv(n)
Connects == \E ok \in BOOLEAN : ConnectBackend(ok)

Next == \/ ClientSend \/ ClientClose
        \/ SomeRecv \/ HangUp \/ SomeWrite \/ Poll \/ Idle \/ CloseConn
        \/ Connects \/ BackendWrite \/ PeerReply \/ PeerClose
        \/ SomeBackendRecv \/ BackendHangUp \/ CloseBackend

Spec == Init /\ [][Next]_vars

-----------------------------------------------------------------------------
(* Properties *)

\* The events of the script, each once, whole and in order; of the data of a part the beginning
\* may come first.
EventsTold ==
  LET n == Len(srv.seen)
      last == srv.seen[n]
  IN n = 0
     \/ /\ n <= Len(script.events) /\ \A i \in 1 .. n - 1 : srv.seen[i] = script.events[i]
        /\ last = script.events[n]
           \/ /\ last.ev = "PART_DATA"
              /\ IsPrefix(last.data, script.events[n].data)
              /\ [last EXCEPT !.data = <<>>] = [script.events[n] EXCEPT !.data = <<>>]

\* What the application is told are the requests, parts and frames the client sent, however the
\* stream was cut. Not so once the code looked for a header line behind what it had received, or
\* wrote through a pointer into a buffer that had moved, nor for what is handed over when the
\* connection closes.
EventsIntact == srv.astray \/ srv.dangling \/ EventsTold

\* The client gets answers only to what it sent, in order, and each is one that is right
\* for its request: whole files and ranges, replies of the other server, output of the
\* program behind its status line.
OwnAnswers ==
  \/ srv.dangling
  \/ /\ Len(answered) <= sent
     /\ \A i \in DOMAIN answered : answered[i] \in script.answers[i] \/ srv.astray

\* A CGI program was started for a request that was handed over when its connection closed.
StartedTooLate == \E i \in DOMAIN srv.late : /\ srv.late[i].ev = "HTTP_REQUEST"
                                             /\ Heads[srv.late[i].name].do = "cgi"

\* The linked connections point to each other only as long as both are there, whichever closes
\* first, but for a program started for a connection that closes.
LinksLive == /\ srv.open /\ srv.link => be.open
             /\ be.back => srv.open \/ StartedTooLate
             /\ srv.undefined => StartedTooLate

\* A client that was told its file is stored finds all of it stored, unless the disk took less
\* than it was given: then it is the beginning.
FilesIntact ==
  \A f \in script.stores :
    ~srv.astray /\ (\E i \in DOMAIN answered : ReplyCode(answered[i][1]) \in {200, 201, 206})
      => /\ f[1] \in DOMAIN srv.disk /\ IsPrefix(srv.disk[f[1]], f[2])
         /\ srv.disk[f[1]] = f[2] \/ srv.lost

\* Nothing is on its way and no handler has anything to do.
Quiet == /\ srv.open /\ wire = <<>> /\ srv.send = <<>> /\ ~srv.file.on /\ ~Doomed(srv)
         /\ ~be.open

\* A client that stays has an answer to all it sent, or sees its connection closed, before
\* the server comes to rest: no request, part or frame is left in the buffer and no file
\* half sent, but for a body that ends with the connection.
NothingStuck == Quiet /\ client = "open" /\ ~srv.astray /\ ~srv.dangling
                  => Len(answered) = sent \/ (script.waits /\ sent = Len(script.messages))

\* assert(blen >= body_len) in mg_handle_chunked: what was put together of a chunked body is
\* still there when more arrives.
ChunksKept == ~srv.failed

\* "Append this frame to the reassembled buffer" in mg_deliver_websocket_data: the application
\* is told of a message as a whole, wherever realloc puts the buffer.
FragmentsJoined == srv.ws => EventsTold

\* "Close associated CGI forwarder connection" in mg_http_handler: no event of the connection of
\* a CGI program reaches a connection that is closed.
ForwardersClosed == be.kind = "cgi" => ~srv.undefined

\* "they must live and die together" in mg_http_reverse_proxy: the connection to the other server
\* is told to close when the one it is for has closed.
DieTogether == be.kind = "proxy" /\ be.open /\ ~srv.open => be.flags # {}

\* mg_file_upload_handler is to "store file data into a local file": an upload that is answered
\* with 200 is stored in full.
UploadsStored ==
  \A f \in script.stores : (\E i \in DOMAIN answered : ReplyCode(answered[i][1]) = 200)
                             => srv.disk[f[1]] = f[2]
=============================================================================
