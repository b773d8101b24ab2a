---------------------------- MODULE HttpMessage -----------------------------
(***************************************************************************)
(* How http.c finds HTTP messages in a buffer: where the headers end, how  *)
(* long the body is, and the chunks of a chunked body. A byte is a number; *)
(* the header lines are abstracted to one number, the head, which stands   *)
(* for the first line with the fields the code looks at, and Blank stands  *)
(* for the empty line behind them.                                         *)
(***************************************************************************)
EXTENDS Integers, Sequences, SequencesExt, FiniteSetsExt, Mbuf

CONSTANT Heads    \* the heads of requests; HeadOf gives their fields

CR == 13
LF == 10
NotPrintable == 31
Blank == 2000

\* (size_t) ~0
Unbounded == 1000000

IsReplyHead(t) == t >= 100000
\* The head of a response: its status, and its Content-Length unless that is 99
ReplyHead(code, cl) == 100000 + code * 100 + cl
Reply(code, body) == <<ReplyHead(code, Len(body)), Blank>> \o body
ReplyCode(t) == (t - 100000) \div 100
ReplyLength(t) == IF t % 100 = 99 THEN Unbounded ELSE t % 100

\* mg_http_get_request_len: -1, 0 or the length of the headers with the blank line
RequestLen(b) ==
  LET stops == {i \in DOMAIN b : b[i] \in {Blank, NotPrintable}} IN
  IF stops = {} THEN 0
  ELSE IF b[Min(stops)] = NotPrintable THEN -1 ELSE Min(stops)

\* Mutant: a request without Content-Length has a body up to the end of the connection.
BodyLen_Reply(h) == IF h.cl # -1 THEN h.cl ELSE Unbounded

\* A request has no body unless it says how long it is or it is a PUT or a POST.
BodyLen(h) == IF h.cl # -1 THEN h.cl
              ELSE IF h.method \in {"PUT", "POST"} THEN Unbounded ELSE 0

\* mg_parse_http: leading white space is skipped, then comes the first line.
Parse(b, isReq) ==
  LET len == RequestLen(b)
      start == {i \in 1 .. len : b[i] \notin {CR, LF}}
      head == IF start = {} THEN 0 ELSE b[Min(start)]
      good == IF isReq THEN head \in DOMAIN Heads ELSE IsReplyHead(head)
      body == IF isReq THEN BodyLen(Heads[head]) ELSE ReplyLength(head)
  IN IF len <= 0 \/ ~good THEN [len |-> IF len > 0 THEN -1 ELSE len]
     ELSE [len |-> len, head |-> head, body |-> body, message |-> len + body]

Body(b, hm) == SubSeq(b, hm.len + 1, hm.len + hm.body)
-----------------------------------------------------------------------------
(* Chunks. *)

IsDigit(x) == x \in 48 .. 57

\* mg_http_parse_chunk: 0, or the bytes the chunk behind the first i takes, and its data
ParseChunk(b, i) ==
  LET digits == CHOOSE k \in 0 .. Len(b) - i : /\ \A j \in 1 .. k : IsDigit(b[i + j])
                                               /\ (i + k = Len(b) \/ ~IsDigit(b[i + k + 1]))
      size == FoldLeft(LAMBDA n, d : n * 16 + (d - 48), 0, SubSeq(b, i + 1, i + digits))
      EndsLine(k) == i + k + 2 <= Len(b) /\ SubSeq(b, i + k + 1, i + k + 2) = <<CR, LF>>
      data == digits + 2
  IN IF digits > 0 /\ EndsLine(digits) /\ EndsLine(data + size)
     THEN [n |-> data + size + 2, data |-> SubSeq(b, i + data + 1, i + data + size)]
     ELSE [n |-> 0, data |-> <<>>]

\* The loop of mg_handle_chunked: from the i bytes of b that are read, whose body is known,
\* to the last whole chunk, or to the empty one
RECURSIVE Collapse(_, _, _)
Collapse(b, i, body) ==
  LET k == ParseChunk(b, i) IN
  IF k.n = 0 THEN [i |-> i, body |-> body, zero |-> FALSE]
  ELSE IF k.data = <<>> THEN [i |-> i + k.n, body |-> body, zero |-> TRUE]
  ELSE Collapse(b, i + k.n, body \o k.data)

\* What a client sends for a chunk of fewer than ten bytes
Chunk(data) == <<48 + Len(data), CR, LF>> \o data \o <<CR, LF>>
-----------------------------------------------------------------------------
(* The streaming of multipart requests: a state machine that runs on what  *)
(* has arrived and tells the application of parts and of their data as     *)
(* soon as it can. A connection c is a record with the buffer recv, the    *)
(* stream mp and the events seen; the boundary is a sequence of bytes      *)
(* without the two dashes before it, and the line of a part that names it  *)
(* is one number in Names in front of CR and LF.                           *)

CONSTANTS Boundary,
          Names,        \* of the parts, and of the files uploaded
          Refused,      \* those the application gives no local name
          Unwritable,   \* those whose file cannot be opened
          DiskSpace     \* how many bytes of a file fit on the disk

Dash == 45
NoStream == [on |-> FALSE, state |-> "BEGIN", prev |-> 0, part |-> FALSE, name |-> 0]

\* c_strnstr: where w begins in b, or 0
Find(b, w) ==
  LET at == {i \in 1 .. Len(b) - Len(w) + 1 : SubSeq(b, i, i + Len(w) - 1) = w}
  IN IF at = {} THEN 0 ELSE Min(at)

To(c, state) == [c EXCEPT !.mp.state = state]
Keep(c) == [c |-> c, again |-> FALSE]
Go(c) == [c |-> c, again |-> TRUE]

NoUpload == [on |-> FALSE, fp |-> FALSE, data |-> <<>>]

Say(c, code, body) == [c EXCEPT !.send = AppendTo(@, <<ReplyHead(code, 99), Blank>> \o body)]
CloseSoon(c) == [c EXCEPT !.flags = @ \union {"SEND_AND_CLOSE"}]

\* A file of data is closed: stdio has accepted all of it, and what does not fit is lost with
\* the result of fclose.
Flushed(c, name, data) == [c EXCEPT !.disk = (name :> SubSeq(data, 1, Min({DiskSpace, Len(data)}))) @@ @,
                                    !.lost = @ \/ Len(data) > DiskSpace]

\* Writing this far is refused at once, for want of space or for another reason.
Refuses(c, n) == c.io # "late" /\ n > DiskSpace

\* mg_file_upload_handler, whose state is the user_data of the part
BeginUpload(c, name) ==
  IF name \in Refused THEN CloseSoon(Say([c EXCEPT !.up = NoUpload], 403, <<name>>))
  ELSE LET up == [NoUpload EXCEPT !.on = TRUE, !.fp = name \notin Unwritable]
           begun == [c EXCEPT !.up = up]
       IN IF up.fp THEN [begun EXCEPT !.disk = (name :> <<>>) @@ @] ELSE Say(begun, 500, <<name>>)

WriteUpload(c, name, data) ==
  IF ~(c.up.on /\ c.up.fp) THEN c
  ELSE IF Refuses(c, Len(c.up.data) + Len(data))
       THEN Say([c EXCEPT !.up.fp = FALSE, !.disk = Restrict(@, DOMAIN @ \ {name})],
                IF c.io = "full" THEN 413 ELSE 500, <<name>>)
       ELSE [c EXCEPT !.up.data = @ \o data]

EndUpload(c, name) ==
  IF ~c.up.on THEN c
  ELSE LET closed == [c EXCEPT !.up = NoUpload] IN
       CloseSoon(IF ~c.up.fp THEN closed
                 ELSE Flushed(Say(closed, 200, <<name>>), name, c.up.data))

\* The application: an endpoint for uploads, or one that answers the request as a whole
React(c, ev, data) ==
  CASE c.upload /\ ev = "PART_BEGIN" -> BeginUpload(c, c.mp.name)
    [] c.upload /\ ev = "PART_DATA" -> WriteUpload(c, c.mp.name, data)
    [] c.upload /\ ev = "PART_END" -> EndUpload(c, c.mp.name)
    [] ~c.upload /\ ev = "MULTIPART_REQUEST_END" ->
         [c EXCEPT !.send = AppendTo(@, Reply(200, <<>>))]
    [] OTHER -> c

\* mg_http_multipart_call_handler; data in a row is one event in the history.
Tell(c, ev, data) ==
  LET n == Len(c.seen)
      e == [ev |-> ev, name |-> c.mp.name, data |-> data]
      joins == ev = "PART_DATA" /\ n > 0 /\ c.seen[n].ev = ev
  IN React([c EXCEPT !.seen = IF joins THEN [@ EXCEPT ![n].data = @ \o data]
                              ELSE Append(@, e)], ev, data)

\* mg_http_multipart_wait_for_boundary
WaitForBoundary(c) ==
  LET at == Find(c.recv, Boundary)
      end == at + Len(Boundary) - 1
  IN IF ~c.mp.on THEN Keep(To(c, "FINALIZE"))
     ELSE IF Len(c.recv) < Len(Boundary) + 2 \/ at = 0 \/ Len(c.recv) - end < 4 THEN Keep(c)
     ELSE IF SubSeq(c.recv, end + 1, end + 4) = <<Dash, Dash, CR, LF>>
          THEN Go(To([c EXCEPT !.recv = DropBytes(@, end + 4)], "FINALIZE"))
          ELSE Go(To(c, "GOT_BOUNDARY"))

\* The end of the line that begins behind the first i bytes, or 0
LineEnd(b, i) ==
  LET at == {k \in i + 1 .. Len(b) : b[k] = LF} IN IF at = {} THEN 0 ELSE Min(at)

\* mg_http_multipart_process_boundary: over the headers of the part. A line other than the
\* one with the names is not taken off data_size, here ahead: by so much the code then looks
\* behind the bytes it has.
RECURSIVE PartHeaders(_, _, _, _)
PartHeaders(c, i, name, ahead) ==
  LET end == LineEnd(c.recv, i) IN
  IF end = 0 THEN Keep([To(c, "WAITING_FOR_BOUNDARY") EXCEPT !.astray = @ \/ ahead > 0])
  ELSE IF c.recv[i + 1] \in Names THEN PartHeaders(c, end, c.recv[i + 1], ahead)
  ELSE IF end = i + 2 /\ c.recv[i + 1] = CR
       THEN LET rest == [c EXCEPT !.recv = DropBytes(@, end)]
                ended == IF c.mp.part THEN Tell(rest, "PART_END", <<>>) ELSE rest
            IN Go(To(Tell([ended EXCEPT !.mp.name = name, !.mp.part = TRUE],
                          "PART_BEGIN", <<>>), "WAITING_FOR_CHUNK"))
       ELSE PartHeaders(c, end, name, ahead + end - i)

ProcessBoundary(c) == PartHeaders(c, Find(c.recv, Boundary) + Len(Boundary) + 1, 0, 0)

\* Mutant: the line end before the boundary's dashes is taken for data.
DataEnd_Dashes(at) == at - 3

\* The data of a part ends before the CR, LF and two dashes in front of the boundary.
DataEnd(at) == at - 5

\* mg_http_multipart_continue_wait_for_chunk
WaitForChunk(c) ==
  LET at == Find(c.recv, Boundary) IN
  IF Len(c.recv) < Len(Boundary) + 6 THEN Keep(c)
  ELSE IF at # 0
       THEN Go(To([Tell(c, "PART_DATA", SubSeq(c.recv, 1, DataEnd(at)))
                     EXCEPT !.recv = DropBytes(@, at - 1), !.mp.prev = 0],
                  "WAITING_FOR_BOUNDARY"))
  ELSE IF c.mp.prev = 0 THEN Keep([c EXCEPT !.mp.prev = Len(c.recv)])
  ELSE IF Len(c.recv) > c.mp.prev + Len(Boundary) + 4 THEN Go(To(c, "GOT_CHUNK"))
  ELSE Keep(c)

\* mg_http_multipart_got_chunk
GotChunk(c) ==
  Keep(To([Tell(c, "PART_DATA", SubSeq(c.recv, 1, c.mp.prev))
             EXCEPT !.recv = DropBytes(@, c.mp.prev), !.mp.prev = 0],
          "WAITING_FOR_CHUNK"))

\* mg_http_multipart_finalize
Finalize(c) ==
  LET ended == Tell(c, "PART_END", <<>>) IN
  Go([Tell([ended EXCEPT !.mp.name = 0], "MULTIPART_REQUEST_END", <<>>)
        EXCEPT !.mp = [NoStream EXCEPT !.state = "FINISHED"]])

Step(c) == CASE c.mp.state = "BEGIN" -> Go(To(c, "WAITING_FOR_BOUNDARY"))
             [] c.mp.state = "WAITING_FOR_BOUNDARY" -> WaitForBoundary(c)
             [] c.mp.state = "GOT_BOUNDARY" -> ProcessBoundary(c)
             [] c.mp.state = "WAITING_FOR_CHUNK" -> WaitForChunk(c)
             [] c.mp.state = "GOT_CHUNK" -> GotChunk(c)
             [] c.mp.state = "FINALIZE" -> Finalize(c)
             [] c.mp.state = "FINISHED" -> Keep([c EXCEPT !.recv = <<>>])

\* mg_http_multipart_continue
RECURSIVE Continue(_)
Continue(c) == LET s == Step(c) IN IF s.again THEN Continue(s.c) ELSE s.c

\* mg_http_multipart_begin, for a request whose headers take len bytes. All other flags go when
\* it names no boundary.
Begin(c, h, len) ==
  IF ~h.boundary THEN [c EXCEPT !.flags = {"CLOSE_IMMEDIATELY"}, !.user1 = FALSE]
  ELSE IF c.mp.on THEN [c EXCEPT !.flags = @ \union {"CLOSE_IMMEDIATELY"}]
  ELSE LET on == [c EXCEPT !.mp = [@ EXCEPT !.on = TRUE, !.state = "BEGIN", !.name = 0]]
       IN [Tell(on, "MULTIPART_REQUEST", <<>>) EXCEPT !.recv = DropBytes(@, len)]

\* The part of MG_EV_CLOSE about a stream that is not over: the application is told of the
\* end, with no user_data, so an upload stays open.
Abort(c) == LET end == [ev |-> "PART_END", name |-> c.mp.name, data |-> <<>>] IN
            [c EXCEPT !.late = @ \o <<end, [end EXCEPT !.ev = "MULTIPART_REQUEST_END",
                                                       !.name = 0]>>]
=============================================================================
