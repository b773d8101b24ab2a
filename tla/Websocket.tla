----------------------------- MODULE Websocket ------------------------------
(***************************************************************************)
(* The websocket protocol handler of mongoose (http_websocket.c). Frames   *)
(* are put together in the receive buffer itself: behind the first byte of *)
(* a fragmented message the code keeps the four bytes of a size, then the  *)
(* fragments so far, then what else has come. A connection c is a record   *)
(* with recv, send, flags and the events seen; moves are the resizings of  *)
(* the buffer, counted by resized, for which realloc takes another block,  *)
(* stale a byte the block given up holds from then on, and dangling says   *)
(* that the code has written through its pointers into one.                *)
(***************************************************************************)
EXTENDS Integers, Sequences, SequencesExt, Bitwise, Mbuf

CONSTANT Mask     \* the key with which the client masks its frames

Fin == 128
Text == 1
Close == 8
PingOp == 9
PingInterval == 5

IsFragment(x) == x < Fin \/ x % 16 = 0
IsFirstFragment(x) == x < Fin /\ x % 16 # 0

\* The four bytes of sizep
SizeBytes(n) == <<n % 256, (n \div 256) % 256, (n \div 65536) % 256, 0>>
SizeAt(b) == b[2] + 256 * (b[3] + 256 * (b[4] + 256 * b[5]))

\* Masking, which is its own inverse
Masked(data, key) == [i \in DOMAIN data |-> data[i] ^^ key[((i - 1) % 4) + 1]]

\* mg_send_ws_header: the header of a frame, key being empty on the server's side
FrameHeader(op, fin, n, key) ==
  LET m == IF key = <<>> THEN 0 ELSE 128
      size == IF n < 126 THEN <<m + n>>
              ELSE IF n < 65535 THEN <<m + 126>> \o U16(n)
              ELSE <<m + 127, 0, 0, 0, 0, 0>> \o <<(n \div 65536) % 256>> \o U16(n)
  IN <<(IF fin THEN Fin ELSE 0) + op>> \o size \o key

\* mg_send_websocket_frame and mg_ws_mask_frame
Frame(op, fin, data, key) ==
  FrameHeader(op, fin, Len(data), key) \o (IF key = <<>> THEN data ELSE Masked(data, key))

SendFrame(c, op, data) ==
  [c EXCEPT !.send = AppendTo(@, Frame(op, TRUE, data, <<>>)),
            !.flags = @ \union (IF op = Close THEN {"SEND_AND_CLOSE"} ELSE {})]

\* How many bytes the message being put together takes at the beginning of the buffer
Reassembled(b) ==
  IF /\ b # <<>> /\ IsFragment(b[1]) /\ ~IsFirstFragment(b[1])
     /\ Len(b) >= 5 /\ Len(b) >= 5 + SizeAt(b)
  THEN 5 + SizeAt(b) ELSE 0

\* The header of the frame that begins behind the first off bytes; none when head = 0
FrameAt(b, off) ==
  LET n == Len(b) - off
      size == b[off + 2] % 128
      m == IF b[off + 2] >= 128 THEN 4 ELSE 0
      none == [head |-> 0, mask |-> 0, data |-> 0]
  IN IF n < 2 THEN none
     ELSE IF size < 126 /\ n >= m THEN [head |-> 2 + m, mask |-> m, data |-> size]
     ELSE IF size = 126 /\ n >= 4 + m
          THEN [head |-> 4 + m, mask |-> m, data |-> GetU16(b, off + 3)]
     ELSE IF n >= 10 + m
          THEN [head |-> 10 + m, mask |-> m,
                data |-> b[off + 8] * 65536 + GetU16(b, off + 9)]
     ELSE [none EXCEPT !.mask = m]

\* The application: every message is answered, a close frame with a close frame.
Incoming(c, flags, data) ==
  LET seen == [c EXCEPT !.seen = Append(@, [ev |-> IF (flags \div 8) % 2 = 1
                                                   THEN "CONTROL_FRAME" ELSE "FRAME",
                                            name |-> flags % 16, data |-> data])]
  IN IF flags % 16 = Close THEN SendFrame(seen, Close, <<>>)
     ELSE IF (flags \div 8) % 2 = 1 THEN seen ELSE SendFrame(seen, Text, data)

\* The memory of a buffer whose contents were mem and are b now: mbuf_remove moves b to the
\* front and leaves what is behind it.
Memory(b, mem) == b \o SubSeq(mem, Len(b) + 1, Len(mem))

\* The test with which the connection closes after the client: it looks at the byte where
\* the frame was before it was taken out or moved.
ClosedByte(c, x) == IF x % 16 = Close
                    THEN [c EXCEPT !.flags = @ \union {"SEND_AND_CLOSE"}] ELSE c

\* The buffer has moved behind the code's back: the new block is the copy, all that is written
\* goes into the old one, and the new one only gets shorter.
Moved(c, off, f, data) ==
  LET b == c.recv
      copy == SubSeq(b, 1, off + f.head) \o data \o SubSeq(b, off + f.head + f.data + 1, Len(b))
  IN ClosedByte([c EXCEPT !.recv = SubSeq(copy, 1, Len(b) + 5 - off - f.head), !.dangling = TRUE],
                c.stale)

\* A frame of a fragmented message: its data goes behind the fragments so far. The size is
\* cleared before the first fragment moves, together with what of it lies in the same bytes.
Fragment(c, off, f, flags, frame) ==
  LET b == c.recv
      first == IsFirstFragment(flags)
      data == IF first THEN [i \in DOMAIN frame |-> IF f.head + i <= 5 THEN 0 ELSE frame[i]]
              ELSE frame
      at == IF first THEN 5 ELSE off
      size == IF first THEN Len(data) ELSE SizeAt(b) + Len(data)
      kept == IF first THEN <<>> ELSE SubSeq(b, 6, off)
      joined == <<IF first THEN b[1] - (b[1] % 16) ELSE b[1]>> \o SizeBytes(size)
                  \o kept \o data \o SubSeq(b, off + f.head + f.data + 1, Len(b))
      rest == IF flags >= Fin THEN DropBytes(joined, 5 + size) ELSE joined
      told == IF flags >= Fin THEN Incoming(c, flags, SubSeq(joined, 6, 5 + size)) ELSE c
  IN ClosedByte([told EXCEPT !.recv = rest], Memory(rest, Memory(joined, b))[at + 1])

\* mg_deliver_websocket_data on a whole frame
Deliver(c, off, f) ==
  LET b == c.recv
      flags == b[off + 1]
      masked == SubSeq(b, off + f.head + 1, off + f.head + f.data)
      data == IF f.mask = 0 THEN masked
              ELSE Masked(masked, SubSeq(b, off + f.head - 3, off + f.head))
      rest == DropBytes(b, f.head + f.data)
      first == IsFirstFragment(flags)
      next == [c EXCEPT !.resized = @ + (IF first THEN 1 ELSE 0)]
  IN IF IsFragment(b[1])
     THEN IF first /\ next.resized \in c.moves THEN Moved(next, off, f, data)
          ELSE Fragment(next, off, f, flags, data)
     ELSE ClosedByte([Incoming(c, flags, data) EXCEPT !.recv = rest],
                     Memory(rest, b)[1])

\* mg_ws_handler on MG_EV_RECV: every whole frame in the buffer
RECURSIVE WsReceived(_)
WsReceived(c) ==
  LET off == Reassembled(c.recv)
      f == FrameAt(c.recv, off)
  IN IF f.head > 0 /\ f.head + f.data <= Len(c.recv) - off
     THEN WsReceived(Deliver(c, off, f)) ELSE c

\* MG_EV_POLL: an idle connection is pinged.
WsPoll(c, now) == IF now > c.last + PingInterval THEN SendFrame(c, PingOp, <<>>) ELSE c
=============================================================================
