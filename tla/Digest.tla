------------------------------- MODULE Digest -------------------------------
(* What passwords and keys are turned into: base64, which mongoose encodes a piece at a time or
   in one go, and decodes, the basic authorization it carries, and how MD5 and SHA-1 cut what
   they are given, a piece at a time, into blocks. What a block does to the state is left open:
   a digest is the sequence of the blocks. *)
EXTENDS Uri

CONSTANTS
  \* Bytes in a block (64), and of those for the length (8)
  BlockSize, LengthSize

\* total: bytes so far; in: the buffer, whose first total % BlockSize bytes are waiting
Fresh == [total |-> 0, in |-> [i \in 1 .. BlockSize |-> 0], blocks |-> <<>>]

Waiting(ctx) == ctx.total % BlockSize

\* memcpy into the buffer
Put(ctx, at, data) == [ctx EXCEPT !.in = [i \in 1 .. BlockSize |->
                         IF i - at \in DOMAIN data THEN data[i - at] ELSE ctx.in[i]]]

Transform(ctx) == [ctx EXCEPT !.blocks = Append(@, ctx.in)]

RECURSIVE WholeBlocks(_, _)
WholeBlocks(ctx, data) ==
  IF Len(data) < BlockSize THEN Put(ctx, 0, data)
  ELSE WholeBlocks(Transform(Put(ctx, 0, data)), SubSeq(data, BlockSize + 1, Len(data)))

FillsUp(waiting, n) == n >= BlockSize - waiting

\* MD5_Update
MD5Update(ctx, data) ==
  LET t == Waiting(ctx)
      counted == [ctx EXCEPT !.total = @ + Len(data)]
      room == BlockSize - t
  IN IF t > 0 /\ ~FillsUp(t, Len(data)) THEN Put(counted, t, data)
     ELSE IF t > 0 THEN WholeBlocks(Transform(Put(counted, t, SubSeq(data, 1, room))),
                                    SubSeq(data, room + 1, Len(data)))
     ELSE WholeBlocks(counted, data)

Stopper == 128
Length(n) == [i \in 1 .. LengthSize |-> IF i = 1 THEN n ELSE 0]
Zeroes(n) == [i \in 1 .. n |-> 0]

\* MD5_Final
MD5Final(ctx) ==
  LET t == Waiting(ctx)
      left == BlockSize - 1 - t
      stopped == Put(ctx, t, <<Stopper>> \o Zeroes(left))
      padded == IF left < LengthSize THEN Put(Transform(stopped), 0, Zeroes(BlockSize - LengthSize))
                ELSE Put(ctx, t, <<Stopper>> \o Zeroes(left - LengthSize))
  IN Transform(Put(padded, BlockSize - LengthSize, Length(ctx.total))).blocks

\* cs_sha1_update
SHA1Update(ctx, data) ==
  LET j == Waiting(ctx)
      counted == [ctx EXCEPT !.total = @ + Len(data)]
      i == BlockSize - j
  IN IF ~FillsUp(j, Len(data)) THEN Put(counted, j, data)
     ELSE WholeBlocks(Transform(Put(counted, j, SubSeq(data, 1, i))),
                      SubSeq(data, i + 1, Len(data)))

\* cs_sha1_final: a byte at a time until only the length is missing
RECURSIVE Padded(_)
Padded(ctx) == IF Waiting(ctx) = BlockSize - LengthSize THEN ctx ELSE Padded(SHA1Update(ctx, <<0>>))
SHA1Final(ctx) ==
  SHA1Update(Padded(SHA1Update(ctx, <<Stopper>>)), Length(ctx.total)).blocks

\* cs_md5, mg_hash_sha1_v: pieces one after the other
MD5(pieces) == MD5Final(FoldLeft(MD5Update, Fresh, pieces))
SHA1(pieces) == SHA1Final(FoldLeft(SHA1Update, Fresh, pieces))

\* RFC 1321 and FIPS 180: the message, a stopper, zeroes up to the length, in blocks
Reference(message) ==
  LET n == Len(message)
      size == BlockSize * ((n + LengthSize + BlockSize) \div BlockSize)
      all == message \o <<Stopper>> \o Zeroes(size - n - 1 - LengthSize) \o Length(n)
  IN [b \in 1 .. size \div BlockSize |-> SubSeq(all, (b - 1) * BlockSize + 1, b * BlockSize)]

\* Whatever pieces a message comes in, of up to n bytes, the blocks are those of the standard.
BlocksRight(n) ==
  \A a, b, c \in 0 .. n :
    LET piece(first, len) == [i \in 1 .. len |-> first + i]
        pieces == <<piece(0, a), piece(a, b), piece(a + b, c)>>
    IN /\ MD5(pieces) = Reference(piece(0, a + b + c))
       /\ SHA1(pieces) = Reference(piece(0, a + b + c))
-----------------------------------------------------------------------------
Stop == 61

\* cs_base64_emit_code
Code(v) == CASE v < 26 -> v + 65 [] v \in 26 .. 51 -> v + 71 [] v \in 52 .. 61 -> v - 4
             [] OTHER -> IF v = 62 THEN 43 ELSE 47

\* cs_base64_emit_chunk, n of the three bytes there
EmitChunk(a, b, c, n) ==
  <<Code(a \div 4), Code(16 * (a % 4) + b \div 16)>>
    \o (IF n > 1 THEN <<Code(4 * (b % 16) + c \div 64)>> ELSE <<>>)
    \o (IF n > 2 THEN <<Code(c % 64)>> ELSE <<>>)

Started == [chunk |-> <<>>, out |-> <<>>]

AddByte(ctx, byte) ==
  LET chunk == Append(ctx.chunk, byte)
  IN IF Len(chunk) < 3 THEN [ctx EXCEPT !.chunk = chunk]
     ELSE [chunk |-> <<>>, out |-> ctx.out \o EmitChunk(chunk[1], chunk[2], chunk[3], 3)]

\* cs_base64_update
Update(ctx, data) == FoldLeft(AddByte, ctx, data)

\* cs_base64_finish
Finish(ctx) ==
  LET n == Len(ctx.chunk)
      byte(i) == IF i <= n THEN ctx.chunk[i] ELSE 0
  IN IF n = 0 THEN ctx.out
     ELSE ctx.out \o EmitChunk(byte(1), byte(2), byte(3), n) \o [i \in 1 .. 3 - n |-> Stop]

\* cs_base64_encode
Encode(src) ==
  LET n == Len(src)
      byte(i) == IF i <= n THEN src[i] ELSE 0
      chunk(k) == EmitChunk(byte(3 * k + 1), byte(3 * k + 2), byte(3 * k + 3), Min({3, n - 3 * k}))
      codes == FoldLeft(LAMBDA out, k : out \o chunk(k), <<>>, [k \in 1 .. (n + 2) \div 3 |-> k - 1])
  IN codes \o [i \in 1 .. ((4 - (Len(codes) % 4)) % 4) |-> Stop]

\* from_b64: 255 is no code, 200 the filler.
FromB64(ch) == LET c == ch % 128 IN
  CASE c \in 65 .. 90 -> c - 65 [] c \in 97 .. 122 -> c - 71 [] c \in 48 .. 57 -> c + 4
    [] c = 43 -> 62 [] c = 47 -> 63 [] c = Stop -> 200 [] OTHER -> 255

\* cs_base64_decode: whole groups up to one that is not right or has a filler
RECURSIVE Decode(_)
Decode(s) ==
  LET v(i) == FromB64(s[i])
      b1 == (4 * v(1) + v(2) \div 16) % 256
      b2 == (16 * v(2) + v(3) \div 4) % 256
      b3 == (64 * v(3) + v(4)) % 256
  IN IF Len(s) < 4 THEN <<>>
     ELSE IF \E i \in 1 .. 4 : v(i) = 255 THEN <<>>
     ELSE IF v(1) = 200 \/ v(2) = 200 THEN <<>>
     ELSE IF v(3) = 200 THEN <<b1>>
     ELSE IF v(4) = 200 THEN <<b1, b2>>
     ELSE <<b1, b2, b3>> \o Decode(SubSeq(s, 5, Len(s)))

Basic == <<66, 97, 115, 105, 99, Space>>

\* mg_basic_auth_header, without the name of the header; no password is Failed.
BasicAuth(user, pass) ==
  LET named == Update(Started, user)
      ctx == IF pass = Failed THEN named ELSE Update(Update(named, <<Colon>>), pass)
  IN Basic \o Finish(ctx)

\* mg_parse_http_basic_auth: sscanf with "%[^:]:%[^\n]", each at most so many characters. A
\* user without a name is an error; if nothing decodes, both are left as they were (<<-2>>).
ParseBasicAuth(hdr, room) ==
  LET buf == Decode(SubSeq(hdr, 7, Len(hdr)))
      text == SubSeq(buf, 1, NextOf(buf, {0}, 1) - 1)
      colon == Min({NextOf(text, {Colon}, 1), room})
      user == SubSeq(text, 1, colon - 1)
      end == Min({NextOf(text, {10}, colon + 1) - 1, colon + room - 1})
      pass == SubSeq(text, colon + 1, end)
  IN CASE ~StartsAt(hdr, Basic, 1) -> Failed
       [] StartsAt(hdr, Basic, 1) /\ text = <<>> -> <<<<-2>>, <<-2>>>>
       [] OTHER -> IF user = <<>> THEN Failed
                   ELSE <<user, IF StartsAt(text, <<Colon>>, colon) /\ pass # <<>> THEN pass ELSE <<-2>> >>

\* However it is cut into pieces, a text is encoded the same way and reads back; a user name
\* without a colon and a password reach the other side.
Base64ReadsBack ==
  /\ \A s \in SeqOf({0, 1, 77, 254, 255}, 5) :
       LET e == Encode(s) IN
       /\ Decode(e) = s /\ Len(e) % 4 = 0
       /\ \A cut \in 0 .. Len(s) :
            Finish(Update(Update(Started, SubSeq(s, 1, cut)), SubSeq(s, cut + 1, Len(s)))) = e
  /\ \A user \in SeqOf({97, 200}, 3) \ {<<>>}, pass \in SeqOf({97, Colon}, 3) :
       ParseBasicAuth(BasicAuth(user, pass), 10) = <<user, IF pass = <<>> THEN <<-2>> ELSE pass>>
=============================================================================
