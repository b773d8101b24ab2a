-------------------------------- MODULE Mbuf --------------------------------
(***************************************************************************)
(* The byte buffers of common/mbuf.c that every connection reads into and  *)
(* writes from. A buffer is the sequence of its bytes; the capacity and    *)
(* the doubling of it are left out, since no caller looks at them.         *)
(***************************************************************************)
EXTENDS Naturals, Sequences

\* mbuf_insert: the bytes b enter the buffer a behind its first off bytes.
Insert(a, off, b) == SubSeq(a, 1, off) \o b \o SubSeq(a, off + 1, Len(a))

\* mbuf_append
AppendTo(a, b) == Insert(a, Len(a), b)

\* Mutant: a buffer is never emptied.
DropBytes_Strict(a, n) == IF n < Len(a) THEN SubSeq(a, n + 1, Len(a)) ELSE a

\* mbuf_remove: the first n bytes leave the buffer, unless it has fewer.
DropBytes(a, n) == IF n <= Len(a) THEN SubSeq(a, n + 1, Len(a)) ELSE a

\* A number of 16 bits as the two bytes that stand for it on the wire
U16(n) == <<(n \div 256) % 256, n % 256>>
GetU16(b, p) == b[p] * 256 + b[p + 1]
=============================================================================
