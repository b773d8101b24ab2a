------------------------- MODULE EventManagerProofs -------------------------
(***************************************************************************)
(* What is proved of mongoose's event manager, for every number of         *)
(* connections and of threads, every program of calls and handlers, every  *)
(* clock and whatever the peers do: the list of connections and the        *)
(* pointers the loops save stay sound, the life of a connection as its     *)
(* handler sees it keeps to its protocol, no byte of a stream is lost or   *)
(* moved, and nobody is closed with output left unless there is a reason.  *)
(***************************************************************************)
EXTENDS EventManager, SequenceTheorems, TLAPS

(* Sequences *)

LEMMA Bytes ==
  ASSUME NEW S, NEW a \in Seq(S), NEW b \in Seq(S), NEW n \in Nat
  PROVE  /\ AppendTo(a, b) = a \o b /\ a \o b \in Seq(S)
         /\ DropBytes(a, n) \in Seq(S)
<1>1. Len(a) \in Nat /\ \A i \in 1 .. Len(a) : a[i] \in S
  BY LenProperties, ElementOfSeq
<1>2. SubSeq(a, 1, Len(a)) = a /\ SubSeq(a, Len(a) + 1, Len(a)) = <<>>
  BY <1>1, SubSeqFull, SubSeqEmpty
<1>3. a \o b \in Seq(S)
  BY ConcatProperties
<1>4. (a \o b) \o <<>> = a \o b
  BY <1>3, ConcatEmptySeq
<1>5. AppendTo(a, b) = a \o b
  BY <1>2, <1>4 DEF AppendTo, Insert
<1>6. DropBytes(a, n) \in Seq(S)
  <2>1. SubSeq(a, n + 1, Len(a)) \in Seq(S)
    <3>1. \A i \in n + 1 .. Len(a) : a[i] \in S
      BY <1>1
    <3> QED BY <1>1, <3>1, SubSeqProperties
  <2> QED BY <2>1 DEF DropBytes
<1> QED BY <1>3, <1>5, <1>6

LEMMA Removed ==
  ASSUME NEW S, NEW s \in Seq(S), NEW i \in 1 .. Len(s)
  PROVE  /\ RemoveAt(s, i) \in Seq(S) /\ Len(RemoveAt(s, i)) = Len(s) - 1
         /\ \A j \in 1 .. Len(s) - 1 : RemoveAt(s, i)[j] = IF j < i THEN s[j] ELSE s[j + 1]
<1> DEFINE a == SubSeq(s, 1, i - 1)
           b == SubSeq(s, i + 1, Len(s))
<1>0. Len(s) \in Nat /\ \A j \in 1 .. Len(s) : s[j] \in S
  BY LenProperties, ElementOfSeq
<1>1. /\ a \in Seq(S) /\ Len(a) = i - 1
      /\ \A j \in 1 .. i - 1 : a[j] = s[j]
  <2>1. \A j \in 1 .. i - 1 : s[j] \in S
    BY <1>0
  <2>2. /\ a \in Seq(S) /\ Len(a) = IF 1 <= i - 1 THEN (i - 1) - 1 + 1 ELSE 0
        /\ \A j \in 1 .. (i - 1) - 1 + 1 : a[j] = s[1 + j - 1]
    BY <1>0, <2>1, SubSeqProperties
  <2> HIDE DEF a
  <2> QED BY <1>0, <2>2
<1>2. /\ b \in Seq(S) /\ Len(b) = Len(s) - i
      /\ \A j \in 1 .. Len(s) - i : b[j] = s[i + j]
  <2>1. \A j \in i + 1 .. Len(s) : s[j] \in S
    BY <1>0
  <2>2. /\ b \in Seq(S) /\ Len(b) = IF i + 1 <= Len(s) THEN Len(s) - (i + 1) + 1 ELSE 0
        /\ \A j \in 1 .. Len(s) - (i + 1) + 1 : b[j] = s[(i + 1) + j - 1]
    BY <1>0, <2>1, SubSeqProperties
  <2> HIDE DEF b
  <2> QED BY <1>0, <2>2
<1>3. RemoveAt(s, i) = a \o b
  BY DEF RemoveAt
<1> HIDE DEF a, b
<1>4. /\ a \o b \in Seq(S) /\ Len(a \o b) = Len(a) + Len(b)
      /\ \A j \in 1 .. Len(a) + Len(b) : (a \o b)[j] = IF j <= Len(a) THEN a[j] ELSE b[j - Len(a)]
  BY <1>1, <1>2, ConcatProperties
<1>5. Len(a) + Len(b) = Len(s) - 1
  BY <1>0, <1>1, <1>2
<1>6. ASSUME NEW j \in 1 .. Len(s) - 1
      PROVE  (a \o b)[j] = IF j < i THEN s[j] ELSE s[j + 1]
  <2>1. CASE j < i
    BY <1>0, <1>1, <1>4, <1>5, <2>1
  <2>2. CASE ~(j < i)
    <3>1. j - Len(a) \in 1 .. Len(s) - i /\ i + (j - Len(a)) = j + 1 /\ ~(j <= Len(a))
      BY <1>0, <1>1, <2>2
    <3>2. (a \o b)[j] = b[j - Len(a)]
      BY <1>4, <1>5, <3>1
    <3> QED BY <1>2, <2>2, <3>1, <3>2
  <2> QED BY <2>1, <2>2
<1> QED BY <1>3, <1>4, <1>5, <1>6

LEMMA RemovedSet ==
  ASSUME NEW S, NEW s \in Seq(S), NEW i \in 1 .. Len(s), IsInjective(s)
  PROVE  IsInjective(RemoveAt(s, i)) /\ ToSet(RemoveAt(s, i)) = ToSet(s) \ {s[i]}
<1> DEFINE r == RemoveAt(s, i)
<1>0. /\ Len(s) \in Nat /\ DOMAIN s = 1 .. Len(s)
  BY LenProperties
<1>1. /\ r \in Seq(S) /\ Len(r) = Len(s) - 1
      /\ \A j \in 1 .. Len(s) - 1 : r[j] = IF j < i THEN s[j] ELSE s[j + 1]
  BY Removed
<1> HIDE DEF r
<1>2. DOMAIN r = 1 .. Len(s) - 1
  BY <1>1, LenProperties
<1>3. \A j, k \in 1 .. Len(s) : s[j] = s[k] => j = k
  BY <1>0 DEF IsInjective
<1>4. ASSUME NEW j \in DOMAIN r, NEW k \in DOMAIN r, r[j] = r[k] PROVE j = k
  <2> DEFINE f(n) == IF n < i THEN n ELSE n + 1
  <2>1. /\ f(j) \in 1 .. Len(s) /\ f(k) \in 1 .. Len(s) /\ r[j] = s[f(j)] /\ r[k] = s[f(k)]
        /\ f(j) = f(k) => j = k
    BY <1>0, <1>1, <1>2
  <2> HIDE DEF f
  <2> QED BY <1>3, <1>4, <2>1
<1>5. ASSUME NEW j \in DOMAIN r PROVE r[j] \in ToSet(s) /\ r[j] # s[i]
  <2> DEFINE f(n) == IF n < i THEN n ELSE n + 1
  <2>1. f(j) \in 1 .. Len(s) /\ r[j] = s[f(j)] /\ f(j) # i
    BY <1>0, <1>1, <1>2
  <2> HIDE DEF f
  <2> QED BY <1>0, <1>3, <2>1 DEF ToSet
<1>6. ASSUME NEW j \in 1 .. Len(s), s[j] # s[i] PROVE \E k \in DOMAIN r : r[k] = s[j]
  <2>1. CASE j < i
    <3>1. j \in DOMAIN r /\ r[j] = s[j]
      BY <1>0, <1>1, <1>2, <2>1
    <3> QED BY <3>1
  <2>2. CASE j > i
    <3>1. j - 1 \in DOMAIN r /\ r[j - 1] = s[j]
      BY <1>0, <1>1, <1>2, <2>2
    <3> QED BY <3>1
  <2> QED BY <1>0, <1>6, <2>1, <2>2
<1>7. IsInjective(r)
  BY <1>4 DEF IsInjective
<1>8. ToSet(r) = ToSet(s) \ {s[i]}
  BY <1>0, <1>5, <1>6 DEF ToSet
<1> QED BY <1>7, <1>8 DEF r

LEMMA Pushed ==
  ASSUME NEW S, NEW s \in Seq(S), NEW c \in S
  PROVE  /\ <<c>> \o s \in Seq(S) /\ ToSet(<<c>> \o s) = ToSet(s) \cup {c}
         /\ IsInjective(s) /\ c \notin ToSet(s) => IsInjective(<<c>> \o s)
<1> DEFINE r == <<c>> \o s
<1>0. Len(s) \in Nat /\ DOMAIN s = 1 .. Len(s)
  BY LenProperties
<1>1. <<c>> \in Seq(S) /\ Len(<<c>>) = 1 /\ <<c>>[1] = c
  OBVIOUS
<1>2. /\ r \in Seq(S) /\ Len(r) = 1 + Len(s)
      /\ \A i \in 1 .. 1 + Len(s) : r[i] = IF i <= 1 THEN <<c>>[i] ELSE s[i - 1]
  BY <1>1, ConcatProperties
<1> HIDE DEF r
<1>3. DOMAIN r = 1 .. 1 + Len(s)
  BY <1>2, LenProperties
<1>4. r[1] = c /\ \A i \in 2 .. 1 + Len(s) : r[i] = s[i - 1]
  BY <1>0, <1>1, <1>2
<1>5. \A i \in 1 .. Len(s) : r[i + 1] = s[i] /\ i + 1 \in DOMAIN r
  BY <1>0, <1>3, <1>4
<1>6. ToSet(r) = ToSet(s) \cup {c}
  <2>1. ASSUME NEW i \in DOMAIN r PROVE r[i] \in ToSet(s) \cup {c}
    BY <1>0, <1>3, <1>4 DEF ToSet
  <2>2. 1 \in DOMAIN r
    BY <1>0, <1>3
  <2>3. ASSUME NEW x \in ToSet(s) \cup {c} PROVE \E i \in DOMAIN r : r[i] = x
    BY <1>0, <1>4, <1>5, <2>2 DEF ToSet
  <2> QED BY <2>1, <2>3 DEF ToSet
<1>7. ASSUME IsInjective(s), c \notin ToSet(s), NEW i \in DOMAIN r, NEW j \in DOMAIN r, r[i] = r[j]
      PROVE  i = j
  <2>1. \A k \in 2 .. 1 + Len(s) : r[k] # c /\ k - 1 \in DOMAIN s /\ r[k] = s[k - 1]
    BY <1>0, <1>4, <1>7 DEF ToSet
  <2>2. CASE i = 1 \/ j = 1
    BY <1>0, <1>3, <1>4, <1>7, <2>1, <2>2
  <2>3. CASE i # 1 /\ j # 1
    <3>1. i \in 2 .. 1 + Len(s) /\ j \in 2 .. 1 + Len(s)
      BY <1>0, <1>3, <2>3
    <3>2. s[i - 1] = s[j - 1] /\ i - 1 \in DOMAIN s /\ j - 1 \in DOMAIN s
      BY <1>7, <2>1, <3>1
    <3>3. i - 1 = j - 1
      BY <1>7, <3>2 DEF IsInjective
    <3> QED BY <1>0, <3>1, <3>3
  <2> QED BY <2>2, <2>3
<1> QED BY <1>2, <1>6, <1>7 DEF r, IsInjective
-----------------------------------------------------------------------------
(* Types *)

Place == {"app", "ctl", "conn", "read", "datagram", "write", "poll", "timer", "sweep",
          "freeing", "freed", "crashed"}
Handling == {"read", "datagram", "write", "poll", "timer"}

ConnRec == [st : {"blank", "live", "freed"}, sock : Conn \cup {None}, flags : SUBSET Flags,
            listener : Conn \cup {None}, sa : Peer \cup {None}, err : BOOLEAN,
            recv : Seq(Nat), buf : {"own", "freed"}, send : Seq(Nat), timer : Nat]
Datagram == [from : Peer, kind : Kinds, data : Seq(Nat)]
Incoming == [to : Conn, kind : Kinds, data : Seq(Nat)]
SockState == {"none", "listening", "unconnected", "connecting", "up", "refused", "reset",
              "spent", "closed"}
SockRec == [st : SockState, rx : Seq(Nat) \cup Seq(Datagram), in : Nat, eof : BOOLEAN,
            tx : Seq(Nat), alien : SUBSET Conn, room : Nat, backlog : Nat]
FdsRec == [r : SUBSET Conn, w : SUBSET Conn, ctl : BOOLEAN, at : Nat]
Met == {"ACCEPT", "CONNECT", "CONNECT_FAILED", "CLOSE", "IO"}

TypeOK ==
  /\ conn \in [Conn -> ConnRec] /\ list \in Seq(Conn) /\ sock \in [Conn -> SockRec]
  /\ pc \in Place /\ cur \in Conn \cup {None} /\ next \in Conn \cup {None} /\ fds \in FdsRec
  /\ got \in {None} \cup Incoming
  /\ prog \in Programs /\ now \in Nat
  /\ seen \in [Conn -> Seq(Met)] /\ put \in [Conn -> Nat]
  /\ \A c \in Conn : put[c] <= prog.out

\* The bytes of a stream wait as bytes, those of datagrams by datagram.
WaitingOK == \A s \in Conn :
  sock[s].rx \in IF conn[s].st = "live" /\ "UDP" \in conn[s].flags THEN Seq(Datagram) ELSE Seq(Nat)

(* The list and the pointers into it *)

ListOK == IsInjective(list) /\ ToSet(list) = Live

CursorOK ==
  /\ cur \in Live \cup {None}
  /\ pc \in Handling => cur # None /\ next \in Live \cup {None}
  /\ pc \in {"app", "sweep", "freeing", "freed"} => cur = None
  /\ pc = "datagram" => got \in Incoming /\ conn[got.to].st = "live"

(* Which socket a connection has *)

SocketOK == \A c \in Conn :
  /\ conn[c].st = "blank" => sock[c] = NoSocket
  /\ conn[c].st = "live" /\ conn[c].sock # c => sock[c] = NoSocket
  /\ sock[c].st = "closed" => conn[c].st = "freed"
  /\ conn[c].st = "live" /\ conn[c].listener = None => conn[c].sock \in {None, c}
  /\ conn[c].st = "live" /\ conn[c].listener # None =>
       LET l == conn[c].listener
       IN  /\ conn[l].st # "blank" /\ l # c
           /\ conn[c].sock = IF "UDP" \in conn[c].flags THEN l ELSE c
           /\ conn[l].st = "live" => ("UDP" \in conn[l].flags <=> "UDP" \in conn[c].flags)

\* What select reported are sockets; a block without one has none of its traces.
KernelOK == /\ \A s \in Conn : sock[s].st = "none" => sock[s] = NoSocket
            /\ \A s \in fds.r \cup fds.w : sock[s].st # "none"

SourcesOK == \A c, d \in Conn :
  conn[c].st = "live" /\ conn[d].st = "live" /\ conn[c].listener # None
  /\ conn[c].listener = conn[d].listener /\ "UDP" \in conn[c].flags /\ conn[c].sa = conn[d].sa
    => c = d

\* A datagram socket that does not listen has somebody to talk to.
PartnerOK == \A c \in Conn :
  conn[c].st = "live" /\ "UDP" \in conn[c].flags /\ "LISTENING" \notin conn[c].flags
    => conn[c].sa # None

\* Only the number of a socket that is closed is given away.
HolderOK == holder \in [Conn -> Conn] /\ \A n \in Conn : conn[n].st # "freed" => holder[n] = n

\* Whoever wrote to the socket of another stands for a source of its datagrams, or of
\* those of a listener that is gone.
MayWrite(e, s) ==
  /\ conn[e].st # "blank"
  /\ conn[e].st = "live" => /\ "UDP" \in conn[e].flags /\ conn[e].listener # None
                           /\ \/ conn[e].listener = s
                              \/ conn[conn[e].listener].st = "freed"

AliensOK == \A s \in Conn : \A e \in sock[s].alien : MayWrite(e, s)

StructureInv == /\ TypeOK /\ WaitingOK /\ ListOK /\ CursorOK /\ SocketOK /\ KernelOK /\ SourcesOK
                /\ PartnerOK /\ HolderOK /\ AliensOK

(* What the handler was told *)

Begun == {<<"ACCEPT">>, <<"CONNECT">>}
InUse == {<<"ACCEPT", "IO">>, <<"CONNECT", "IO">>}
Story == {<<>>, <<"CONNECT_FAILED">>} \cup Begun \cup InUse

\* Listening, or not connected yet
Unsettled(r) == "LISTENING" \in r.flags \/ "CONNECTING" \in r.flags

Told(r, h) ==
  /\ r.st = "blank" => h = <<>>
  /\ r.st = "freed" => \E k \in Story : h = Append(k, "CLOSE")
  /\ r.st = "live" =>
       /\ IF Unsettled(r) THEN h = <<>> ELSE h \in {<<"CONNECT_FAILED">>} \cup Begun \cup InUse
       /\ ~("LISTENING" \in r.flags /\ "CONNECTING" \in r.flags)
       /\ r.listener # None => ~Unsettled(r)
       /\ "LISTENING" \in r.flags => r.send = <<>>

\* Only a socket that is up brings anything, and a connection whose connect failed or
\* is bound to fail has none.
Reached(r, h, k) ==
  /\ k.st # "up" => k.rx = <<>>
  /\ r.st = "live" /\ h = <<"CONNECT_FAILED">> =>
       k.st \notin {"up", "connecting"} /\ ("UDP" \in r.flags => r.sock = None)
  /\ r.st = "live" /\ r.err =>
       \/ r.sock = None /\ k = NoSocket
       \/ k.st = "unconnected" /\ "UDP" \notin r.flags

StoryOK == \A c \in Conn : Told(conn[c], seen[c]) /\ Reached(conn[c], seen[c], sock[c])

\* Whoever is still connecting when its turn comes to read has nothing to read or write,
\* and a datagram goes to a connection that is settled and has a socket.
ReadyOK ==
  /\ pc \in {"read", "write", "datagram"} /\ Is(cur, "CONNECTING") => ~FdRead(cur) /\ ~FdWrite(cur)
  /\ pc = "datagram" => /\ ~Unsettled(conn[got.to])
                        /\ "UDP" \in conn[got.to].flags /\ conn[got.to].sock # None

ProtocolInv == StructureInv /\ StoryOK /\ ReadyOK

-----------------------------------------------------------------------------
(* Calling the handler *)

\* What a handler cannot change of its connection
Shape(r, q) ==
  /\ q.st = r.st /\ q.sock = r.sock /\ q.listener = r.listener /\ q.sa = r.sa /\ q.err = r.err
  /\ \A f \in {"LISTENING", "UDP", "CONNECTING"} : f \in q.flags <=> f \in r.flags
  /\ "LISTENING" \in r.flags => q.send = r.send

\* A connection is called: q is what its handler leaves of it.
AfterCall(c, r, ev, q) ==
  /\ q \in ConnRec /\ Shape(r, q) /\ conn' = [conn EXCEPT ![c] = q]
  /\ seen' = [seen EXCEPT ![c] = Noted(seen[c], ev)]
  /\ put' \in [Conn -> Nat] /\ \A d \in Conn : put'[d] <= prog.out

LEMMA Counting == ASSUME NEW n \in Nat, NEW m \in Nat PROVE [i \in 1 .. n |-> m + i] \in Seq(Nat)
<1>1. [i \in 1 .. n |-> m + i] \in [1 .. n -> Nat]
  OBVIOUS
<1>2. [1 .. n -> Nat] \in {[1 .. k -> Nat] : k \in Nat}
  OBVIOUS
<1> QED BY <1>1, <1>2, SeqDef

LEMMA NoBytes ==
  ASSUME NEW m \in Nat, NEW a \in Seq(Nat) PROVE AppendTo(a, [i \in 1 .. 0 |-> m + i]) = a
<1> DEFINE b == [i \in 1 .. 0 |-> m + i]
<1>1. b \in Seq(Nat)
  BY Counting
<1>2. DOMAIN b = 1 .. 0
  OBVIOUS
<1> HIDE DEF b
<1>3. Len(b) \in Nat /\ DOMAIN b = 1 .. Len(b)
  BY <1>1, LenProperties
<1>4. Len(b) = 0
  BY <1>2, <1>3
<1>5. b = <<>>
  BY <1>1, <1>4, EmptySeq
<1>6. AppendTo(a, b) = a \o b
  BY <1>1, Bytes
<1> QED BY <1>5, <1>6, ConcatEmptySeq DEF b

LEMMA CallSteps ==
  ASSUME TypeOK, NEW c \in Conn, NEW r \in ConnRec, NEW ev \in Events, Call(c, r, ev)
  PROVE  \E q \in ConnRec : AfterCall(c, r, ev, q)
<1>0. /\ put \in [Conn -> Nat] /\ put[c] \in Nat /\ put[c] <= prog.out /\ now \in Nat
      /\ prog \in Programs /\ conn \in [Conn -> ConnRec] /\ \A d \in Conn : put[d] <= prog.out
  BY DEF TypeOK
<1>1. prog.out \in Nat /\ prog.handler[ev] \subseteq Response
  BY <1>0, ManagerConstants
<1>2. PICK resp \in prog.handler[ev] : Called(c, r, ev, resp)
  BY DEF Call
<1>3. /\ resp.send \in Nat /\ resp.raise \subseteq Modifiable /\ resp.clear \subseteq Modifiable
  BY <1>1, <1>2 DEF Response
<1> DEFINE n == IF "LISTENING" \in r.flags THEN 0
                ELSE IF put[c] + resp.send <= prog.out THEN resp.send ELSE prog.out - put[c]
           x == IF resp.take THEN DropBytes(r.recv, Len(r.recv)) ELSE r.recv
           y == AppendTo(r.send, [i \in 1 .. n |-> put[c] + i])
           g == (r.flags \ Modifiable) \cup
                  (((r.flags \cap Modifiable) \cup resp.raise) \ resp.clear)
           t == IF resp.arm /\ now < MaxTime THEN now + 1 ELSE IF ev = "TIMER" THEN 0 ELSE r.timer
           q == [r EXCEPT !.recv = x, !.send = y, !.flags = g, !.timer = t]
<1>4. n \in Nat /\ put[c] + n <= prog.out /\ put[c] + n \in Nat
  BY <1>0, <1>1, <1>3
<1>5. r.recv \in Seq(Nat) /\ r.send \in Seq(Nat) /\ r.flags \subseteq Flags /\ r.timer \in Nat
  BY DEF ConnRec
<1>6. conn' = [conn EXCEPT ![c] = q]
  BY <1>2 DEF Called
<1>7. put' = [put EXCEPT ![c] = put[c] + n] /\ seen' = [seen EXCEPT ![c] = Noted(seen[c], ev)]
  BY <1>0, <1>2 DEF Called
<1>8. x \in Seq(Nat)
  <2>1. Len(r.recv) \in Nat
    BY <1>5, LenProperties
  <2> QED BY <1>5, <2>1, Bytes
<1>9. y \in Seq(Nat)
  <2> HIDE DEF n
  <2>1. [i \in 1 .. n |-> put[c] + i] \in Seq(Nat)
    BY <1>0, <1>4, Counting
  <2> QED BY <1>4, <1>5, <2>1, Bytes
<1>10. t \in Nat
  BY <1>0, <1>5
<1>15. "LISTENING" \in r.flags => y = r.send
  BY <1>0, <1>5, NoBytes
<1>11. g \subseteq Flags /\ \A f \in {"LISTENING", "UDP", "CONNECTING"} : f \in g <=> f \in r.flags
  BY <1>3, <1>5 DEF Modifiable, Flags
<1> HIDE DEF n, x, y, g, t
<1>q. q = [r EXCEPT !.recv = x, !.send = y, !.flags = g, !.timer = t]
  OBVIOUS
<1> HIDE DEF q
<1>12. /\ q \in ConnRec /\ q.st = r.st /\ q.sock = r.sock /\ q.listener = r.listener
       /\ q.sa = r.sa /\ q.err = r.err /\ q.flags = g /\ q.send = y
  BY <1>8, <1>9, <1>10, <1>11, <1>q DEF ConnRec
<1>13. Shape(r, q)
  BY <1>11, <1>12, <1>15 DEF Shape
<1>14. put' \in [Conn -> Nat] /\ \A d \in Conn : put'[d] <= prog.out
  BY <1>0, <1>1, <1>4, <1>7
<1> QED BY <1>6, <1>7, <1>12, <1>13, <1>14 DEF AfterCall

(* The history of a connection *)

LEMMA Stories == Story \subseteq Seq(Met)
BY DEF Story, Begun, InUse, Met

LEMMA Noting ==
  ASSUME NEW h \in Seq(Met)
  PROVE  /\ Noted(h, "POLL") = h /\ Noted(h, "TIMER") = h
         /\ \A ev \in {"ACCEPT", "CONNECT", "CONNECT_FAILED", "CLOSE"} : Noted(h, ev) = Append(h, ev)
         /\ \A ev \in {"RECV", "SEND"} :
              Noted(h, ev) = IF h # <<>> /\ Last(h) = "IO" THEN h ELSE Append(h, "IO")
         /\ \A ev \in Events \cup {"CLOSE"} : Noted(h, ev) \in Seq(Met)
<1>1. h \o <<>> = h
  BY ConcatEmptySeq
<1>2. \A m \in Met : Append(h, m) = h \o <<m>> /\ Append(h, m) \in Seq(Met)
  BY AppendIsConcat, AppendProperties
<1>3. Noted(h, "POLL") = h /\ Noted(h, "TIMER") = h
  <2>1. Milestone("POLL") = <<>> /\ Milestone("TIMER") = <<>> /\ <<>> # <<"IO">>
    BY DEF Milestone
  <2> QED BY <1>1, <2>1 DEF Noted
<1>4. ASSUME NEW ev \in {"ACCEPT", "CONNECT", "CONNECT_FAILED", "CLOSE"}
      PROVE  Noted(h, ev) = Append(h, ev)
  <2>1. Milestone(ev) = <<ev>> /\ <<ev>> # <<"IO">>
    BY DEF Milestone
  <2>2. Noted(h, ev) = h \o <<ev>>
    BY <2>1 DEF Noted
  <2> QED BY <1>2, <2>2 DEF Met
<1>5. ASSUME NEW ev \in {"RECV", "SEND"}
      PROVE  Noted(h, ev) = IF h # <<>> /\ Last(h) = "IO" THEN h ELSE Append(h, "IO")
  <2>1. Milestone(ev) = <<"IO">>
    BY DEF Milestone
  <2> QED BY <1>2, <2>1 DEF Noted, Met
<1>6. ASSUME NEW ev \in Events \cup {"CLOSE"} PROVE Noted(h, ev) \in Seq(Met)
  BY <1>2, <1>3, <1>4, <1>5 DEF Events, Met
<1> QED BY <1>3, <1>4, <1>5, <1>6

LEMMA StoryBegins ==
  /\ Noted(<<>>, "ACCEPT") = <<"ACCEPT">> /\ Noted(<<>>, "CONNECT") = <<"CONNECT">>
  /\ Noted(<<>>, "CONNECT_FAILED") = <<"CONNECT_FAILED">>
<1>1. <<>> \in Seq(Met) /\ \A m \in Met : <<m>> \in Seq(Met)
  OBVIOUS
<1>2. \A m \in Met : Append(<<>>, m) = <<m>>
  BY <1>1, AppendIsConcat, ConcatEmptySeq
<1> QED BY <1>1, <1>2, Noting DEF Met

LEMMA Pairs == \A m, n \in Met : Append(<<m>>, n) = <<m, n>>
<1> SUFFICES ASSUME NEW m \in Met, NEW n \in Met PROVE Append(<<m>>, n) = <<m, n>>
  OBVIOUS
<1>1. <<m>> \in Seq(Met) /\ <<m, n>> \in Seq(Met) /\ Len(<<m>>) = 1 /\ Len(<<m, n>>) = 2
      /\ <<m>>[1] = m /\ <<m, n>>[1] = m /\ <<m, n>>[2] = n
  OBVIOUS
<1>2. /\ Append(<<m>>, n) \in Seq(Met) /\ Len(Append(<<m>>, n)) = 2
      /\ Append(<<m>>, n)[1] = m /\ Append(<<m>>, n)[2] = n
  BY <1>1, AppendProperties
<1>3. \A i \in 1 .. 2 : i = 1 \/ i = 2
  OBVIOUS
<1> QED BY <1>1, <1>2, <1>3, SeqEqual

LEMMA StoryGoesOn ==
  ASSUME NEW h \in Begun \cup InUse, NEW ev \in {"RECV", "SEND"}
  PROVE  Noted(h, ev) \in InUse
<1>1. h \in Seq(Met)
  BY Stories DEF Story
<1>2. CASE h \in InUse
  <2>1. h # <<>> /\ Last(h) = "IO"
    BY <1>2 DEF InUse, Last
  <2> QED BY <1>1, <1>2, <2>1, Noting
<1>3. CASE h \in Begun
  <2>0. Last(h) # "IO"
    BY <1>3 DEF Begun, Last
  <2>1. Append(h, "IO") \in InUse
    BY <1>3, Pairs DEF Begun, InUse, Met
  <2> QED BY <1>1, <2>0, <2>1, Noting
<1> QED BY <1>2, <1>3

\* The stories of connections that are still there do not end with the close.
LEMMA StoriesOpen == \A h \in Story : h # <<>> => Last(h) # "CLOSE"
BY DEF Story, Begun, InUse, Last
-----------------------------------------------------------------------------
(* What a step does to the list, the connections and their sockets *)

Alike(r, q) ==
  /\ q.st = r.st /\ q.sock = r.sock /\ q.listener = r.listener /\ q.sa = r.sa
  /\ "UDP" \in q.flags <=> "UDP" \in r.flags
  /\ "LISTENING" \in q.flags <=> "LISTENING" \in r.flags

SocketsGoOn == \A s \in Conn : /\ sock'[s].st = "closed" <=> sock[s].st = "closed"
                               /\ sock[s] = NoSocket => sock'[s] = NoSocket
                               /\ sock[s] # NoSocket => sock'[s].st # "none"
                               /\ \A e \in sock'[s].alien : e \in Conn /\ MayWrite(e, s)

\* What may become of a socket while its connection is there
Mild(a, b) == \/ b.st = a.st /\ b.rx = a.rx
              \/ a.st = "up" /\ b.st \in {"up", "reset"} /\ (b.st = "reset" => b.rx = <<>>)
              \/ a.st = "connecting" /\ b.st \in {"up", "refused"} /\ b.rx = a.rx
              \/ a.st \in {"refused", "reset"} /\ b.st = "spent" /\ b.rx = a.rx

LEMMA KernelKept == ASSUME StructureInv, fds' = fds, SocketsGoOn PROVE KernelOK'
<1>1. ASSUME NEW s \in Conn, sock'[s].st = "none" PROVE sock'[s] = NoSocket
  BY <1>1 DEF SocketsGoOn
<1>2. ASSUME NEW s \in fds.r \cup fds.w PROVE sock'[s].st # "none"
  <2>1. s \in Conn /\ sock[s].st # "none"
    BY DEF StructureInv, KernelOK, TypeOK, FdsRec
  <2>2. NoSocket.st = "none"
    BY DEF NoSocket
  <2> QED BY <2>1, <2>2 DEF SocketsGoOn
<1>3. NoSocket' = NoSocket
  BY DEF NoSocket
<1> QED BY <1>1, <1>2, <1>3 DEF KernelOK

LEMMA SteadyKeeps ==
  ASSUME StructureInv, list' = list, holder' = holder,
         \A c \in Conn : Alike(conn[c], conn'[c]), SocketsGoOn
  PROVE  ListOK' /\ SocketOK' /\ SourcesOK' /\ PartnerOK' /\ HolderOK' /\ AliensOK'
<1>1. Live' = Live
  BY DEF Live, Alike
<1>2. ListOK'
  BY <1>1 DEF StructureInv, ListOK
<1>3. SocketOK'
  <2> SUFFICES ASSUME NEW c \in Conn
               PROVE  /\ conn'[c].st = "blank" => sock'[c] = NoSocket
                      /\ conn'[c].st = "live" /\ conn'[c].sock # c => sock'[c] = NoSocket
                      /\ sock'[c].st = "closed" => conn'[c].st = "freed"
                      /\ conn'[c].st = "live" /\ conn'[c].listener = None => conn'[c].sock \in {None, c}
                      /\ conn'[c].st = "live" /\ conn'[c].listener # None =>
                           LET l == conn'[c].listener
                           IN  /\ conn'[l].st # "blank" /\ l # c
                               /\ conn'[c].sock = IF "UDP" \in conn'[c].flags THEN l ELSE c
                               /\ conn'[l].st = "live" => ("UDP" \in conn'[l].flags <=> "UDP" \in conn'[c].flags)
    BY DEF SocketOK, NoSocket
  <2>1. Alike(conn[c], conn'[c])
    OBVIOUS
  <2>2. conn[c].listener # None => conn[c].listener \in Conn
    BY DEF StructureInv, TypeOK, ConnRec
  <2>3. conn[c].listener # None => Alike(conn[conn[c].listener], conn'[conn[c].listener])
    BY <2>2
  <2> QED BY <2>1, <2>3 DEF Alike, SocketsGoOn, StructureInv, SocketOK
<1>4. SourcesOK'
  <2> SUFFICES ASSUME NEW c \in Conn, NEW d \in Conn,
                      conn'[c].st = "live", conn'[d].st = "live", conn'[c].listener # None,
                      conn'[c].listener = conn'[d].listener, "UDP" \in conn'[c].flags,
                      conn'[c].sa = conn'[d].sa
               PROVE  c = d
    BY DEF SourcesOK
  <2>1. Alike(conn[c], conn'[c]) /\ Alike(conn[d], conn'[d])
    OBVIOUS
  <2> QED BY <2>1 DEF Alike, StructureInv, SourcesOK
<1>5. PartnerOK'
  BY DEF Alike, StructureInv, PartnerOK
<1>6. HolderOK'
  BY DEF Alike, StructureInv, HolderOK
<1>7. AliensOK'
  <2> SUFFICES ASSUME NEW s \in Conn, NEW e \in sock'[s].alien PROVE MayWrite(e, s)'
    BY DEF AliensOK
  <2>1. MayWrite(e, s) /\ e \in Conn
    BY DEF SocketsGoOn
  <2>2. Alike(conn[e], conn'[e])
    BY <2>1
  <2>3. conn[e].listener # None => conn[e].listener \in Conn
    BY <2>1 DEF StructureInv, TypeOK, ConnRec
  <2>4. conn[e].listener # None => Alike(conn[conn[e].listener], conn'[conn[e].listener])
    BY <2>3
  <2> QED BY <2>1, <2>2, <2>4 DEF MayWrite, Alike
<1> QED BY <1>2, <1>3, <1>4, <1>5, <1>6, <1>7

LEMMA Typed ==
  ASSUME StructureInv
  PROVE  /\ TypeOK /\ conn \in [Conn -> ConnRec] /\ list \in Seq(Conn) /\ sock \in [Conn -> SockRec]
         /\ fds \in FdsRec /\ got \in {None} \cup Incoming
         /\ next \in Conn \cup {None} /\ cur \in Live \cup {None} /\ seen \in [Conn -> Seq(Met)]
         /\ put \in [Conn -> Nat] /\ (\A c \in Conn : put[c] <= prog.out) /\ prog.out \in Nat
         /\ now \in Nat /\ None \notin Conn /\ holder \in [Conn -> Conn]
BY ManagerConstants DEF StructureInv, TypeOK, CursorOK, HolderOK

\* The number a new socket gets is nobody's, or that of a socket that is closed.
LEMMA NumbersKeep ==
  ASSUME StructureInv, NEW c \in Conn, conn[c].st = "blank", Numbers(c)
  PROVE  holder' \in [Conn -> Conn] /\ \A n \in Conn : conn[n].st # "freed" => holder'[n] = n
<1>1. PICK s \in Dangling \cup {c} : holder' = [n \in Conn |-> IF holder[n] = s THEN c ELSE holder[n]]
  BY DEF Numbers
<1>2. holder \in [Conn -> Conn] /\ \A n \in Conn : conn[n].st # "freed" => holder[n] = n
  BY DEF StructureInv, HolderOK
<1>3. s \in Conn /\ (s = c \/ conn[s].st = "freed")
  <2>1. ASSUME s \in Dangling PROVE s \in Conn /\ conn[s].st = "freed"
    <3>1. PICK e \in ToSet(list) : s = SockOf(e) /\ IsFake(e) /\ sock[SockOf(e)].st = "closed"
      BY <2>1 DEF Dangling
    <3>2. e \in Conn /\ conn[e].st = "live" /\ "UDP" \in conn[e].flags /\ conn[e].listener # None
      BY <3>1 DEF StructureInv, ListOK, Live, IsFake, Is
    <3>3. conn[e].sock \in Conn
      BY <3>2 DEF StructureInv, SocketOK, TypeOK, ConnRec
    <3>4. s \in Conn
      BY <1>2, <3>1, <3>3 DEF SockOf
    <3> QED BY <3>1, <3>4 DEF StructureInv, SocketOK
  <2> QED BY <2>1
<1> QED BY <1>1, <1>2, <1>3

\* The descriptor of whoever is no source of datagrams is its own.
LEMMA OwnSocket ==
  ASSUME StructureInv, NEW c \in Live, HasSock(c)
  PROVE  /\ SockOf(c) \in Conn
         /\ ~IsFake(c) => conn[c].sock = c /\ SockOf(c) = c
         /\ IsFake(c) => /\ conn[c].sock = conn[c].listener /\ conn[c].listener \in Conn
                         /\ conn[conn[c].listener].st # "freed" => SockOf(c) = conn[c].listener
<1>1. c \in Conn /\ conn[c].st = "live" /\ conn[c] \in ConnRec /\ conn[c].sock \in Conn
  BY Typed DEF Live, HasSock, ConnRec
<1>2. holder \in [Conn -> Conn] /\ \A n \in Conn : conn[n].st # "freed" => holder[n] = n
  BY DEF StructureInv, HolderOK
<1>3. IsFake(c) => conn[c].sock = conn[c].listener
  BY <1>1 DEF StructureInv, SocketOK, IsFake, Is
<1>4. ~IsFake(c) => conn[c].sock = c
  <2>1. CASE conn[c].listener = None
    BY <1>1, <2>1 DEF StructureInv, SocketOK, HasSock
  <2>2. CASE conn[c].listener # None
    BY <1>1, <2>2 DEF StructureInv, SocketOK, IsFake, Is
  <2> QED BY <2>1, <2>2
<1> QED BY <1>1, <1>2, <1>3, <1>4 DEF SockOf

\* A connection that enters the list: on its own, or with the listener it came by.
Enters(e, q) ==
  /\ e \in Blank /\ q.st = "live" /\ conn' = [conn EXCEPT ![e] = q] /\ list' = <<e>> \o list
  /\ \A s \in Conn \ {e} : /\ sock'[s].st = "closed" <=> sock[s].st = "closed"
                           /\ sock[s] = NoSocket => sock'[s] = NoSocket
                           /\ sock'[s].alien = sock[s].alien
  /\ sock'[e].st # "closed" /\ sock'[e].alien = {} /\ (q.sock # e => sock'[e] = NoSocket)
  /\ holder' = holder \/ Numbers(e)
  /\ \/ q.listener = None /\ q.sock \in {None, e}
     \/ /\ q.listener \in Live /\ q.sock = (IF "UDP" \in q.flags THEN q.listener ELSE e)
        /\ "UDP" \in conn[q.listener].flags <=> "UDP" \in q.flags
        /\ "UDP" \in q.flags => \A d \in Live : ~(conn[d].listener = q.listener /\ conn[d].sa = q.sa)
  /\ "UDP" \in q.flags /\ "LISTENING" \notin q.flags => q.sa # None

LEMMA EntersKeeps ==
  ASSUME StructureInv, NEW e \in Conn, NEW q \in ConnRec, Enters(e, q)
  PROVE  ListOK' /\ SocketOK' /\ SourcesOK' /\ PartnerOK' /\ HolderOK' /\ AliensOK'
<1>0. /\ conn \in [Conn -> ConnRec] /\ list \in Seq(Conn) /\ conn[e].st = "blank"
      /\ None \notin Conn
  BY ManagerConstants DEF StructureInv, TypeOK, Enters, Blank
<1>1. conn'[e] = q /\ \A c \in Conn \ {e} : conn'[c] = conn[c]
  BY <1>0 DEF Enters
<1>2. Live' = Live \cup {e} /\ e \notin Live
  BY <1>0, <1>1 DEF Live, Enters
<1>3. ListOK'
  <2>1. IsInjective(list) /\ ToSet(list) = Live
    BY DEF StructureInv, ListOK
  <2>2. list' = <<e>> \o list
    BY DEF Enters
  <2>3. ToSet(list') = Live \cup {e} /\ IsInjective(list')
    BY <1>0, <1>2, <2>1, <2>2, Pushed
  <2> QED BY <1>2, <2>3 DEF ListOK
<1>4. SocketOK'
  <2> SUFFICES ASSUME NEW c \in Conn
               PROVE  /\ conn'[c].st = "blank" => sock'[c] = NoSocket
                      /\ conn'[c].st = "live" /\ conn'[c].sock # c => sock'[c] = NoSocket
                      /\ sock'[c].st = "closed" => conn'[c].st = "freed"
                      /\ conn'[c].st = "live" /\ conn'[c].listener = None => conn'[c].sock \in {None, c}
                      /\ conn'[c].st = "live" /\ conn'[c].listener # None =>
                           LET l == conn'[c].listener
                           IN  /\ conn'[l].st # "blank" /\ l # c
                               /\ conn'[c].sock = IF "UDP" \in conn'[c].flags THEN l ELSE c
                               /\ conn'[l].st = "live" => ("UDP" \in conn'[l].flags <=> "UDP" \in conn'[c].flags)
    BY DEF SocketOK, NoSocket
  <2>1. CASE c = e
    <3>1. CASE q.listener = None
      BY <1>0, <1>1, <2>1, <3>1 DEF Enters, Live
    <3>2. CASE q.listener # None
      <4>1. /\ q.listener \in Live /\ q.sock = (IF "UDP" \in q.flags THEN q.listener ELSE e)
            /\ "UDP" \in conn[q.listener].flags <=> "UDP" \in q.flags
        BY <3>2 DEF Enters
      <4>2. q.listener \in Conn /\ q.listener # e /\ conn'[q.listener] = conn[q.listener]
            /\ conn[q.listener].st = "live"
        BY <1>1, <1>2, <4>1 DEF Live
      <4> QED BY <1>1, <2>1, <3>2, <4>1, <4>2 DEF Enters
    <3> QED BY <3>1, <3>2
  <2>2. CASE c # e
    <3>1. conn'[c] = conn[c] /\ (sock'[c].st = "closed" <=> sock[c].st = "closed")
          /\ (sock[c] = NoSocket => sock'[c] = NoSocket)
      BY <1>1, <2>2 DEF Enters
    <3>2. /\ conn[c].st = "blank" => sock[c] = NoSocket
          /\ conn[c].st = "live" /\ conn[c].sock # c => sock[c] = NoSocket
          /\ sock[c].st = "closed" => conn[c].st = "freed"
          /\ conn[c].st = "live" /\ conn[c].listener = None => conn[c].sock \in {None, c}
      BY DEF StructureInv, SocketOK
    <3>3. CASE conn[c].st = "live" /\ conn[c].listener # None
      <4>1. /\ conn[conn[c].listener].st # "blank" /\ conn[c].listener # c
            /\ conn[c].sock = IF "UDP" \in conn[c].flags THEN conn[c].listener ELSE c
            /\ conn[conn[c].listener].st = "live"
                 => ("UDP" \in conn[conn[c].listener].flags <=> "UDP" \in conn[c].flags)
        BY <3>3 DEF StructureInv, SocketOK
      <4>2. conn[c].listener \in Conn \ {e}
        BY <1>0, <3>3, <4>1 DEF ConnRec
      <4> QED BY <1>1, <3>1, <3>2, <4>1, <4>2
    <3>4. CASE ~(conn[c].st = "live" /\ conn[c].listener # None)
      BY <3>1, <3>2, <3>4
    <3> QED BY <3>3, <3>4
  <2> QED BY <2>1, <2>2
<1>5. SourcesOK'
  <2> SUFFICES ASSUME NEW c \in Conn, NEW d \in Conn,
                      conn'[c].st = "live", conn'[d].st = "live", conn'[c].listener # None,
                      conn'[c].listener = conn'[d].listener, "UDP" \in conn'[c].flags,
                      conn'[c].sa = conn'[d].sa
               PROVE  c = d
    BY DEF SourcesOK
  <2>1. CASE c # e /\ d # e
    BY <1>1, <2>1 DEF StructureInv, SourcesOK
  <2>2. CASE c = e /\ d # e
    BY <1>1, <1>2, <2>2 DEF Enters, Live
  <2>3. CASE c # e /\ d = e
    <3>1. conn[c].st = "live" /\ conn[c].listener = q.listener /\ "UDP" \in conn[c].flags
          /\ q.listener # None /\ conn[c].sa = q.sa /\ c \in Live
      BY <1>1, <2>3 DEF Live
    <3>2. q.listener \in Live /\ ("UDP" \in conn[q.listener].flags <=> "UDP" \in q.flags)
      BY <3>1 DEF Enters
    <3>3. "UDP" \in q.flags
      BY <3>1, <3>2 DEF StructureInv, SocketOK, Live
    <3> QED BY <3>1, <3>3 DEF Enters
  <2> QED BY <2>1, <2>2, <2>3
<1>6. PartnerOK'
  BY <1>1 DEF Enters, StructureInv, PartnerOK
<1>7. HolderOK'
  BY <1>0, <1>1, NumbersKeep DEF Enters, StructureInv, HolderOK
<1>8. AliensOK'
  <2> SUFFICES ASSUME NEW s \in Conn, NEW d \in sock'[s].alien PROVE MayWrite(d, s)'
    BY DEF AliensOK
  <2>1. s # e /\ d \in sock[s].alien /\ MayWrite(d, s)
    BY DEF Enters, StructureInv, AliensOK
  <2>2. d \in Conn \ {e}
    BY <1>0, <2>1, Typed DEF SockRec, MayWrite
  <2>3. conn'[d] = conn[d] /\ conn[d] \in ConnRec
    BY <1>0, <1>1, <2>2
  <2>4. conn[d].listener # None => conn[d].listener \in Conn
    BY <2>3 DEF ConnRec
  <2>5. conn[d].listener # None /\ conn[conn[d].listener].st = "freed"
          => conn'[conn[d].listener] = conn[conn[d].listener]
    BY <1>0, <1>1, <2>4
  <2> QED BY <2>1, <2>3, <2>5 DEF MayWrite
<1> QED BY <1>3, <1>4, <1>5, <1>6, <1>7, <1>8

LEMMA FreedRec ==
  /\ Freed \in ConnRec /\ Freed.st = "freed" /\ NoSocket \in SockRec /\ NoSocket.st = "none"
  /\ NoSocket.rx = <<>> /\ NoSocket.alien = {}
  /\ \A s \in Conn \cup {None}, g \in SUBSET Flags, l \in Conn \cup {None}, a \in Peer \cup {None} :
       /\ NewConn(s, g, l, a) \in ConnRec /\ NewConn(s, g, l, a).st = "live"
       /\ NewConn(s, g, l, a).sock = s /\ NewConn(s, g, l, a).listener = l
       /\ NewConn(s, g, l, a).flags = g /\ NewConn(s, g, l, a).sa = a
       /\ ~NewConn(s, g, l, a).err /\ NewConn(s, g, l, a).buf = "own"
<1>1. <<>> \in Seq(Nat) /\ <<>> \in Seq(Datagram)
  OBVIOUS
<1>2. ASSUME NEW s \in Conn \cup {None}, NEW g \in SUBSET Flags, NEW l \in Conn \cup {None},
             NEW a \in Peer \cup {None}
      PROVE  /\ NewConn(s, g, l, a) \in ConnRec /\ NewConn(s, g, l, a).st = "live"
             /\ NewConn(s, g, l, a).sock = s /\ NewConn(s, g, l, a).listener = l
             /\ NewConn(s, g, l, a).flags = g /\ NewConn(s, g, l, a).sa = a
             /\ ~NewConn(s, g, l, a).err /\ NewConn(s, g, l, a).buf = "own"
  BY <1>1 DEF NewConn, ConnRec
<1>3. NewConn(None, {}, None, None) \in ConnRec
  BY <1>2
<1>4. Freed \in ConnRec /\ Freed.st = "freed"
  BY <1>3 DEF Freed, ConnRec
<1>5. NoSocket \in SockRec /\ NoSocket.st = "none" /\ NoSocket.rx = <<>> /\ NoSocket.alien = {}
  BY <1>1, ManagerConstants DEF NoSocket, SockRec, SockState
<1> QED BY <1>2, <1>4, <1>5

\* A connection that leaves the list, and with it the socket it owns.
LEMMA CloseKeeps ==
  ASSUME StructureInv, NEW i \in 1 .. Len(list), NEW there, CloseConn(i, there),
         holder' = holder
  PROVE  /\ ListOK' /\ SocketOK' /\ SourcesOK' /\ WaitingOK' /\ PartnerOK' /\ HolderOK' /\ AliensOK'
         /\ conn' \in [Conn -> ConnRec] /\ sock' \in [Conn -> SockRec] /\ list' \in Seq(Conn)
         /\ list[i] \in Live /\ conn'[list[i]] = Freed
         /\ \A d \in Conn \ {list[i]} : conn'[d] = conn[d] /\ sock'[d] = sock[d]
         /\ sock'[list[i]] = sock[list[i]] \/ sock'[list[i]].st = "closed"
         /\ sock'[list[i]].rx = <<>> /\ sock'[list[i]].tx = sock[list[i]].tx
         /\ sock'[list[i]].alien = sock[list[i]].alien
         /\ sock'[list[i]].st = "closed" => conn[list[i]].sock = list[i]
<1> DEFINE c == list[i]
<1>0. /\ conn \in [Conn -> ConnRec] /\ sock \in [Conn -> SockRec] /\ list \in Seq(Conn)
      /\ IsInjective(list) /\ ToSet(list) = Live /\ c \in Conn /\ None \notin Conn
  BY ManagerConstants, ElementOfSeq DEF StructureInv, TypeOK, ListOK
<1>1. c \in Live
  <2>1. i \in DOMAIN list
    BY <1>0, LenProperties
  <2> QED BY <1>0, <2>1 DEF ToSet
<1>2. /\ list' = RemoveAt(list, i) /\ conn' = [conn EXCEPT ![c] = Freed]
      /\ sock' = IF OwnsSocket(c) THEN [sock EXCEPT ![conn[c].sock].st = "closed",
                                                  ![conn[c].sock].rx = <<>>]
                 ELSE sock
  BY DEF CloseConn
<1> HIDE DEF c
<1>3. OwnsSocket(c) => conn[c].sock = c
  BY <1>0, <1>1 DEF OwnsSocket, HasSock, IsFake, Is, StructureInv, SocketOK, Live
<1>4. ~OwnsSocket(c) => sock[c] = NoSocket
  <2>1. ~OwnsSocket(c) => conn[c].sock # c
    BY <1>0, <1>1 DEF OwnsSocket, HasSock, IsFake, Is, StructureInv, SocketOK, Live
  <2> QED BY <1>0, <1>1, <2>1 DEF StructureInv, SocketOK, Live
<1>5. /\ conn' \in [Conn -> ConnRec] /\ conn'[c] = Freed /\ \A d \in Conn \ {c} : conn'[d] = conn[d]
  BY <1>0, <1>2, FreedRec
<1>6. /\ sock' \in [Conn -> SockRec] /\ sock'[c].rx = <<>> /\ sock'[c].tx = sock[c].tx
      /\ sock'[c].alien = sock[c].alien
      /\ sock'[c].st = "closed" => conn[c].sock = c
      /\ sock'[c] = sock[c] \/ sock'[c].st = "closed"
      /\ \A d \in Conn \ {c} : sock'[d] = sock[d]
  <2>1. CASE OwnsSocket(c)
    <3>1. sock' = [sock EXCEPT ![c].st = "closed", ![c].rx = <<>>]
      BY <1>2, <1>3, <2>1
    <3>2. <<>> \in Seq(Nat) /\ sock[c] \in SockRec
      BY <1>0
    <3>3. sock'[c] = [sock[c] EXCEPT !.st = "closed", !.rx = <<>>]
          /\ \A d \in Conn \ {c} : sock'[d] = sock[d]
      BY <1>0, <3>1
    <3>4. sock'[c] \in SockRec /\ sock'[c].rx = <<>> /\ sock'[c].st = "closed"
          /\ sock'[c].tx = sock[c].tx /\ sock'[c].alien = sock[c].alien
      BY <3>2, <3>3 DEF SockRec, SockState
    <3> QED BY <1>0, <1>3, <2>1, <3>1, <3>3, <3>4
  <2>2. CASE ~OwnsSocket(c)
    BY <1>0, <1>2, <1>4, <2>2, FreedRec
  <2> QED BY <2>1, <2>2
<1>7. Live' = Live \ {c}
  BY <1>5, FreedRec DEF Live
<1>8. list' \in Seq(Conn) /\ ListOK'
  <2>1. list' \in Seq(Conn)
    BY <1>0, <1>2, Removed
  <2>2. IsInjective(list') /\ ToSet(list') = Live \ {c}
    BY <1>0, <1>2, RemovedSet DEF c
  <2> QED BY <1>7, <2>1, <2>2 DEF ListOK
<1>9. SocketOK'
  <2> SUFFICES ASSUME NEW d \in Conn
               PROVE  /\ conn'[d].st = "blank" => sock'[d] = NoSocket
                      /\ conn'[d].st = "live" /\ conn'[d].sock # d => sock'[d] = NoSocket
                      /\ sock'[d].st = "closed" => conn'[d].st = "freed"
                      /\ conn'[d].st = "live" /\ conn'[d].listener = None => conn'[d].sock \in {None, d}
                      /\ conn'[d].st = "live" /\ conn'[d].listener # None =>
                           LET l == conn'[d].listener
                           IN  /\ conn'[l].st # "blank" /\ l # d
                               /\ conn'[d].sock = IF "UDP" \in conn'[d].flags THEN l ELSE d
                               /\ conn'[l].st = "live" => ("UDP" \in conn'[l].flags <=> "UDP" \in conn'[d].flags)
    BY DEF SocketOK, NoSocket
  <2>1. CASE d = c
    BY <1>5, <2>1, FreedRec
  <2>2. CASE d # c
    <3>1. conn'[d] = conn[d] /\ sock'[d] = sock[d]
      BY <1>5, <1>6, <2>2
    <3>2. /\ conn[d].st = "blank" => sock[d] = NoSocket
          /\ conn[d].st = "live" /\ conn[d].sock # d => sock[d] = NoSocket
          /\ sock[d].st = "closed" => conn[d].st = "freed"
          /\ conn[d].st = "live" /\ conn[d].listener = None => conn[d].sock \in {None, d}
      BY DEF StructureInv, SocketOK
    <3>3. CASE conn[d].st = "live" /\ conn[d].listener # None
      <4>1. /\ conn[conn[d].listener].st # "blank" /\ conn[d].listener # d
            /\ conn[d].sock = IF "UDP" \in conn[d].flags THEN conn[d].listener ELSE d
            /\ conn[conn[d].listener].st = "live"
                 => ("UDP" \in conn[conn[d].listener].flags <=> "UDP" \in conn[d].flags)
        BY <3>3 DEF StructureInv, SocketOK
      <4>2. conn[d].listener \in Conn
        BY <1>0, <3>3 DEF ConnRec
      <4>3. CASE conn[d].listener = c
        BY <1>5, <3>1, <3>2, <4>1, <4>3, FreedRec
      <4>4. CASE conn[d].listener # c
        BY <1>5, <3>1, <3>2, <4>1, <4>2, <4>4
      <4> QED BY <4>3, <4>4
    <3>4. CASE ~(conn[d].st = "live" /\ conn[d].listener # None)
      BY <3>1, <3>2, <3>4
    <3> QED BY <3>3, <3>4
  <2> QED BY <2>1, <2>2
<1>10. SourcesOK'
  <2>1. \A d \in Conn : conn'[d].st = "live" => conn'[d] = conn[d]
    BY <1>5, FreedRec
  <2> QED BY <2>1 DEF StructureInv, SourcesOK
<1>11. WaitingOK'
  <2>1. ASSUME NEW d \in Conn \ {c}
        PROVE  sock'[d].rx \in IF conn'[d].st = "live" /\ "UDP" \in conn'[d].flags
                               THEN Seq(Datagram) ELSE Seq(Nat)
    BY <1>5, <1>6 DEF StructureInv, WaitingOK
  <2>2. sock'[c].rx \in IF conn'[c].st = "live" /\ "UDP" \in conn'[c].flags
                        THEN Seq(Datagram) ELSE Seq(Nat)
    BY <1>5, <1>6, FreedRec
  <2> QED BY <2>1, <2>2 DEF WaitingOK
<1>12. PartnerOK'
  BY <1>5, FreedRec DEF StructureInv, PartnerOK
<1>13. HolderOK'
  BY <1>0, <1>5, FreedRec DEF StructureInv, HolderOK
<1>14. AliensOK'
  <2> SUFFICES ASSUME NEW s \in Conn, NEW d \in sock'[s].alien PROVE MayWrite(d, s)'
    BY DEF AliensOK
  <2>1. d \in sock[s].alien /\ MayWrite(d, s)
    BY <1>6 DEF StructureInv, AliensOK
  <2>2. d \in Conn
    BY <1>0, <2>1 DEF SockRec
  <2>3. CASE d = c
    BY <1>5, <2>3, FreedRec DEF MayWrite
  <2>4. CASE d # c
    <3>1. conn'[d] = conn[d] /\ conn[d] \in ConnRec
      BY <1>0, <1>5, <2>2, <2>4
    <3>2. conn[d].listener # None => conn[d].listener \in Conn
      BY <3>1 DEF ConnRec
    <3>3. conn[d].listener # None /\ conn[conn[d].listener].st = "freed"
            => conn'[conn[d].listener].st = "freed"
      BY <1>5, <3>2, FreedRec
    <3> QED BY <2>1, <3>1, <3>3 DEF MayWrite
  <2> QED BY <2>3, <2>4
<1> QED BY <1>1, <1>5, <1>6, <1>8, <1>9, <1>10, <1>11, <1>12, <1>13, <1>14 DEF c
-----------------------------------------------------------------------------
(* The steps keep the structure *)

\* What every step hands on that closes and opens no connection
HandedOn ==
  /\ conn' \in [Conn -> ConnRec] /\ \A d \in Conn : Alike(conn[d], conn'[d])
  /\ seen' \in [Conn -> Seq(Met)] /\ put' \in [Conn -> Nat]
  /\ \A d \in Conn : put'[d] <= prog.out

LEMMA IdleHandsOn == ASSUME StructureInv, conn' = conn, seen' = seen, put' = put PROVE HandedOn
BY Typed DEF HandedOn, Alike

LEMMA CalledAlike ==
  ASSUME StructureInv, NEW c \in Conn, NEW r \in ConnRec, Alike(conn[c], r), NEW ev \in Events,
         Call(c, r, ev)
  PROVE  HandedOn
<1>0. conn \in [Conn -> ConnRec] /\ seen \in [Conn -> Seq(Met)] /\ TypeOK
  BY DEF StructureInv, TypeOK
<1>1. PICK q \in ConnRec : AfterCall(c, r, ev, q)
  BY <1>0, CallSteps
<1>2. Alike(conn[c], q) /\ \A d \in Conn : Alike(conn[d], conn[d])
  BY <1>1 DEF AfterCall, Shape, Alike
<1>3. conn' \in [Conn -> ConnRec] /\ conn'[c] = q /\ \A d \in Conn \ {c} : conn'[d] = conn[d]
  BY <1>0, <1>1 DEF AfterCall
<1>4. Noted(seen[c], ev) \in Seq(Met)
  BY <1>0, Noting
<1>5. seen' \in [Conn -> Seq(Met)]
  BY <1>0, <1>1, <1>4 DEF AfterCall
<1> QED BY <1>1, <1>2, <1>3, <1>5 DEF AfterCall, HandedOn

LEMMA WaitingKept ==
  ASSUME StructureInv, \A c \in Conn : Alike(conn[c], conn'[c]) /\ sock'[c].rx = sock[c].rx
  PROVE  WaitingOK'
BY DEF WaitingOK, StructureInv, Alike

LEMMA SameSockets ==
  ASSUME StructureInv, sock' = sock
  PROVE  SocketsGoOn /\ \A c \in Conn : sock'[c].rx = sock[c].rx
<1>1. \A s \in Conn : sock[s].alien \subseteq Conn
  BY Typed DEF SockRec
<1> QED BY <1>1 DEF SocketsGoOn, StructureInv, KernelOK, AliensOK

LEMMA SteadyInv ==
  ASSUME StructureInv, TypeOK', WaitingOK', CursorOK', KernelOK', list' = list,
         holder' = holder, \A c \in Conn : Alike(conn[c], conn'[c]), SocketsGoOn
  PROVE  StructureInv'
BY SteadyKeeps DEF StructureInv

LEMMA SteadyLive ==
  ASSUME \A c \in Conn : Alike(conn[c], conn'[c]) PROVE Live' = Live
BY DEF Alike, Live

LEMMA OpenedKeeps ==
  ASSUME StructureInv, pc = "app", NEW c \in Blank, NEW r \in ConnRec, NEW s \in SockRec,
         r.st = "live", r.listener = None, r.sock \in {None, c}, r.sock # c => s = NoSocket,
         s.alien = {},
         s = NoSocket \/ s.st \notin {"none", "closed"}, s.rx = <<>>, Opened(c, r, s),
         "UDP" \in r.flags /\ "LISTENING" \notin r.flags => r.sa # None
  PROVE  StructureInv'
<1>0. /\ conn \in [Conn -> ConnRec] /\ sock \in [Conn -> SockRec] /\ list \in Seq(Conn)
      /\ c \in Conn /\ cur = None
  BY DEF StructureInv, TypeOK, CursorOK, Blank
<1>1. /\ conn' = [conn EXCEPT ![c] = r] /\ sock' = [sock EXCEPT ![c] = s] /\ list' = <<c>> \o list
      /\ pc' = pc /\ cur' = cur /\ next' = next /\ fds' = fds /\ got' = got /\ prog' = prog
      /\ now' = now /\ seen' = seen /\ put' = put /\ (holder' = holder \/ Numbers(c))
  BY DEF Opened, Kernel, History
<1>2. Enters(c, r)
  BY <1>0, <1>1, FreedRec DEF Enters
<1>3. conn' \in [Conn -> ConnRec] /\ sock' \in [Conn -> SockRec] /\ list' \in Seq(Conn)
  BY <1>0, <1>1, Pushed
<1>4. TypeOK'
  BY <1>1, <1>3 DEF StructureInv, TypeOK
<1>5. CursorOK'
  BY <1>0, <1>1 DEF CursorOK, Handling
<1>6. WaitingOK'
  <2>1. <<>> \in Seq(Nat) /\ <<>> \in Seq(Datagram)
    OBVIOUS
  <2> QED BY <1>0, <1>1, <2>1 DEF WaitingOK, StructureInv
<1>7. KernelOK'
  <2>1. sock'[c] = s /\ \A d \in Conn \ {c} : sock'[d] = sock[d]
    BY <1>0, <1>1
  <2>2. c \notin fds.r \cup fds.w
    BY FreedRec DEF StructureInv, KernelOK, SocketOK, Blank
  <2>3. \A d \in fds.r \cup fds.w : d \in Conn \ {c}
    BY <2>2 DEF StructureInv, TypeOK, FdsRec
  <2>4. NoSocket' = NoSocket
    BY DEF NoSocket
  <2> QED BY <1>1, <2>1, <2>3, <2>4 DEF StructureInv, KernelOK
<1> QED BY <1>2, <1>4, <1>5, <1>6, <1>7, <1>0, EntersKeeps DEF StructureInv

LEMMA NewSocket ==
  ASSUME NEW st \in SockState, NEW s, s = [NoSocket EXCEPT !.st = st]
  PROVE  s \in SockRec /\ s.st = st /\ s.rx = <<>> /\ s.alien = {}
BY FreedRec DEF SockRec

LEMMA WithError ==
  ASSUME NEW r \in ConnRec, NEW q, q = [r EXCEPT !.err = TRUE]
  PROVE  /\ q \in ConnRec /\ q.st = r.st /\ q.sock = r.sock /\ q.listener = r.listener
         /\ q.flags = r.flags /\ q.sa = r.sa
BY DEF ConnRec

LEMMA AppCallsKeepsStructure == ASSUME StructureInv, AppCalls PROVE StructureInv'
<1>0. pc = "app"
  BY DEF AppCalls
<1>1. PICK c \in Blank : \/ Bind(c, FALSE) \/ Bind(c, TRUE) \/ ConnectTcp(c)
                         \/ \E p \in Peer : ConnectUdp(c, p)
  BY DEF AppCalls
<1>2. c \in Conn /\ None \notin Conn
  BY ManagerConstants DEF Blank
<1>3. ASSUME NEW udp \in BOOLEAN, Bind(c, udp) PROVE StructureInv'
  <2> DEFINE r == NewConn(c, {"LISTENING"} \cup IF udp THEN {"UDP"} ELSE {}, None, None)
             s == [NoSocket EXCEPT !.st = IF udp THEN "up" ELSE "listening"]
  <2>1. {"LISTENING"} \cup (IF udp THEN {"UDP"} ELSE {}) \in SUBSET Flags
    BY DEF Flags
  <2>2. r \in ConnRec /\ r.st = "live" /\ r.sock = c /\ r.listener = None /\ "LISTENING" \in r.flags
    BY <1>2, <2>1, FreedRec
  <2>3. (IF udp THEN "up" ELSE "listening") \in SockState \ {"closed", "none"}
    BY DEF SockState
  <2>4. s \in SockRec /\ s.st \notin {"closed", "none"} /\ s.rx = <<>> /\ s.alien = {}
    BY <2>3, NewSocket
  <2>5. Opened(c, r, s)
    BY <1>3 DEF Bind
  <2> HIDE DEF r, s
  <2> QED BY <1>0, <2>2, <2>4, <2>5, OpenedKeeps
<1>4. CASE ConnectTcp(c)
  <2> DEFINE r(s) == NewConn(s, {"CONNECTING"}, None, None)
             q(s) == [r(s) EXCEPT !.err = TRUE]
             k(st) == [NoSocket EXCEPT !.st = st]
  <2>1. \A s \in {None, c} : /\ r(s) \in ConnRec /\ r(s).st = "live" /\ r(s).sock = s
                              /\ r(s).listener = None /\ "UDP" \notin r(s).flags
    BY <1>2, FreedRec DEF Flags
  <2>2. \A s \in {None, c} : /\ q(s) \in ConnRec /\ q(s).st = "live" /\ q(s).sock = s
                              /\ q(s).listener = None /\ "UDP" \notin q(s).flags
    <3> SUFFICES ASSUME NEW s \in {None, c}
                 PROVE  /\ q(s) \in ConnRec /\ q(s).st = "live" /\ q(s).sock = s
                        /\ q(s).listener = None /\ "UDP" \notin q(s).flags
      OBVIOUS
    <3> HIDE DEF r
    <3> QED BY <2>1, WithError
  <2>3. \A st \in {"unconnected", "connecting"} : k(st) \in SockRec /\ k(st).st \notin {"closed", "none"} /\ k(st).rx = <<>>
                                                        /\ k(st).alien = {}
    BY NewSocket DEF SockState
  <2>4. \/ Opened(c, q(None), NoSocket) \/ Opened(c, q(c), k("unconnected"))
        \/ Opened(c, r(c), k("connecting"))
    BY <1>4 DEF ConnectTcp
  <2> HIDE DEF r, q, k
  <2>5. CASE Opened(c, q(None), NoSocket)
    BY <1>0, <2>2, <2>5, OpenedKeeps, FreedRec
  <2>6. CASE Opened(c, q(c), k("unconnected"))
    BY <1>0, <2>2, <2>3, <2>6, OpenedKeeps
  <2>7. CASE Opened(c, r(c), k("connecting"))
    BY <1>0, <2>1, <2>3, <2>7, OpenedKeeps
  <2> QED BY <2>4, <2>5, <2>6, <2>7
<1>5. ASSUME NEW p \in Peer, ConnectUdp(c, p) PROVE StructureInv'
  <2> DEFINE r(s) == NewConn(s, {"CONNECTING", "UDP"}, None, p)
             q == [r(None) EXCEPT !.err = TRUE]
             k == [NoSocket EXCEPT !.st = "up"]
  <2>0. p # None
    BY ManagerConstants
  <2>1. \A s \in {None, c} : /\ r(s) \in ConnRec /\ r(s).st = "live" /\ r(s).sock = s
                              /\ r(s).listener = None /\ r(s).sa = p
    BY <1>2, FreedRec DEF Flags
  <2>2. q \in ConnRec /\ q.st = "live" /\ q.sock = None /\ q.listener = None /\ q.sa = p
    <3> HIDE DEF r
    <3> QED BY <2>1, WithError
  <2>3. k \in SockRec /\ k.st \notin {"closed", "none"} /\ k.rx = <<>> /\ k.alien = {}
    BY NewSocket DEF SockState
  <2>4. Opened(c, q, NoSocket) \/ Opened(c, r(c), k)
    BY <1>5 DEF ConnectUdp
  <2> HIDE DEF r, q, k
  <2>5. CASE Opened(c, q, NoSocket)
    BY <1>0, <2>0, <2>2, <2>5, OpenedKeeps, FreedRec
  <2>6. CASE Opened(c, r(c), k)
    BY <1>0, <2>0, <2>1, <2>3, <2>6, OpenedKeeps
  <2> QED BY <2>4, <2>5, <2>6
<1> QED BY <1>1, <1>3, <1>4, <1>5

LEMMA AppFreesKeepsStructure == ASSUME StructureInv, AppFrees PROVE StructureInv'
<1>1. /\ conn' = conn /\ list' = list /\ sock' = sock /\ pc' = pc /\ cur' = cur /\ next' = next
      /\ fds' = fds /\ got' = got /\ prog' = prog /\ now' = now /\ seen' = seen /\ put' = put
      /\ holder' = holder
  BY DEF AppFrees, Kernel, History
<1>5. KernelOK'
  BY <1>1, SameSockets, KernelKept
<1>2. TypeOK' /\ WaitingOK'
  BY <1>1 DEF StructureInv, TypeOK, WaitingOK
<1>3. CursorOK'
  BY <1>1 DEF StructureInv, CursorOK, Live
<1>4. \A c \in Conn : Alike(conn[c], conn'[c])
  BY <1>1 DEF Alike
<1> QED BY <1>1, <1>2, <1>3, <1>4, <1>5, SteadyInv, SameSockets

\* A step that leaves every connection in its place
LEMMA TurnKeeps ==
  ASSUME StructureInv, HandedOn, list' = list, holder' = holder, prog' = prog, now' = now,
         fds' \in FdsRec,
         SocketsGoOn, sock' \in [Conn -> SockRec], WaitingOK', KernelOK',
         got' \in {None} \cup Incoming,
         pc' \in Place, cur' \in Live \cup {None}, next' \in Conn \cup {None},
         pc' \in Handling => cur' # None /\ next' \in Live \cup {None},
         pc' \in {"app", "sweep", "freeing", "freed"} => cur' = None,
         pc' = "datagram" => got' \in Incoming /\ got'.to \in Live
  PROVE  StructureInv'
<1>1. Live' = Live
  BY SteadyLive DEF HandedOn
<1>2. TypeOK'
  BY DEF StructureInv, TypeOK, Live, HandedOn
<1>3. CursorOK'
  <2>1. pc' = "datagram" => conn'[got'.to].st = "live"
    BY <1>1 DEF Live
  <2> QED BY <1>1, <2>1 DEF CursorOK
<1> QED BY <1>2, <1>3, SteadyInv DEF HandedOn

LEMMA ListedLive ==
  ASSUME StructureInv
  PROVE  /\ First \in Live \cup {None}
         /\ \A c \in Live : After(c) \in Live \cup {None}
<1>0. list \in Seq(Conn) /\ ToSet(list) = Live /\ Len(list) \in Nat /\ DOMAIN list = 1 .. Len(list)
  BY LenProperties DEF StructureInv, TypeOK, ListOK
<1>1. \A i \in 1 .. Len(list) : list[i] \in Live
  BY <1>0 DEF ToSet
<1>2. First \in Live \cup {None}
  <2>1. CASE list # <<>>
    <3>1. 1 \in 1 .. Len(list) /\ Head(list) = list[1]
      BY <1>0, <2>1, EmptySeq
    <3> QED BY <1>1, <2>1, <3>1 DEF First
  <2> QED BY <2>1 DEF First
<1>3. ASSUME NEW c \in Live PROVE After(c) \in Live \cup {None}
  <2> DEFINE i == CHOOSE i \in DOMAIN list : list[i] = c
  <2>1. \E j \in DOMAIN list : list[j] = c
    BY <1>0 DEF ToSet
  <2>2. i \in 1 .. Len(list)
    BY <1>0, <2>1
  <2>3. After(c) = IF i < Len(list) THEN list[i + 1] ELSE None
    BY DEF After
  <2> HIDE DEF i
  <2> QED BY <1>0, <1>1, <2>2, <2>3
<1> QED BY <1>2, <1>3

LEMMA SelectKeepsStructure == ASSUME StructureInv, Select PROVE StructureInv'
<1>1. /\ conn' = conn /\ list' = list /\ sock' = sock /\ next' = next /\ cur' = First
      /\ got' = got /\ prog' = prog /\ now' = now /\ seen' = seen /\ put' = put
      /\ pc' \in {"ctl", "conn"} /\ holder' = holder
  BY DEF Select, Kernel, History
<1>2. fds' \in FdsRec
  <2> DEFINE fails == \E s \in ReadSet \cup WriteSet : sock[s].st = "closed"
             rs == {s \in ReadSet : ~fails /\ Readable(s)}
             ws == {s \in WriteSet : ~fails /\ Writable(s)}
             b == ~fails /\ ctl.msgs # <<>>
  <2>1. fds' = [r |-> rs, w |-> ws, ctl |-> b, at |-> now]
    BY DEF Select
  <2>2. ReadSet \subseteq Conn /\ WriteSet \subseteq Conn
    <3>1. \A c \in ToSet(list) : HasSock(c) => SockOf(c) \in Conn
      BY OwnSocket DEF StructureInv, ListOK
    <3> QED BY <3>1 DEF ReadSet, WriteSet
  <2>3. rs \subseteq Conn /\ ws \subseteq Conn
    BY <2>2
  <2>4. b \in BOOLEAN
    OBVIOUS
  <2>5. now \in Nat
    BY DEF StructureInv, TypeOK
  <2> HIDE DEF rs, ws, b
  <2> QED BY <2>1, <2>3, <2>4, <2>5 DEF FdsRec
<1>5. KernelOK'
  <2>1. \A s \in fds'.r \cup fds'.w : s \in ReadSet \cup WriteSet /\ (Readable(s) \/ Writable(s))
    BY DEF Select
  <2>2. ReadSet \cup WriteSet \subseteq Conn
    <3>1. \A c \in ToSet(list) : HasSock(c) => SockOf(c) \in Conn
      BY OwnSocket DEF StructureInv, ListOK
    <3> QED BY <3>1 DEF ReadSet, WriteSet
  <2>3. /\ NoSocket.st = "none" /\ NoSocket.rx = <<>> /\ ~NoSocket.eof /\ NoSocket.backlog = 0
        /\ NoSocket' = NoSocket
    BY DEF NoSocket
  <2>4. \A s \in Conn : Readable(s) \/ Writable(s) => sock[s].st # "none"
    <3> SUFFICES ASSUME NEW s \in Conn, sock[s].st = "none" PROVE ~Readable(s) /\ ~Writable(s)
      OBVIOUS
    <3>1. sock[s] = NoSocket
      BY DEF StructureInv, KernelOK
    <3>2. ~(0 > 0)
      OBVIOUS
    <3> QED BY <2>3, <3>1, <3>2 DEF Readable, Writable, Failed
  <2> QED BY <1>1, <2>1, <2>2, <2>3, <2>4 DEF StructureInv, KernelOK
<1>3. HandedOn /\ WaitingOK'
  BY <1>1, IdleHandsOn, WaitingKept, SameSockets DEF HandedOn
<1>4. pc' \in Place \ {"datagram"} /\ pc' \notin Handling /\ pc' \notin {"app", "sweep", "freeing", "freed"}
  BY <1>1 DEF Place, Handling
<1> QED BY <1>1, <1>2, <1>3, <1>4, <1>5, TurnKeeps, SameSockets, ListedLive, Typed

LEMMA Sending ==
  ASSUME NEW r \in ConnRec, NEW y \in Seq(Nat), NEW q, q = [r EXCEPT !.send = y]
  PROVE  /\ q \in ConnRec /\ Alike(r, q) /\ q.flags = r.flags /\ q.err = r.err
         /\ q.recv = r.recv /\ q.send = y
BY DEF ConnRec, Alike

LEMMA Receiving ==
  ASSUME NEW r \in ConnRec, NEW y \in Seq(Nat), NEW b \in {"own", "freed"},
         NEW q, q = [r EXCEPT !.recv = y, !.buf = b]
  PROVE  /\ q \in ConnRec /\ Alike(r, q) /\ q.flags = r.flags /\ q.err = r.err
         /\ q.send = r.send /\ q.recv = y
BY DEF ConnRec, Alike

LEMMA CtlSockTells ==
  ASSUME StructureInv, HandleCtlSock
  PROVE  HandedOn /\ \A c \in Conn : Shape(conn[c], conn'[c])
<1> DEFINE told == {c \in ToSet(list) : ~Is(c, "LISTENING") /\ put[c] < prog.out}
<1>1. /\ seen' = seen
      /\ conn' = [c \in Conn |-> IF c \in told
                    THEN [conn[c] EXCEPT !.send = AppendTo(conn[c].send, <<put[c] + 1>>)] ELSE conn[c]]
      /\ put' = [c \in Conn |-> IF c \in told THEN put[c] + 1 ELSE put[c]]
  BY DEF HandleCtlSock
<1>2. put' \in [Conn -> Nat] /\ \A c \in Conn : put'[c] <= prog.out
  BY <1>1, Typed
<1>3. ASSUME NEW c \in Conn
      PROVE  conn'[c] \in ConnRec /\ Alike(conn[c], conn'[c]) /\ Shape(conn[c], conn'[c])
  <2>1. CASE c \in told
    <3> DEFINE y == AppendTo(conn[c].send, <<put[c] + 1>>)
    <3>1. conn[c] \in ConnRec /\ conn[c].send \in Seq(Nat) /\ <<put[c] + 1>> \in Seq(Nat)
      BY Typed DEF ConnRec
    <3>2. y \in Seq(Nat)
      BY <3>1, Bytes
    <3>3. conn'[c] = [conn[c] EXCEPT !.send = y]
      BY <1>1, <2>1
    <3>4. "LISTENING" \notin conn[c].flags
      BY <2>1 DEF Is
    <3> HIDE DEF y, told
    <3> QED BY <3>1, <3>2, <3>3, <3>4, Sending DEF Alike, Shape
  <2>2. CASE c \notin told
    BY <1>1, <2>2, Typed DEF Alike, Shape
  <2> QED BY <2>1, <2>2
<1> HIDE DEF told
<1> QED BY <1>1, <1>2, <1>3, Typed DEF HandedOn

LEMMA HandleCtlSockKeepsStructure == ASSUME StructureInv, HandleCtlSock PROVE StructureInv'
<1>1. /\ list' = list /\ sock' = sock /\ next' = next /\ cur' = cur /\ fds' = fds
      /\ got' = got /\ prog' = prog /\ now' = now /\ pc' = "conn" /\ holder' = holder
  BY DEF HandleCtlSock
<1>2. HandedOn
  BY CtlSockTells
<1>3. WaitingOK' /\ KernelOK'
  BY <1>1, <1>2, WaitingKept, SameSockets, KernelKept DEF HandedOn
<1>4. "conn" \in Place /\ "conn" \notin Handling
  BY DEF Place, Handling
<1> QED BY <1>1, <1>2, <1>3, <1>4, TurnKeeps, SameSockets, Typed

LEMMA Flagging ==
  ASSUME NEW r \in ConnRec, NEW g \in SUBSET Flags, "UDP" \in g <=> "UDP" \in r.flags,
         "LISTENING" \in g <=> "LISTENING" \in r.flags,
         NEW q, q = [r EXCEPT !.flags = g]
  PROVE  q \in ConnRec /\ Alike(r, q) /\ q.flags = g /\ q.err = r.err /\ q.send = r.send /\ q.recv = r.recv
BY DEF ConnRec, Alike

LEMMA ConnectedCalls ==
  ASSUME StructureInv, NEW c \in Conn, NEW err \in BOOLEAN, Connected(c, err)
  PROVE  \E r \in ConnRec : /\ Alike(conn[c], r) /\ r.err = conn[c].err
                            /\ r.recv = conn[c].recv /\ r.send = conn[c].send
                            /\ r.flags \ Modifiable = (conn[c].flags \ {"CONNECTING"}) \ Modifiable
                            /\ Call(c, r, IF err THEN "CONNECT_FAILED" ELSE "CONNECT")
<1> DEFINE g == conn[c].flags \ {"CONNECTING"}
           h == g \cup {"CLOSE_IMMEDIATELY"}
           r == [conn[c] EXCEPT !.flags = g]
           b == [r EXCEPT !.flags = h]
<1>0. conn[c] \in ConnRec
  BY DEF StructureInv, TypeOK
<1>1. g \in SUBSET Flags /\ h \in SUBSET Flags /\ conn[c].flags \in SUBSET Flags
  BY <1>0 DEF ConnRec, Flags
<1>2. Broken(r) = [r EXCEPT !.flags = r.flags \cup {"CLOSE_IMMEDIATELY"}]
  BY DEF Broken
<1>3. Connected(c, err) <=> Call(c, IF err THEN Broken(r) ELSE r, IF err THEN "CONNECT_FAILED" ELSE "CONNECT")
  BY DEF Connected
<1>4. /\ ("UDP" \in g <=> "UDP" \in conn[c].flags) /\ ("UDP" \in h <=> "UDP" \in g)
      /\ ("LISTENING" \in g <=> "LISTENING" \in conn[c].flags)
      /\ ("LISTENING" \in h <=> "LISTENING" \in g)
  OBVIOUS
<1>5. g \ Modifiable = (conn[c].flags \ {"CONNECTING"}) \ Modifiable
      /\ h \ Modifiable = (conn[c].flags \ {"CONNECTING"}) \ Modifiable
  BY DEF Modifiable
<1>r. r = [conn[c] EXCEPT !.flags = g]
  OBVIOUS
<1> HIDE DEF r
<1>6. r \in ConnRec /\ Alike(conn[c], r) /\ r.flags = g /\ r.err = conn[c].err
      /\ r.recv = conn[c].recv /\ r.send = conn[c].send
  BY <1>0, <1>1, <1>4, <1>r, Flagging
<1>7. Broken(r) = b
  BY <1>2, <1>6
<1>b. b = [r EXCEPT !.flags = h]
  OBVIOUS
<1> HIDE DEF b, g, h
<1>8. b \in ConnRec /\ Alike(r, b) /\ b.flags = h /\ b.err = r.err
      /\ b.recv = r.recv /\ b.send = r.send
  BY <1>1, <1>4, <1>6, <1>b, Flagging
<1>9. Alike(conn[c], b)
  BY <1>6, <1>8 DEF Alike
<1>10. CASE err
  <2>1. Call(c, b, "CONNECT_FAILED")
    BY <1>3, <1>7, <1>10
  <2> QED BY <1>5, <1>6, <1>8, <1>9, <1>10, <2>1
<1>11. CASE ~err
  <2>1. Call(c, r, "CONNECT")
    BY <1>3, <1>11
  <2> QED BY <1>5, <1>6, <1>11, <2>1
<1> QED BY <1>10, <1>11

LEMMA CalledOrNot ==
  ASSUME StructureInv, NEW c \in Conn, NEW r \in ConnRec, Alike(conn[c], r), NEW ev \in Events,
         Call(c, r, ev) \/ UNCHANGED <<conn, History>>
  PROVE  HandedOn
BY CalledAlike, IdleHandsOn DEF History

LEMMA HandleConnectingCalls == ASSUME StructureInv, HandleConnecting PROVE HandedOn
<1>1. cur \in Conn
  BY Typed DEF HandleConnecting, Live
<1>2. ASSUME NEW err \in BOOLEAN, Connected(cur, err) PROVE HandedOn
  <2>1. PICK r \in ConnRec : Alike(conn[cur], r) /\ Call(cur, r, IF err THEN "CONNECT_FAILED" ELSE "CONNECT")
    BY <1>1, <1>2, ConnectedCalls
  <2>2. (IF err THEN "CONNECT_FAILED" ELSE "CONNECT") \in Events
    BY DEF Events
  <2> QED BY <1>1, <2>1, <2>2, CalledAlike
<1>3. (~Is(cur, "UDP") /\ sock[cur].st \in {"refused", "reset"}) \in BOOLEAN /\ TRUE \in BOOLEAN
  OBVIOUS
<1>4. \/ Connected(cur, ~Is(cur, "UDP") /\ sock[cur].st \in {"refused", "reset"})
      \/ Connected(cur, TRUE) \/ UNCHANGED <<conn, History>>
  BY DEF HandleConnecting
<1> QED BY <1>2, <1>3, <1>4, IdleHandsOn DEF History

LEMMA HandleConnectingKeepsStructure == ASSUME StructureInv, HandleConnecting PROVE StructureInv'
<1>1. /\ list' = list /\ sock' = sock /\ cur' = cur /\ fds' = fds /\ got' = got /\ prog' = prog
      /\ now' = now /\ pc' = "read" /\ next' = After(cur) /\ cur # None /\ holder' = holder
  BY DEF HandleConnecting, Kernel
<1>2. HandedOn
  BY HandleConnectingCalls
<1>3. WaitingOK' /\ KernelOK'
  BY <1>1, <1>2, WaitingKept, SameSockets, KernelKept DEF HandedOn
<1>4. "read" \in Place
  BY DEF Place
<1>5. cur \in Live /\ After(cur) \in Live \cup {None}
  BY <1>1, Typed, ListedLive
<1>6. Live \subseteq Conn
  BY DEF Live
<1> QED BY <1>1, <1>2, <1>3, <1>4, <1>5, <1>6, TurnKeeps, SameSockets, Typed

LEMMA ReceivedCalls ==
  ASSUME StructureInv, NEW c \in Conn, NEW b \in Seq(Nat), Received(c, b) PROVE HandedOn
<1> DEFINE y == AppendTo(conn[c].recv, b)
           f == IF b = <<>> THEN "freed" ELSE conn[c].buf
           q == [conn[c] EXCEPT !.recv = y, !.buf = f]
<1>1. conn[c] \in ConnRec /\ conn[c].recv \in Seq(Nat) /\ f \in {"own", "freed"}
  BY Typed DEF ConnRec
<1>2. y \in Seq(Nat)
  BY <1>1, Bytes
<1>3. Call(c, q, "RECV") \/ UNCHANGED <<conn, History>>
  BY DEF Received
<1>q. q = [conn[c] EXCEPT !.recv = y, !.buf = f]
  OBVIOUS
<1> HIDE DEF q, y, f
<1>4. q \in ConnRec /\ Alike(conn[c], q)
  BY <1>1, <1>2, <1>q, Receiving
<1> QED BY <1>3, <1>4, CalledOrNot DEF Events

LEMMA FlaggedKeeps ==
  ASSUME StructureInv, NEW c \in Conn, NEW f \in Modifiable, Flagged(c, f)
  PROVE  HandedOn /\ seen' = seen /\ \A d \in Conn : Shape(conn[d], conn'[d])
<1> DEFINE g == conn[c].flags \cup {f}
           q == [conn[c] EXCEPT !.flags = g]
<1>1. conn[c] \in ConnRec /\ conn \in [Conn -> ConnRec]
  BY Typed
<1>2. g \in SUBSET Flags /\ ("UDP" \in g <=> "UDP" \in conn[c].flags)
      /\ ("LISTENING" \in g <=> "LISTENING" \in conn[c].flags)
      /\ ("CONNECTING" \in g <=> "CONNECTING" \in conn[c].flags)
  BY <1>1 DEF ConnRec, Modifiable, Flags
<1>3. conn' = [conn EXCEPT ![c] = q] /\ seen' = seen /\ put' = put
  BY <1>1 DEF Flagged
<1>q. q = [conn[c] EXCEPT !.flags = g]
  OBVIOUS
<1> HIDE DEF q, g
<1>4. /\ q \in ConnRec /\ Alike(conn[c], q) /\ q.flags = g /\ q.err = conn[c].err
      /\ q.send = conn[c].send
  BY <1>1, <1>2, <1>q, Flagging
<1>5. \A d \in Conn : Alike(conn[d], conn[d]) /\ Shape(conn[d], conn[d])
  BY DEF Alike, Shape
<1>6. Shape(conn[c], q)
  BY <1>2, <1>4 DEF Alike, Shape
<1> QED BY <1>1, <1>2, <1>3, <1>4, <1>5, <1>6, Typed DEF HandedOn

\* One socket moves on.
LEMMA SocketMoves ==
  ASSUME StructureInv, NEW c \in Conn, NEW q \in SockRec, sock' = [sock EXCEPT ![c] = q],
         sock[c] # NoSocket, q.st # "none", q.st = "closed" <=> sock[c].st = "closed",
         \A d \in Conn : Alike(conn[d], conn'[d]),
         \A e \in q.alien \ sock[c].alien : MayWrite(e, c),
         q.rx \in IF conn[c].st = "live" /\ "UDP" \in conn[c].flags THEN Seq(Datagram) ELSE Seq(Nat)
  PROVE  SocketsGoOn /\ sock' \in [Conn -> SockRec] /\ WaitingOK'
<1>1. sock \in [Conn -> SockRec] /\ sock'[c] = q /\ \A d \in Conn \ {c} : sock'[d] = sock[d]
  BY Typed
<1>2. SocketsGoOn
  <2>1. q.alien \subseteq Conn /\ \A s \in Conn : sock[s].alien \subseteq Conn
    BY <1>1 DEF SockRec
  <2> QED BY <1>1, <2>1 DEF SocketsGoOn, StructureInv, KernelOK, AliensOK
<1>3. sock' \in [Conn -> SockRec]
  BY <1>1
<1>4. WaitingOK'
  <2> SUFFICES ASSUME NEW d \in Conn
               PROVE  sock'[d].rx \in IF conn'[d].st = "live" /\ "UDP" \in conn'[d].flags
                                      THEN Seq(Datagram) ELSE Seq(Nat)
    BY DEF WaitingOK
  <2>1. Alike(conn[d], conn'[d])
    OBVIOUS
  <2>2. sock[d].rx \in IF conn[d].st = "live" /\ "UDP" \in conn[d].flags THEN Seq(Datagram) ELSE Seq(Nat)
    BY DEF StructureInv, WaitingOK
  <2> QED BY <1>1, <2>1, <2>2 DEF Alike
<1> QED BY <1>2, <1>3, <1>4

LEMMA Draining ==
  ASSUME NEW s \in SockRec, NEW x \in Seq(Nat) \cup Seq(Datagram), NEW q, q = [s EXCEPT !.rx = x]
  PROVE  q \in SockRec /\ q.st = s.st /\ q.rx = x /\ q.tx = s.tx /\ q.in = s.in /\ q.alien = s.alien
BY DEF SockRec

LEMMA Fewer ==
  ASSUME NEW s \in SockRec, NEW n \in Nat, NEW q, q = [s EXCEPT !.backlog = n]
  PROVE  q \in SockRec /\ q.st = s.st /\ q.rx = s.rx /\ q.tx = s.tx /\ q.in = s.in /\ q.alien = s.alien
BY DEF SockRec

\* A connection enters while the one that brought it is handled.
LEMMA EnterStep ==
  ASSUME StructureInv, pc = "read", NEW e \in Conn, NEW q \in ConnRec, Enters(e, q),
         sock' \in [Conn -> SockRec], KernelOK',
         sock'[e].rx = <<>>, \A d \in Conn \ {e} : sock'[d].rx
            \in IF conn[d].st = "live" /\ "UDP" \in conn[d].flags THEN Seq(Datagram) ELSE Seq(Nat),
         pc' \in {"write", "datagram"}, pc' = "datagram" => got' \in Incoming /\ got'.to = e,
         got' \in {None} \cup Incoming,
         UNCHANGED <<cur, next, fds, prog, now>>, seen' \in [Conn -> Seq(Met)],
         put' \in [Conn -> Nat], \A d \in Conn : put'[d] <= prog.out
  PROVE  StructureInv'
<1>1. /\ e \in Blank /\ conn[e].st = "blank" /\ conn' \in [Conn -> ConnRec] /\ conn'[e] = q
      /\ q.st = "live" /\ \A d \in Conn \ {e} : conn'[d] = conn[d]
  BY Typed DEF Enters, Blank
<1>2. list' \in Seq(Conn)
  <2>1. list \in Seq(Conn) /\ list' = <<e>> \o list
    BY Typed DEF Enters
  <2> QED BY <2>1, Pushed
<1>3. Live' = Live \cup {e}
  BY <1>1 DEF Live
<1>4. pc' \in Place /\ pc' \notin {"app", "sweep", "freeing", "freed"} /\ pc \in Handling
  BY DEF Place, Handling
<1>5. TypeOK'
  BY <1>1, <1>2, <1>4 DEF StructureInv, TypeOK
<1>6. cur \in Live \cup {None} /\ cur # None /\ next \in Live \cup {None}
  BY <1>4 DEF StructureInv, CursorOK
<1>7. pc' = "datagram" => got' \in Incoming /\ conn'[got'.to].st = "live"
  BY <1>1
<1>8. CursorOK'
  BY <1>3, <1>4, <1>6, <1>7 DEF CursorOK
<1>9. WaitingOK'
  <2> SUFFICES ASSUME NEW d \in Conn
               PROVE  sock'[d].rx \in IF conn'[d].st = "live" /\ "UDP" \in conn'[d].flags
                                      THEN Seq(Datagram) ELSE Seq(Nat)
    BY DEF WaitingOK
  <2>1. <<>> \in Seq(Nat) /\ <<>> \in Seq(Datagram)
    OBVIOUS
  <2> QED BY <1>1, <2>1
<1> QED BY <1>5, <1>8, <1>9, EntersKeeps DEF StructureInv

\* A step of the connection that is handled
LEMMA HandlingTurn ==
  ASSUME StructureInv, pc \in Handling, HandedOn, list' = list, holder' = holder, SocketsGoOn,
         sock' \in [Conn -> SockRec], WaitingOK', UNCHANGED <<next, fds, prog, now>>,
         got' \in {None} \cup Incoming,
         \/ (cur' = cur /\ pc' \in {"write", "poll", "timer", "crashed"})
         \/ (cur' = next /\ pc' = "conn")
         \/ (cur' = cur /\ pc' = "datagram" /\ got' \in Incoming /\ got'.to \in Live)
  PROVE  StructureInv'
<1>0. KernelOK'
  BY KernelKept
<1>1. cur \in Live /\ next \in Live \cup {None}
  BY DEF StructureInv, CursorOK
<1>2. cur \in Live \cup {None} /\ next \in Conn \cup {None} /\ cur # None
  BY <1>1, Typed DEF StructureInv, CursorOK
<1>3. fds' \in FdsRec
  BY Typed
<1>4. pc' \in Place /\ pc' \notin {"app", "sweep", "freeing", "freed"}
  BY DEF Place
<1>5. pc' \in Handling => cur' = cur
  BY DEF Handling
<1>6. prog' = prog /\ now' = now /\ next' = next /\ cur' \in Live \cup {None}
  BY <1>1
<1>7. pc' = "datagram" => got' \in Incoming /\ got'.to \in Live
  OBVIOUS
<1> QED BY <1>0, <1>1, <1>2, <1>3, <1>4, <1>5, <1>6, <1>7, TurnKeeps

LEMMA TcpReadKeepsStructure ==
  ASSUME StructureInv, pc = "read", TcpRead(cur), "UDP" \notin conn[cur].flags,
         UNCHANGED <<cur, next, fds, prog, now>>
  PROVE  StructureInv'
<1>1. pc \in Handling /\ cur \in Live /\ cur \in Conn /\ conn[cur].st = "live"
  BY DEF StructureInv, CursorOK, Handling, Live
<1>2. list' = list /\ holder' = holder /\ got' = got /\ pc' = "write"
  BY DEF TcpRead
<1>3. sock[cur] \in SockRec /\ sock \in [Conn -> SockRec] /\ sock[cur].rx \in Seq(Nat)
  BY <1>1, Typed DEF StructureInv, WaitingOK
<1>4. CASE sock[cur].rx # <<>>
  <2>1. PICK n \in DOMAIN sock[cur].rx :
          /\ sock' = [sock EXCEPT ![cur].rx = DropBytes(sock[cur].rx, n)]
          /\ Received(cur, SubSeq(sock[cur].rx, 1, n))
    BY <1>4, <1>3, <1>1 DEF TcpRead
  <2> DEFINE y == DropBytes(sock[cur].rx, n)
             b == SubSeq(sock[cur].rx, 1, n)
             q == [sock[cur] EXCEPT !.rx = y]
  <2>2. n \in 1 .. Len(sock[cur].rx) /\ n \in Nat /\ Len(sock[cur].rx) \in Nat
        /\ \A i \in 1 .. Len(sock[cur].rx) : sock[cur].rx[i] \in Nat
    BY <1>3, <2>1, LenProperties, ElementOfSeq
  <2>3. b \in Seq(Nat)
    <3>1. \A i \in 1 .. n : sock[cur].rx[i] \in Nat
      BY <2>2
    <3> QED BY <2>2, <3>1, SubSeqProperties
  <2>4. y \in Seq(Nat)
    BY <1>3, <2>2, Bytes
  <2>5. HandedOn
    <3> HIDE DEF b
    <3> QED BY <1>1, <2>1, <2>3, ReceivedCalls DEF b
  <2>6. sock' = [sock EXCEPT ![cur] = q]
    BY <1>3, <1>1, <2>1
  <2>q. q = [sock[cur] EXCEPT !.rx = y]
    OBVIOUS
  <2> HIDE DEF q, y
  <2>7. q \in SockRec /\ q.st = sock[cur].st /\ q.rx = y /\ q.alien = sock[cur].alien
    BY <1>3, <2>4, <2>q, Draining
  <2>8. sock[cur] # NoSocket /\ sock[cur].st # "none"
    BY <1>1, <1>4, FreedRec DEF StructureInv, KernelOK
  <2>9. SocketsGoOn /\ sock' \in [Conn -> SockRec] /\ WaitingOK'
    BY <1>1, <2>4, <2>5, <2>6, <2>7, <2>8, SocketMoves DEF HandedOn
  <2> QED BY <1>1, <1>2, <2>5, <2>9, HandlingTurn, Typed
<1>5. CASE sock[cur].rx = <<>>
  <2>1. sock' = sock /\ \E f \in Modifiable : Flagged(cur, f)
    BY <1>5 DEF TcpRead, Modifiable
  <2>2. HandedOn
    BY <1>1, <2>1, FlaggedKeeps
  <2>3. WaitingOK'
    BY <2>1, <2>2, WaitingKept DEF HandedOn
  <2> QED BY <1>1, <1>2, <2>1, <2>2, <2>3, HandlingTurn, Typed, SameSockets
<1> QED BY <1>4, <1>5

LEMMA AcceptKeepsStructure ==
  ASSUME StructureInv, pc = "read", Accept(cur), "UDP" \notin conn[cur].flags,
         UNCHANGED <<cur, next, fds, prog, now>>
  PROVE  StructureInv'
<1> DEFINE b == [sock[cur] EXCEPT !.backlog = sock[cur].backlog - 1]
           up == [NoSocket EXCEPT !.st = "up"]
<1>1. pc \in Handling /\ cur \in Live /\ cur \in Conn /\ conn[cur].st = "live" /\ conn[cur] \in ConnRec
  BY Typed DEF StructureInv, CursorOK, Handling, Live
<1>2. sock \in [Conn -> SockRec] /\ sock[cur].backlog > 0 /\ got' = got /\ pc' = "write"
  BY Typed DEF Accept
<1>3. sock[cur].backlog - 1 \in Nat /\ sock[cur] \in SockRec
  BY <1>1, <1>2 DEF SockRec
<1>4. sock[cur] # NoSocket /\ sock[cur].st # "none"
  <2>1. NoSocket.backlog = 0 /\ ~(0 > 0)
    BY DEF NoSocket
  <2> QED BY <1>1, <1>2, <2>1 DEF StructureInv, KernelOK
<1>5. \/ Blank = {} /\ sock' = [sock EXCEPT ![cur] = b] /\ UNCHANGED <<list, holder, conn, History>>
      \/ \E c \in Blank : /\ sock' = [sock EXCEPT ![cur] = b, ![c] = up] /\ Numbers(c)
                          /\ list' = <<c>> \o list /\ Call(c, NewConn(c, {}, cur, None), "ACCEPT")
  BY <1>1, <1>2 DEF Accept
<1>b. b = [sock[cur] EXCEPT !.backlog = sock[cur].backlog - 1]
  OBVIOUS
<1> HIDE DEF b
<1>6. b \in SockRec /\ b.st = sock[cur].st /\ b.rx = sock[cur].rx /\ b.alien = sock[cur].alien
  BY <1>3, <1>b, Fewer
<1>u. up = [NoSocket EXCEPT !.st = "up"]
  OBVIOUS
<1> HIDE DEF up
<1>7. up \in SockRec /\ up.st = "up" /\ up.rx = <<>> /\ up.alien = {}
  BY <1>u, NewSocket DEF SockState
<1>8. CASE Blank = {} /\ sock' = [sock EXCEPT ![cur] = b] /\ UNCHANGED <<list, holder, conn, History>>
  <2>1. HandedOn
    BY <1>8, IdleHandsOn DEF History
  <2>2. b.rx \in IF conn[cur].st = "live" /\ "UDP" \in conn[cur].flags THEN Seq(Datagram) ELSE Seq(Nat)
    BY <1>1, <1>6 DEF StructureInv, WaitingOK
  <2>3. SocketsGoOn /\ sock' \in [Conn -> SockRec] /\ WaitingOK'
    BY <1>1, <1>4, <1>6, <1>8, <2>1, <2>2, SocketMoves DEF HandedOn
  <2> QED BY <1>1, <1>2, <1>8, <2>1, <2>3, HandlingTurn, Typed
<1>9. ASSUME NEW c \in Blank, sock' = [sock EXCEPT ![cur] = b, ![c] = up], Numbers(c),
             list' = <<c>> \o list, Call(c, NewConn(c, {}, cur, None), "ACCEPT")
      PROVE  StructureInv'
  <2> DEFINE r == NewConn(c, {}, cur, None)
  <2>0. c \in Conn /\ conn[c].st = "blank" /\ c # cur /\ None \notin Conn
    BY <1>1, Typed DEF Blank
  <2>1. r \in ConnRec /\ r.st = "live" /\ r.sock = c /\ r.listener = cur /\ r.flags = {}
    BY <1>1, <2>0, FreedRec
  <2> HIDE DEF r
  <2>2. "ACCEPT" \in Events /\ TypeOK
    BY Typed DEF Events
  <2>3. PICK q \in ConnRec : AfterCall(c, r, "ACCEPT", q)
    BY <1>9, <2>0, <2>1, <2>2, CallSteps DEF r
  <2>4. /\ q.st = "live" /\ q.sock = c /\ q.listener = cur /\ "UDP" \notin q.flags
        /\ conn' = [conn EXCEPT ![c] = q] /\ seen' = [seen EXCEPT ![c] = Noted(seen[c], "ACCEPT")]
        /\ put' \in [Conn -> Nat] /\ \A d \in Conn : put'[d] <= prog.out
    BY <2>1, <2>3 DEF AfterCall, Shape
  <2>5. sock'[c] = up /\ sock'[cur] = b /\ \A d \in Conn \ {c, cur} : sock'[d] = sock[d]
    BY <1>1, <1>2, <1>9, <2>0
  <2>6. Enters(c, q)
    <3>1. \A s \in Conn \ {c} : /\ sock'[s].st = "closed" <=> sock[s].st = "closed"
                                /\ sock[s] = NoSocket => sock'[s] = NoSocket
                                /\ sock'[s].alien = sock[s].alien
      BY <1>4, <1>6, <2>5
    <3> QED BY <1>1, <1>7, <1>9, <2>0, <2>4, <2>5, <3>1 DEF Enters
  <2>7. sock' \in [Conn -> SockRec]
    BY <1>2, <1>6, <1>7, <1>9
  <2>8. \A d \in Conn \ {c} : sock'[d].rx
            \in IF conn[d].st = "live" /\ "UDP" \in conn[d].flags THEN Seq(Datagram) ELSE Seq(Nat)
    BY <1>6, <2>5 DEF StructureInv, WaitingOK
  <2>k. KernelOK'
    <3>1. \A d \in Conn : sock'[d].st = "none" => d \notin {c, cur} /\ sock[d].st = "none"
      BY <1>4, <1>6, <1>7, <2>5
    <3>2. \A d \in fds.r \cup fds.w : d \in Conn
      BY Typed DEF FdsRec
    <3>3. NoSocket' = NoSocket
      BY DEF NoSocket
    <3> QED BY <2>5, <3>1, <3>2, <3>3 DEF StructureInv, KernelOK
  <2>9. seen' \in [Conn -> Seq(Met)]
    BY <2>0, <2>2, <2>4, Typed, Noting
  <2>10. got' \in {None} \cup Incoming
    BY <1>2, Typed
  <2> QED BY <1>2, <1>7, <2>0, <2>4, <2>5, <2>6, <2>7, <2>8, <2>9, <2>10, <2>k, EnterStep
<1> QED BY <1>5, <1>8, <1>9

LEMMA UdpReadKeepsStructure ==
  ASSUME StructureInv, pc = "read", UdpRead(cur), "UDP" \in conn[cur].flags,
         UNCHANGED <<cur, next, fds, prog, now>>
  PROVE  StructureInv'
<1> DEFINE d == Head(sock[cur].rx)
           known == {e \in ToSet(list) : conn[e].sa = d.from /\ conn[e].listener = cur}
           y == Tail(sock[cur].rx)
           b == [sock[cur] EXCEPT !.rx = y]
<1>1. pc \in Handling /\ cur \in Live /\ cur \in Conn /\ conn[cur].st = "live" /\ conn[cur] \in ConnRec
  BY Typed DEF StructureInv, CursorOK, Handling, Live
<1>2. sock[cur].rx \in Seq(Datagram) /\ sock \in [Conn -> SockRec] /\ sock[cur].rx # <<>>
      /\ sock[cur] # NoSocket
      /\ sock[cur].st # "none"
  BY <1>1, Typed, FreedRec DEF StructureInv, WaitingOK, KernelOK, UdpRead
<1>3. d \in Datagram /\ y \in Seq(Datagram)
  BY <1>2, HeadTailProperties
<1>4. d.from \in Peer /\ d.kind \in Kinds /\ d.data \in Seq(Nat) /\ d.from # None
  BY <1>3, ManagerConstants DEF Datagram
<1>5. known \subseteq Live /\ \A e \in Live : conn[e].listener = cur /\ conn[e].sa = d.from => e \in known
  BY DEF StructureInv, ListOK
<1>6. sock' = [sock EXCEPT ![cur] = b] /\ holder' = holder
  BY <1>1, <1>2 DEF UdpRead
<1>7. \/ /\ \E e \in IF Is(cur, "LISTENING") THEN known ELSE {cur} : got' = [to |-> e, kind |-> d.kind, data |-> d.data]
         /\ pc' = "datagram" /\ UNCHANGED <<list, conn, History>>
      \/ /\ known = {} /\ pc' = "datagram"
         /\ \E e \in Blank : /\ got' = [to |-> e, kind |-> d.kind, data |-> d.data] /\ list' = <<e>> \o list
                             /\ Call(e, NewConn(cur, {"UDP", "SEND_AND_CLOSE"}, cur, d.from), "ACCEPT")
      \/ pc' = "crashed" /\ UNCHANGED <<list, conn, got, History>>
  BY DEF UdpRead
<1>b. b = [sock[cur] EXCEPT !.rx = y]
  OBVIOUS
<1> HIDE DEF b, y, d, known
<1>8. b \in SockRec /\ b.st = sock[cur].st /\ b.rx = y /\ b.alien = sock[cur].alien
  BY <1>1, <1>2, <1>3, <1>b, Draining
<1>9. UNCHANGED <<conn, History>> => HandedOn /\ SocketsGoOn /\ sock' \in [Conn -> SockRec] /\ WaitingOK'
  <2> SUFFICES ASSUME UNCHANGED <<conn, History>>
               PROVE  HandedOn /\ SocketsGoOn /\ sock' \in [Conn -> SockRec] /\ WaitingOK'
    OBVIOUS
  <2>1. HandedOn
    BY IdleHandsOn DEF History
  <2>2. y \in IF conn[cur].st = "live" /\ "UDP" \in conn[cur].flags THEN Seq(Datagram) ELSE Seq(Nat)
    BY <1>1, <1>3
  <2> QED BY <1>1, <1>2, <1>6, <1>8, <2>1, <2>2, SocketMoves DEF HandedOn
<1>10. CASE /\ \E e \in IF Is(cur, "LISTENING") THEN known ELSE {cur} : got' = [to |-> e, kind |-> d.kind, data |-> d.data]
            /\ pc' = "datagram" /\ UNCHANGED <<list, conn, History>>
  <2>1. PICK e \in Live : got' = [to |-> e, kind |-> d.kind, data |-> d.data]
    BY <1>1, <1>5, <1>10
  <2>2. e \in Conn /\ got' \in Incoming /\ got'.to = e
    BY <1>4, <2>1 DEF Live, Incoming
  <2> QED BY <1>1, <1>6, <1>9, <1>10, <2>1, <2>2, HandlingTurn
<1>11. ASSUME NEW e \in Blank, known = {}, pc' = "datagram", got' = [to |-> e, kind |-> d.kind, data |-> d.data],
              list' = <<e>> \o list,
              Call(e, NewConn(cur, {"UDP", "SEND_AND_CLOSE"}, cur, d.from), "ACCEPT")
       PROVE  StructureInv'
  <2> DEFINE r == NewConn(cur, {"UDP", "SEND_AND_CLOSE"}, cur, d.from)
  <2>0. e \in Conn /\ conn[e].st = "blank" /\ e # cur /\ None \notin Conn
    BY <1>1, Typed DEF Blank
  <2>1. {"UDP", "SEND_AND_CLOSE"} \in SUBSET Flags
    BY DEF Flags
  <2>2. r \in ConnRec /\ r.st = "live" /\ r.sock = cur /\ r.listener = cur /\ "UDP" \in r.flags
        /\ r.sa = d.from
    BY <1>1, <1>4, <2>1, FreedRec
  <2>3. Call(e, r, "ACCEPT")
    BY <1>11
  <2> HIDE DEF r
  <2>4. "ACCEPT" \in Events /\ TypeOK
    BY Typed DEF Events
  <2>5. PICK q \in ConnRec : AfterCall(e, r, "ACCEPT", q)
    BY <2>0, <2>2, <2>3, <2>4, CallSteps
  <2>6. /\ q.st = "live" /\ q.sock = cur /\ q.listener = cur /\ "UDP" \in q.flags /\ q.sa = d.from
        /\ conn' = [conn EXCEPT ![e] = q] /\ seen' = [seen EXCEPT ![e] = Noted(seen[e], "ACCEPT")]
        /\ put' \in [Conn -> Nat] /\ \A k \in Conn : put'[k] <= prog.out
    BY <2>2, <2>5 DEF AfterCall, Shape
  <2>7. sock[e] = NoSocket /\ sock'[e] = NoSocket /\ sock'[cur] = b
        /\ \A k \in Conn \ {cur} : sock'[k] = sock[k]
    BY <1>1, <1>2, <1>6, <2>0 DEF StructureInv, SocketOK
  <2>8. Enters(e, q)
    <3>1. \A s \in Conn \ {e} : /\ sock'[s].st = "closed" <=> sock[s].st = "closed"
                                /\ sock[s] = NoSocket => sock'[s] = NoSocket
                                /\ sock'[s].alien = sock[s].alien
      BY <1>2, <1>8, <2>7
    <3>2. NoSocket.st # "closed"
      BY FreedRec
    <3>3. \A k \in Live : ~(conn[k].listener = cur /\ conn[k].sa = d.from)
      BY <1>5, <1>11
    <3> QED BY <1>1, <1>4, <1>6, <1>11, <2>0, <2>6, <2>7, <3>1, <3>2, <3>3, FreedRec DEF Enters
  <2>9. sock' \in [Conn -> SockRec]
    BY <1>2, <1>6, <1>8
  <2>10. \A k \in Conn \ {e} : sock'[k].rx
            \in IF conn[k].st = "live" /\ "UDP" \in conn[k].flags THEN Seq(Datagram) ELSE Seq(Nat)
    BY <1>1, <1>3, <1>8, <2>7 DEF StructureInv, WaitingOK
  <2>k. KernelOK'
    <3>1. SocketsGoOn
      <4>1. \A s \in Conn : sock'[s].alien = sock[s].alien /\ sock[s].alien \subseteq Conn
        BY <1>8, <2>7, Typed DEF SockRec
      <4> QED BY <1>2, <1>8, <2>7, <4>1 DEF SocketsGoOn, StructureInv, KernelOK, AliensOK
    <3> QED BY <3>1, KernelKept
  <2>11. seen' \in [Conn -> Seq(Met)]
    BY <2>0, <2>4, <2>6, Typed, Noting
  <2>12. got' \in Incoming /\ got'.to = e
    BY <1>4, <1>11, <2>0 DEF Incoming
  <2>13. /\ sock'[e].rx = <<>> /\ got' \in {None} \cup Incoming /\ pc' \in {"write", "datagram"}
         /\ pc' = "datagram" => got' \in Incoming /\ got'.to = e
    BY <1>11, <2>7, <2>12, FreedRec
  <2> QED BY <2>0, <2>6, <2>8, <2>9, <2>10, <2>11, <2>13, <2>k, EnterStep
<1>12. CASE pc' = "crashed" /\ UNCHANGED <<list, conn, got, History>>
  <2>1. got' \in {None} \cup Incoming
    BY <1>12, Typed
  <2> QED BY <1>1, <1>6, <1>9, <1>12, <2>1, HandlingTurn
<1> QED BY <1>7, <1>10, <1>11, <1>12

LEMMA HandleReadKeepsStructure == ASSUME StructureInv, HandleRead PROVE StructureInv'
<1>1. pc = "read" /\ UNCHANGED <<cur, next, fds, prog, now>> /\ pc \in Handling
  BY DEF HandleRead, Kernel, Handling
<1>2. CASE ~FdRead(cur)
  <2>1. pc' = "write" /\ UNCHANGED <<conn, list, sock, holder, got, History>>
    BY <1>2 DEF HandleRead
  <2>2. HandedOn /\ WaitingOK'
    BY <2>1, IdleHandsOn, WaitingKept DEF HandedOn, History
  <2>3. SocketsGoOn /\ sock' \in [Conn -> SockRec] /\ got' \in {None} \cup Incoming
    BY <2>1, Typed, SameSockets
  <2> QED BY <1>1, <2>1, <2>2, <2>3, HandlingTurn
<1>3. CASE FdRead(cur) /\ Is(cur, "UDP")
  BY <1>1, <1>3, UdpReadKeepsStructure DEF HandleRead, Is
<1>4. CASE FdRead(cur) /\ ~Is(cur, "UDP") /\ Is(cur, "LISTENING")
  BY <1>1, <1>4, AcceptKeepsStructure DEF HandleRead, Is
<1>5. CASE FdRead(cur) /\ ~Is(cur, "UDP") /\ ~Is(cur, "LISTENING")
  BY <1>1, <1>5, TcpReadKeepsStructure DEF HandleRead, Is
<1> QED BY <1>2, <1>3, <1>4, <1>5

LEMMA HandleDatagramKeepsStructure == ASSUME StructureInv, HandleDatagram PROVE StructureInv'
<1>1. /\ pc = "datagram" /\ got' = None /\ cur' = cur /\ pc \in Handling
      /\ UNCHANGED <<list, sock, holder, next, fds, prog, now>>
      /\ \/ pc' = "crashed" /\ UNCHANGED <<conn, History>>
         \/ pc' = "write" /\ Received(got.to, got.data)
  BY DEF HandleDatagram, Kernel, Handling
<1>2. got.to \in Conn /\ got.data \in Seq(Nat)
  BY <1>1 DEF StructureInv, CursorOK, Incoming
<1>3. HandedOn
  BY <1>1, <1>2, ReceivedCalls, IdleHandsOn DEF History
<1>4. WaitingOK' /\ SocketsGoOn
  BY <1>1, <1>3, WaitingKept, SameSockets DEF HandedOn
<1>5. sock' \in [Conn -> SockRec]
  BY <1>1, Typed
<1> QED BY <1>1, <1>3, <1>4, <1>5, HandlingTurn

LEMMA Sent ==
  ASSUME NEW s \in SockRec, NEW x \in Seq(Nat), NEW q, q = [s EXCEPT !.tx = x]
  PROVE  q \in SockRec /\ q.st = s.st /\ q.rx = s.rx /\ q.tx = x /\ q.in = s.in /\ q.alien = s.alien
BY DEF SockRec

LEMMA Filled ==
  ASSUME NEW s \in SockRec, NEW n \in Nat, NEW q, q = [s EXCEPT !.room = n]
  PROVE  q \in SockRec /\ q.st = s.st /\ q.rx = s.rx /\ q.tx = s.tx /\ q.in = s.in /\ q.alien = s.alien
BY DEF SockRec

LEMMA Turned ==
  ASSUME NEW s \in SockRec, NEW st \in SockState, NEW q, q = [s EXCEPT !.st = st]
  PROVE  q \in SockRec /\ q.st = st /\ q.rx = s.rx /\ q.tx = s.tx /\ q.in = s.in /\ q.alien = s.alien
BY DEF SockRec

LEMMA WroteKeeps ==
  ASSUME StructureInv, NEW c \in Live, FdWrite(c), NEW n \in 1 .. Len(conn[c].send),
         Wrote(c, SockOf(c), n), IsDatagram(SockOf(c)) \/ n <= sock[SockOf(c)].room
  PROVE  /\ HandedOn /\ SocketsGoOn /\ sock' \in [Conn -> SockRec] /\ WaitingOK'
         /\ \A d \in Conn : Mild(sock[d], sock'[d])
<1> DEFINE s == SockOf(c)
           x == IF s = c THEN sock[s].tx \o SubSeq(conn[c].send, 1, n) ELSE sock[s].tx
           a == IF s = c THEN sock[s].alien ELSE sock[s].alien \cup {c}
           m == IF IsDatagram(s) THEN sock[s].room ELSE sock[s].room - n
           p == [sock[s] EXCEPT !.tx = x]
           o == [p EXCEPT !.alien = a]
           q == [o EXCEPT !.room = m]
           y == DropBytes(conn[c].send, n)
           r == [conn[c] EXCEPT !.send = y]
<1>1. /\ c \in Conn /\ conn[c] \in ConnRec /\ sock \in [Conn -> SockRec] /\ s \in Conn
      /\ sock[s].st # "none" /\ sock[s] \in SockRec
  BY Typed DEF Live, FdsRec, StructureInv, KernelOK, FdWrite
<1>2. sock[s].tx \in Seq(Nat) /\ conn[c].send \in Seq(Nat) /\ sock[s].room \in Nat
      /\ sock[s].alien \subseteq Conn
  BY <1>1 DEF SockRec, ConnRec
<1>3. n \in Nat /\ n >= 1 /\ Len(conn[c].send) \in Nat /\ n <= Len(conn[c].send)
  BY <1>2, LenProperties
<1>4. x \in Seq(Nat) /\ a \in SUBSET Conn
  <2>1. \A i \in 1 .. n : conn[c].send[i] \in Nat
    BY <1>2, <1>3, ElementOfSeq
  <2>2. SubSeq(conn[c].send, 1, n) \in Seq(Nat)
    BY <1>3, <2>1, SubSeqProperties
  <2> QED BY <1>1, <1>2, <2>2, ConcatProperties
<1>5. m \in Nat
  BY <1>2, <1>3
<1>6. y \in Seq(Nat)
  BY <1>2, <1>3, Bytes
<1>7. sock' = [sock EXCEPT ![s] = q]
  BY <1>1 DEF Wrote
<1>8. Call(c, r, "SEND")
  BY DEF Wrote
<1>a. \A e \in a \ sock[s].alien : MayWrite(e, s)
  <2> SUFFICES ASSUME s # c PROVE MayWrite(c, s)
    OBVIOUS
  <2>1. HasSock(c) /\ conn[c].st = "live"
    BY DEF FdWrite, Live
  <2>2. IsFake(c) /\ (conn[c].listener = s \/ conn[conn[c].listener].st = "freed")
    BY <2>1, OwnSocket
  <2> QED BY <2>1, <2>2 DEF MayWrite, IsFake, Is
<1>p. p = [sock[s] EXCEPT !.tx = x]
  OBVIOUS
<1> HIDE DEF p
<1>o. o = [p EXCEPT !.alien = a]
  OBVIOUS
<1> HIDE DEF o
<1>q. q = [o EXCEPT !.room = m]
  OBVIOUS
<1>r. r = [conn[c] EXCEPT !.send = y]
  OBVIOUS
<1> HIDE DEF x, a, m, q, y, r, s
<1>9. q \in SockRec /\ q.st = sock[s].st /\ q.rx = sock[s].rx /\ q.alien = a
  <2>1. p \in SockRec /\ p.st = sock[s].st /\ p.rx = sock[s].rx
    BY <1>1, <1>4, <1>p, Sent
  <2>2. o \in SockRec /\ o.st = p.st /\ o.rx = p.rx /\ o.alien = a
    BY <1>4, <1>o, <2>1 DEF SockRec
  <2> QED BY <1>5, <1>q, <2>1, <2>2, Filled
<1>10. r \in ConnRec /\ Alike(conn[c], r)
  BY <1>1, <1>6, <1>r, Sending
<1>11. HandedOn
  BY <1>1, <1>8, <1>10, CalledAlike DEF Events
<1>12. sock[s] # NoSocket
  BY <1>1, FreedRec
<1>13. q.rx \in IF conn[s].st = "live" /\ "UDP" \in conn[s].flags THEN Seq(Datagram) ELSE Seq(Nat)
  BY <1>1, <1>9 DEF StructureInv, WaitingOK
<1>14. SocketsGoOn /\ sock' \in [Conn -> SockRec] /\ WaitingOK'
  BY <1>1, <1>7, <1>9, <1>11, <1>12, <1>13, <1>a, SocketMoves DEF HandedOn
<1>15. \A d \in Conn : Mild(sock[d], sock'[d])
  BY <1>1, <1>7, <1>9 DEF Mild
<1> QED BY <1>11, <1>14, <1>15

LEMMA SendtoFailsKeeps ==
  ASSUME StructureInv, NEW s \in Conn, SendtoFails(s)
  PROVE  /\ HandedOn /\ SocketsGoOn /\ sock' \in [Conn -> SockRec] /\ WaitingOK'
         /\ \A d \in Conn : Mild(sock[d], sock'[d])
         /\ UNCHANGED <<conn, History>>
         /\ \A d \in Conn : /\ sock'[d] = sock[d] \/ sock'[d].st = "spent"
                            /\ sock'[d].tx = sock[d].tx /\ sock'[d].rx = sock[d].rx
<1>0. UNCHANGED <<conn, History>> /\ HandedOn
  BY IdleHandsOn DEF SendtoFails, History
<1>1. CASE sock' = sock
  BY <1>0, <1>1, WaitingKept, SameSockets, Typed DEF HandedOn, Mild
<1>2. CASE sock[s].st \in {"refused", "reset"} /\ sock' = [sock EXCEPT ![s].st = "spent"]
  <2> DEFINE q == [sock[s] EXCEPT !.st = "spent"]
  <2>1. sock \in [Conn -> SockRec] /\ sock[s] \in SockRec
    BY Typed
  <2>2. sock' = [sock EXCEPT ![s] = q]
    BY <1>2, <2>1
  <2>q. q = [sock[s] EXCEPT !.st = "spent"]
    OBVIOUS
  <2> HIDE DEF q
  <2>3. q \in SockRec /\ q.st = "spent" /\ q.rx = sock[s].rx /\ q.tx = sock[s].tx
        /\ q.alien = sock[s].alien
    BY <2>1, <2>q, Turned DEF SockState
  <2>4. sock'[s] = q /\ \A d \in Conn \ {s} : sock'[d] = sock[d]
    BY <2>1, <2>2
  <2>5. sock[s] # NoSocket
    BY <1>2, FreedRec
  <2>6. q.rx \in IF conn[s].st = "live" /\ "UDP" \in conn[s].flags THEN Seq(Datagram) ELSE Seq(Nat)
    BY <2>3 DEF StructureInv, WaitingOK
  <2>7. SocketsGoOn /\ sock' \in [Conn -> SockRec] /\ WaitingOK'
    BY <1>0, <1>2, <2>2, <2>3, <2>5, <2>6, SocketMoves DEF HandedOn
  <2>8. \A d \in Conn : Mild(sock[d], sock'[d])
    BY <1>2, <2>3, <2>4 DEF Mild
  <2> QED BY <1>0, <2>3, <2>4, <2>7, <2>8
<1> QED BY <1>1, <1>2 DEF SendtoFails

LEMMA WriteToSocketKeeps ==
  ASSUME StructureInv, NEW c \in Live, FdWrite(c), conn[c].send # <<>>, WriteToSocket(c)
  PROVE  HandedOn /\ SocketsGoOn /\ sock' \in [Conn -> SockRec] /\ WaitingOK'
<1> DEFINE s == SockOf(c)
           len == Len(conn[c].send)
<1>1. /\ c \in Conn /\ conn[c].send \in Seq(Nat) /\ len \in Nat /\ sock \in [Conn -> SockRec]
      /\ s \in Conn /\ sock[s].room \in Nat
  BY Typed, LenProperties DEF Live, ConnRec, FdsRec, SockRec, FdWrite
<1>2. len # 0
  BY <1>1, EmptySeq
<1>3. CASE IsDatagram(s) /\ Wrote(c, s, len)
  <2>1. len \in 1 .. len
    BY <1>1, <1>2
  <2> QED BY <1>3, <2>1, WroteKeeps
<1>4. ASSUME NEW n \in 1 .. (IF len < sock[s].room THEN len ELSE sock[s].room), Wrote(c, s, n)
      PROVE  HandedOn /\ SocketsGoOn /\ sock' \in [Conn -> SockRec] /\ WaitingOK'
  <2>1. n \in 1 .. len /\ n <= sock[s].room
    BY <1>1
  <2> QED BY <1>4, <2>1, WroteKeeps
<1>5. CASE UNCHANGED <<conn, sock, History>>
  <2>1. HandedOn /\ SocketsGoOn /\ WaitingOK'
    BY <1>5, IdleHandsOn, WaitingKept, SameSockets DEF HandedOn, History
  <2> QED BY <1>1, <1>5, <2>1
<1>6. CASE SendtoFails(s)
  BY <1>1, <1>6, SendtoFailsKeeps
<1>7. CASE Flagged(c, "CLOSE_IMMEDIATELY") /\ sock' = sock
  <2>1. HandedOn
    BY <1>1, <1>7, FlaggedKeeps DEF Modifiable
  <2>2. SocketsGoOn /\ WaitingOK'
    BY <1>7, <2>1, WaitingKept, SameSockets DEF HandedOn
  <2> QED BY <1>1, <1>7, <2>1, <2>2
<1> QED BY <1>3, <1>4, <1>5, <1>6, <1>7 DEF WriteToSocket

LEMMA HandleWriteKeepsStructure == ASSUME StructureInv, HandleWrite PROVE StructureInv'
<1>1. /\ pc = "write" /\ pc \in Handling /\ UNCHANGED <<list, holder, next, fds, got, prog, now>>
      /\ (cur' = next /\ pc' = "conn") \/ (cur' = cur /\ pc' = "poll")
  BY DEF HandleWrite, Kernel, Handling, Advance
<1>2. cur \in Live
  BY <1>1 DEF StructureInv, CursorOK
<1>3. \/ UNCHANGED <<conn, sock, History>>
      \/ FdWrite(cur) /\ conn[cur].send # <<>> /\ WriteToSocket(cur)
  BY DEF HandleWrite
<1>4. HandedOn /\ SocketsGoOn /\ sock' \in [Conn -> SockRec] /\ WaitingOK'
  <2>1. CASE UNCHANGED <<conn, sock, History>>
    <3>1. HandedOn /\ SocketsGoOn /\ WaitingOK'
      BY <2>1, IdleHandsOn, WaitingKept, SameSockets DEF HandedOn, History
    <3> QED BY <2>1, <3>1, Typed
  <2>2. CASE FdWrite(cur) /\ conn[cur].send # <<>> /\ WriteToSocket(cur)
    BY <1>2, <2>2, WriteToSocketKeeps
  <2> QED BY <1>3, <2>1, <2>2
<1>5. got' \in {None} \cup Incoming
  BY <1>1, Typed
<1> QED BY <1>1, <1>4, <1>5, HandlingTurn

LEMMA PollAndTimerKeepStructure == ASSUME StructureInv, HandlePoll \/ HandleTimer PROVE StructureInv'
<1>1. /\ pc \in Handling /\ UNCHANGED <<list, sock, holder, next, fds, got, prog, now>>
      /\ (cur' = next /\ pc' = "conn") \/ (cur' = cur /\ pc' = "timer")
      /\ \E ev \in Events : Call(cur, conn[cur], ev)
  BY DEF HandlePoll, HandleTimer, Kernel, Handling, Advance, Events
<1>2. cur \in Conn /\ conn[cur] \in ConnRec /\ Alike(conn[cur], conn[cur])
  BY <1>1, Typed DEF StructureInv, CursorOK, Live, Alike
<1>3. HandedOn
  BY <1>1, <1>2, CalledAlike
<1>4. WaitingOK' /\ SocketsGoOn
  BY <1>1, <1>3, WaitingKept, SameSockets DEF HandedOn
<1>5. sock' \in [Conn -> SockRec] /\ got' \in {None} \cup Incoming
  BY <1>1, Typed
<1> QED BY <1>1, <1>3, <1>4, <1>5, HandlingTurn

LEMMA CloseStep ==
  ASSUME StructureInv, cur = None, NEW i \in 1 .. Len(list), NEW there \in {"sweep", "freeing"},
         CloseConn(i, there), UNCHANGED <<holder, cur, next, fds, got, prog, now>>
  PROVE  StructureInv'
<1> DEFINE c == list[i]
<1>1. /\ ListOK' /\ SocketOK' /\ SourcesOK' /\ WaitingOK' /\ PartnerOK' /\ HolderOK' /\ AliensOK'
      /\ conn' \in [Conn -> ConnRec] /\ sock' \in [Conn -> SockRec] /\ list' \in Seq(Conn)
      /\ c \in Live /\ (sock'[c] = sock[c] \/ sock'[c].st = "closed")
      /\ \A d \in Conn \ {c} : sock'[d] = sock[d]
  BY CloseKeeps
<1>2. c \in Conn /\ put' = put /\ pc' \in {"sweep", "freeing", "crashed"} /\ seen' = [seen EXCEPT ![c] = Noted(seen[c], "CLOSE")]
  BY <1>1 DEF CloseConn, Live
<1> HIDE DEF c
<1>3. seen' \in [Conn -> Seq(Met)]
  BY <1>2, Typed, Noting
<1>4. pc' \in Place /\ pc' \notin Handling /\ pc' # "datagram"
  BY <1>2 DEF Place, Handling
<1>5. TypeOK'
  BY <1>1, <1>2, <1>3, <1>4 DEF StructureInv, TypeOK
<1>6. CursorOK'
  BY <1>4 DEF CursorOK
<1>7. KernelOK'
  <2>1. NoSocket' = NoSocket
    BY DEF NoSocket
  <2>2. \A d \in Conn : sock'[d] = sock[d] \/ sock'[d].st = "closed"
    BY <1>1
  <2>3. \A d \in fds.r \cup fds.w : d \in Conn
    BY Typed DEF FdsRec
  <2> QED BY <2>1, <2>2, <2>3 DEF StructureInv, KernelOK
<1> QED BY <1>1, <1>5, <1>6, <1>7 DEF StructureInv

LEMMA SweepKeepsStructure == ASSUME StructureInv, Sweep PROVE StructureInv'
<1>1. cur = None /\ UNCHANGED <<holder, cur, next, fds, got, prog, now>>
  BY DEF Sweep, Kernel, StructureInv, CursorOK
<1>2. CASE \E i \in DOMAIN list : CloseConn(i, "sweep")
  <2>1. PICK i \in DOMAIN list : CloseConn(i, "sweep")
    BY <1>2
  <2>2. i \in 1 .. Len(list)
    BY Typed, LenProperties
  <2> QED BY <1>1, <1>2, <2>1, <2>2, CloseStep
<1>3. CASE UNCHANGED <<conn, list, sock, seen, put>> /\ pc' \in {"freeing", "app"}
  <2>1. HandedOn /\ WaitingOK' /\ SocketsGoOn /\ KernelOK'
    BY <1>1, <1>3, IdleHandsOn, WaitingKept, SameSockets, KernelKept DEF HandedOn
  <2>2. pc' \in Place /\ pc' \notin Handling /\ pc' # "datagram"
    BY <1>3 DEF Place, Handling
  <2>3. cur' \in Live \cup {None} /\ next' \in Conn \cup {None} /\ cur' = None
    BY <1>1, Typed
  <2>4. fds' \in FdsRec /\ sock' \in [Conn -> SockRec] /\ got' \in {None} \cup Incoming
    BY <1>1, <1>3, Typed
  <2> QED BY <1>1, <1>3, <2>1, <2>2, <2>3, <2>4, TurnKeeps
<1> QED BY <1>2, <1>3 DEF Sweep

LEMMA FreeKeepsStructure == ASSUME StructureInv, Free PROVE StructureInv'
<1>1. pc = "freeing" /\ cur = None /\ UNCHANGED <<holder, cur, next, fds, got, prog, now>>
  BY DEF Free, Kernel, StructureInv, CursorOK
<1>2. CASE list # <<>> /\ CloseConn(1, "freeing")
  <2>1. 1 \in 1 .. Len(list)
    <3>1. list \in Seq(Conn) /\ Len(list) \in Nat /\ Len(list) # 0
      BY <1>2, Typed, LenProperties, EmptySeq
    <3> QED BY <3>1
  <2> QED BY <1>1, <1>2, <2>1, CloseStep
<1>3. CASE UNCHANGED <<conn, list, sock, seen, put>> /\ pc' = "freed"
  <2>1. HandedOn /\ WaitingOK' /\ SocketsGoOn /\ KernelOK'
    BY <1>1, <1>3, IdleHandsOn, WaitingKept, SameSockets, KernelKept DEF HandedOn
  <2>2. pc' \in Place /\ pc' \notin Handling /\ pc' # "datagram"
    BY <1>3 DEF Place, Handling
  <2>3. cur' \in Live \cup {None} /\ next' \in Conn \cup {None} /\ cur' = None
    BY <1>1, Typed
  <2>4. fds' \in FdsRec /\ sock' \in [Conn -> SockRec] /\ got' \in {None} \cup Incoming
    BY <1>1, <1>3, Typed
  <2> QED BY <1>1, <1>3, <2>1, <2>2, <2>3, <2>4, TurnKeeps
<1> QED BY <1>2, <1>3 DEF Free, History

(* The kernel and the peers *)

LEMMA Counted ==
  ASSUME NEW s \in SockRec, NEW n \in Nat, NEW q, q = [s EXCEPT !.in = n]
  PROVE  q \in SockRec /\ q.st = s.st /\ q.rx = s.rx /\ q.backlog = s.backlog
         /\ q.tx = s.tx /\ q.in = n /\ q.alien = s.alien
BY DEF SockRec

LEMMA Ended ==
  ASSUME NEW s \in SockRec, NEW q, q = [s EXCEPT !.eof = TRUE]
  PROVE  q \in SockRec /\ q.st = s.st /\ q.rx = s.rx /\ q.tx = s.tx /\ q.in = s.in /\ q.alien = s.alien
BY DEF SockRec

\* What may become of a stream: nothing, its end, or the next byte
Arrives(a, b) ==
  \/ b.rx = a.rx /\ b.in = a.in /\ (b.st \in {"up", "connecting"} => a.st \in {"up", "connecting"})
  \/ b.st \notin {"up", "connecting"}
  \/ a.st = "up" /\ b.rx = Append(a.rx, a.in + 1) /\ b.in = a.in + 1

\* What the kernel or a peer does to the socket of s, and what stays so that the
\* bytes on it are of its kind
SocketTurn(s, q) ==
  /\ q \in SockRec /\ sock' = [sock EXCEPT ![s] = q] /\ sock[s] # NoSocket /\ q.st # "none"
  /\ q.st = "closed" <=> sock[s].st = "closed"
  /\ Mild(sock[s], q) /\ q.tx = sock[s].tx /\ q.alien = sock[s].alien
  /\ IsDatagram(s) \/ Arrives(sock[s], q)
  /\ q.rx \in IF conn[s].st = "live" /\ "UDP" \in conn[s].flags THEN Seq(Datagram) ELSE Seq(Nat)

LEMMA EstablishTurns ==
  ASSUME StructureInv, NEW s \in Conn, Establish(s) PROVE \E q \in SockRec : SocketTurn(s, q)
<1>1. PICK st \in {"up", "refused"} : sock' = [sock EXCEPT ![s].st = st]
  BY DEF Establish
<1> DEFINE q == [sock[s] EXCEPT !.st = st]
<1>2. sock[s] \in SockRec /\ st \in SockState \ {"none", "closed"} /\ sock[s].st = "connecting"
  BY Typed DEF SockState, Establish
<1>3. sock' = [sock EXCEPT ![s] = q] /\ sock[s] # NoSocket
  BY <1>1, <1>2, Typed, FreedRec
<1>q. q = [sock[s] EXCEPT !.st = st]
  OBVIOUS
<1> HIDE DEF q
<1>4. q \in SockRec /\ q.st = st /\ q.rx = sock[s].rx /\ q.tx = sock[s].tx
      /\ q.in = sock[s].in /\ q.alien = sock[s].alien
  BY <1>2, <1>q, Turned
<1> QED BY <1>2, <1>3, <1>4 DEF SocketTurn, Mild, Arrives, StructureInv, WaitingOK

LEMMA PeerConnectsTurns ==
  ASSUME StructureInv, NEW s \in Conn, PeerConnects(s) PROVE \E q \in SockRec : SocketTurn(s, q)
<1> DEFINE p == [sock[s] EXCEPT !.in = sock[s].in + 1]
           q == [p EXCEPT !.backlog = sock[s].backlog + 1]
<1>0. sock[s] \in SockRec /\ sock[s].st = "listening"
  BY Typed DEF PeerConnects
<1>1. sock[s] \in SockRec /\ sock[s].in + 1 \in Nat /\ sock[s].backlog + 1 \in Nat
      /\ sock[s].st = "listening"
  BY <1>0 DEF SockRec
<1>2. sock' = [sock EXCEPT ![s] = q] /\ sock[s] # NoSocket
  <2>1. sock' = [sock EXCEPT ![s] = q]
    BY Typed DEF PeerConnects
  <2> QED BY <1>1, <2>1, FreedRec
<1>p. p = [sock[s] EXCEPT !.in = sock[s].in + 1]
  OBVIOUS
<1> HIDE DEF p
<1>q. q = [p EXCEPT !.backlog = sock[s].backlog + 1]
  OBVIOUS
<1> HIDE DEF q
<1>3. p \in SockRec /\ p.st = sock[s].st /\ p.rx = sock[s].rx /\ p.tx = sock[s].tx
      /\ p.alien = sock[s].alien
  BY <1>1, <1>p, Counted
<1>4. q \in SockRec /\ q.st = p.st /\ q.rx = p.rx /\ q.tx = p.tx /\ q.alien = p.alien
  BY <1>1, <1>3, <1>q, Fewer
<1> QED BY <1>1, <1>2, <1>3, <1>4 DEF SocketTurn, Mild, Arrives, StructureInv, WaitingOK

LEMMA PeerSendsTurns ==
  ASSUME StructureInv, NEW s \in Conn, PeerSends(s) PROVE \E q \in SockRec : SocketTurn(s, q)
<1>1. /\ sock[s] \in SockRec /\ sock[s].in + 1 \in Nat /\ sock[s].st = "up" /\ sock[s] # NoSocket
      /\ sock[s].rx \in IF conn[s].st = "live" /\ "UDP" \in conn[s].flags
                        THEN Seq(Datagram) ELSE Seq(Nat)
  <2>1. sock[s] \in SockRec /\ sock[s].st = "up"
    BY Typed DEF PeerSends
  <2>2. sock[s].in + 1 \in Nat
    BY <2>1 DEF SockRec
  <2> QED BY <2>1, <2>2, FreedRec DEF StructureInv, WaitingOK
<1>2. ASSUME NEW x \in Seq(Nat) \cup Seq(Datagram),
             sock' = [sock EXCEPT ![s].in = sock[s].in + 1, ![s].rx = x],
             x \in IF conn[s].st = "live" /\ "UDP" \in conn[s].flags THEN Seq(Datagram) ELSE Seq(Nat),
             IsDatagram(s) \/ x = Append(sock[s].rx, sock[s].in + 1)
      PROVE  \E q \in SockRec : SocketTurn(s, q)
  <2> DEFINE p == [sock[s] EXCEPT !.in = sock[s].in + 1]
             q == [p EXCEPT !.rx = x]
  <2>1. sock' = [sock EXCEPT ![s] = q]
    BY <1>2, Typed
  <2>p. p = [sock[s] EXCEPT !.in = sock[s].in + 1]
    OBVIOUS
  <2> HIDE DEF p
  <2>q. q = [p EXCEPT !.rx = x]
    OBVIOUS
  <2> HIDE DEF q
  <2>2. p \in SockRec /\ p.st = sock[s].st /\ p.tx = sock[s].tx /\ p.in = sock[s].in + 1
        /\ p.alien = sock[s].alien
    BY <1>1, <2>p, Counted
  <2>3. q \in SockRec /\ q.st = p.st /\ q.rx = x /\ q.tx = p.tx /\ q.in = p.in
        /\ q.alien = p.alien
    BY <2>2, <2>q, Draining
  <2> QED BY <1>1, <1>2, <2>1, <2>2, <2>3 DEF SocketTurn, Mild, Arrives
<1>3. CASE IsDatagram(s)
  <2>1. conn[s].st = "live" /\ "UDP" \in conn[s].flags
    BY <1>3 DEF IsDatagram, Is
  <2>2. conn[s].sa \in Peer \/ Is(s, "LISTENING")
    BY <2>1, Typed DEF StructureInv, PartnerOK, Is, ConnRec
  <2> DEFINE b(k) == IF k = "bytes" THEN <<sock[s].in + 1>> ELSE <<>>
  <2>3. PICK p \in IF Is(s, "LISTENING") THEN Peer ELSE {conn[s].sa}, k \in prog.kinds :
          sock' = [sock EXCEPT ![s].in = sock[s].in + 1,
                               ![s].rx = Append(sock[s].rx, [from |-> p, kind |-> k, data |-> b(k)])]
    BY <1>3, Typed DEF PeerSends
  <2> DEFINE d == [from |-> p, kind |-> k, data |-> b(k)]
             x == Append(sock[s].rx, d)
  <2>4. p \in Peer /\ k \in Kinds /\ b(k) \in Seq(Nat)
    <3>1. prog.kinds \subseteq Kinds
      BY ManagerConstants DEF StructureInv, TypeOK
    <3>2. <<sock[s].in + 1>> \in Seq(Nat) /\ <<>> \in Seq(Nat)
      BY <1>1
    <3> QED BY <2>2, <2>3, <3>1, <3>2
  <2> HIDE DEF b
  <2>5. d \in Datagram
    BY <2>4 DEF Datagram
  <2>6. sock[s].rx \in Seq(Datagram)
    BY <1>1, <2>1
  <2>x. sock' = [sock EXCEPT ![s].in = sock[s].in + 1, ![s].rx = x]
    BY <2>3
  <2> HIDE DEF d
  <2>7. x \in Seq(Datagram)
    BY <2>5, <2>6, AppendProperties
  <2> HIDE DEF x
  <2> QED BY <1>2, <1>3, <2>1, <2>x, <2>7
<1>4. CASE ~IsDatagram(s)
  <2>1. ~(conn[s].st = "live" /\ "UDP" \in conn[s].flags)
    BY <1>4 DEF IsDatagram, Is
  <2> DEFINE x == Append(sock[s].rx, sock[s].in + 1)
  <2>2. sock' = [sock EXCEPT ![s].in = sock[s].in + 1, ![s].rx = x]
    BY <1>4, Typed DEF PeerSends
  <2>3. sock[s].rx \in Seq(Nat)
    BY <1>1, <2>1
  <2>4. x \in Seq(Nat)
    BY <1>1, <2>3, AppendProperties
  <2>5. x = Append(sock[s].rx, sock[s].in + 1)
    OBVIOUS
  <2> HIDE DEF x
  <2> QED BY <1>2, <2>1, <2>2, <2>4, <2>5
<1> QED BY <1>3, <1>4

LEMMA PeerReadsTurns ==
  ASSUME StructureInv, NEW s \in Conn, PeerReads(s) PROVE \E q \in SockRec : SocketTurn(s, q)
<1> DEFINE q == [sock[s] EXCEPT !.room = Room]
<1>1. sock[s] \in SockRec /\ Room \in Nat /\ sock' = [sock EXCEPT ![s] = q]
  BY Typed, ManagerConstants DEF PeerReads
<1>2. sock[s] # NoSocket
  <2>1. NoSocket.room = Room /\ ~(Room < Room)
    BY ManagerConstants DEF NoSocket
  <2> QED BY <2>1 DEF PeerReads
<1>3. sock[s].st # "none"
  BY <1>2 DEF StructureInv, KernelOK
<1>q. q = [sock[s] EXCEPT !.room = Room]
  OBVIOUS
<1> HIDE DEF q
<1>4. q \in SockRec /\ q.st = sock[s].st /\ q.rx = sock[s].rx /\ q.tx = sock[s].tx
      /\ q.in = sock[s].in /\ q.alien = sock[s].alien
  BY <1>1, <1>q, Filled
<1> QED BY <1>1, <1>2, <1>3, <1>4 DEF SocketTurn, Mild, Arrives, StructureInv, WaitingOK

LEMMA PeerClosesTurns ==
  ASSUME StructureInv, NEW s \in Conn, PeerCloses(s) PROVE \E q \in SockRec : SocketTurn(s, q)
<1> DEFINE q == [sock[s] EXCEPT !.eof = TRUE]
<1>1. sock[s] \in SockRec /\ sock' = [sock EXCEPT ![s] = q] /\ sock[s].st = "up" /\ sock[s] # NoSocket
  BY Typed, FreedRec DEF PeerCloses
<1>q. q = [sock[s] EXCEPT !.eof = TRUE]
  OBVIOUS
<1> HIDE DEF q
<1>2. q \in SockRec /\ q.st = sock[s].st /\ q.rx = sock[s].rx /\ q.tx = sock[s].tx
      /\ q.in = sock[s].in /\ q.alien = sock[s].alien
  BY <1>1, <1>q, Ended
<1> QED BY <1>1, <1>2 DEF SocketTurn, Mild, Arrives, StructureInv, WaitingOK

LEMMA PeerResetsTurns ==
  ASSUME StructureInv, NEW s \in Conn, PeerResets(s) PROVE \E q \in SockRec : SocketTurn(s, q)
<1> DEFINE p == [sock[s] EXCEPT !.st = "reset"]
           none == <<>>
           q == [p EXCEPT !.rx = none]
<1>1. sock[s] \in SockRec /\ sock' = [sock EXCEPT ![s] = q] /\ sock[s].st = "up" /\ sock[s] # NoSocket
  <2>1. sock' = [sock EXCEPT ![s] = q]
    BY Typed DEF PeerResets
  <2>2. sock[s] \in SockRec /\ sock[s].st = "up"
    BY Typed DEF PeerResets
  <2> QED BY <2>1, <2>2, FreedRec
<1>2. none \in Seq(Nat) /\ none \in Seq(Datagram)
  OBVIOUS
<1>p. p = [sock[s] EXCEPT !.st = "reset"]
  OBVIOUS
<1> HIDE DEF p
<1> HIDE DEF none
<1>q. q = [p EXCEPT !.rx = none]
  OBVIOUS
<1> HIDE DEF q
<1>3. p \in SockRec /\ p.st = "reset" /\ p.tx = sock[s].tx /\ p.alien = sock[s].alien
  BY <1>1, <1>p, Turned DEF SockState
<1>4. q \in SockRec /\ q.st = "reset" /\ q.rx = none /\ q.tx = p.tx /\ q.alien = p.alien
  BY <1>2, <1>3, <1>q, Draining
<1>5. Mild(sock[s], q)
  BY <1>1, <1>4 DEF Mild, none
<1> QED BY <1>1, <1>2, <1>3, <1>4, <1>5 DEF SocketTurn, Arrives

LEMMA StandsStill ==
  ASSUME StructureInv, UNCHANGED IoState, prog' = prog, now' \in Nat, SocketsGoOn,
         sock' \in [Conn -> SockRec], WaitingOK'
  PROVE  StructureInv'
<1>1. /\ conn' = conn /\ list' = list /\ pc' = pc /\ cur' = cur /\ next' = next
      /\ fds' = fds /\ got' = got /\ seen' = seen /\ put' = put /\ holder' = holder
  BY DEF IoState, History
<1>2. TypeOK'
  BY <1>1 DEF StructureInv, TypeOK
<1>3. CursorOK'
  BY <1>1 DEF StructureInv, CursorOK, Live
<1>4. KernelOK'
  BY <1>1, KernelKept
<1>5. \A c \in Conn : Alike(conn[c], conn'[c])
  BY <1>1 DEF Alike
<1> QED BY <1>1, <1>2, <1>3, <1>4, <1>5, SteadyInv

LEMMA WorldKeepsStructure == ASSUME StructureInv, World PROVE StructureInv'
<1>1. CASE UNCHANGED <<IoState, Kernel>> /\ \E s \in Conn, q \in SockRec : SocketTurn(s, q)
  <2>1. PICK s \in Conn, q \in SockRec : SocketTurn(s, q)
    BY <1>1
  <2>2. \A d \in Conn : Alike(conn[d], conn'[d])
    BY <1>1 DEF Alike, IoState
  <2>3. SocketsGoOn /\ sock' \in [Conn -> SockRec] /\ WaitingOK'
    BY <2>1, <2>2, SocketMoves DEF SocketTurn
  <2>4. prog' = prog /\ now' \in Nat
    BY <1>1, Typed DEF Kernel
  <2> QED BY <1>1, <2>3, <2>4, StandsStill
<1>2. CASE UNCHANGED <<IoState, sock>> /\ prog' = prog /\ now' \in {now, now + 1}
  <2>1. SocketsGoOn
    BY <1>2, SameSockets
  <2>2. \A d \in Conn : Alike(conn[d], conn'[d])
    BY <1>2 DEF Alike, IoState
  <2>3. WaitingOK'
    BY <1>2, <2>2, SameSockets, WaitingKept
  <2>4. now' \in Nat /\ sock' \in [Conn -> SockRec]
    BY <1>2, Typed
  <2> QED BY <1>2, <2>1, <2>3, <2>4, StandsStill
<1>3. \/ /\ UNCHANGED <<IoState, sock>> /\ prog' = prog /\ now' \in {now, now + 1}
      \/ /\ UNCHANGED <<IoState, Kernel>>
         /\ \E s \in Conn : \/ Establish(s) \/ PeerConnects(s) \/ PeerSends(s)
                            \/ PeerReads(s) \/ PeerCloses(s) \/ PeerResets(s)
  BY DEF World, Tick, Broadcast, BroadcastReturns
<1>4. ASSUME NEW s \in Conn, \/ Establish(s) \/ PeerConnects(s) \/ PeerSends(s)
                             \/ PeerReads(s) \/ PeerCloses(s) \/ PeerResets(s)
      PROVE  \E q \in SockRec : SocketTurn(s, q)
  BY <1>4, EstablishTurns, PeerConnectsTurns, PeerSendsTurns, PeerReadsTurns, PeerClosesTurns,
     PeerResetsTurns
<1> QED BY <1>1, <1>2, <1>3, <1>4
-----------------------------------------------------------------------------
(* The list and the pointers into it *)

LEMMA StructureHoldsFirst == ASSUME Init PROVE StructureInv
<1> DEFINE b == [NewConn(None, {}, None, None) EXCEPT !.st = "blank"]
<1>1. /\ conn = [c \in Conn |-> b] /\ list = <<>> /\ pc = "app" /\ cur = None /\ next = None
      /\ sock = [c \in Conn |-> NoSocket] /\ fds = [r |-> {}, w |-> {}, ctl |-> FALSE, at |-> 0]
      /\ got = None /\ prog \in Programs /\ now = 1 /\ seen = [c \in Conn |-> <<>>]
      /\ put = [c \in Conn |-> 0] /\ holder = [c \in Conn |-> c]
  BY DEF Init
<1>2. NewConn(None, {}, None, None) \in ConnRec
  BY FreedRec
<1>3. b \in ConnRec /\ b.st = "blank"
  BY <1>2 DEF ConnRec
<1> HIDE DEF b
<1>4. prog.out \in Nat /\ \A n \in Nat : 0 <= n
  BY <1>1, ManagerConstants
<1>5. <<>> \in Seq(Conn) /\ <<>> \in Seq(Met) /\ <<>> \in Seq(Nat) /\ 0 \in Nat /\ 1 \in Nat
  OBVIOUS
<1>6. fds \in FdsRec /\ fds.r = {} /\ fds.w = {}
  BY <1>1, <1>5 DEF FdsRec
<1>7. TypeOK
  BY <1>1, <1>3, <1>4, <1>5, <1>6, FreedRec DEF TypeOK, Place
<1>8. Live = {}
  BY <1>1, <1>3 DEF Live
<1>9. ListOK
  <2>1. Len(<<>>) = 0 /\ DOMAIN <<>> = {}
    OBVIOUS
  <2> QED BY <1>1, <1>8, <2>1 DEF ListOK, IsInjective, ToSet
<1>10. CursorOK
  BY <1>1 DEF CursorOK, Handling
<1>11. WaitingOK /\ SocketOK /\ SourcesOK /\ PartnerOK
  BY <1>1, <1>3, <1>5, FreedRec DEF WaitingOK, SocketOK, SourcesOK, PartnerOK
<1>12. KernelOK
  BY <1>1, <1>6 DEF KernelOK
<1>13. HolderOK /\ AliensOK
  BY <1>1, FreedRec DEF HolderOK, AliensOK
<1> QED BY <1>7, <1>9, <1>10, <1>11, <1>12, <1>13 DEF StructureInv

LEMMA StructureKeeps == ASSUME StructureInv, [Next]_vars PROVE StructureInv'
<1>1. CASE AppCalls
  BY <1>1, AppCallsKeepsStructure
<1>2. CASE AppFrees
  BY <1>2, AppFreesKeepsStructure
<1>3. CASE Select
  BY <1>3, SelectKeepsStructure
<1>4. CASE HandleCtlSock
  BY <1>4, HandleCtlSockKeepsStructure
<1>5. CASE HandleConnecting
  BY <1>5, HandleConnectingKeepsStructure
<1>6. CASE HandleRead
  BY <1>6, HandleReadKeepsStructure
<1>7. CASE HandleDatagram
  BY <1>7, HandleDatagramKeepsStructure
<1>8. CASE HandleWrite
  BY <1>8, HandleWriteKeepsStructure
<1>9. CASE HandlePoll \/ HandleTimer
  BY <1>9, PollAndTimerKeepStructure
<1>10. CASE Sweep
  BY <1>10, SweepKeepsStructure
<1>11. CASE Free
  BY <1>11, FreeKeepsStructure
<1>12. CASE World
  BY <1>12, WorldKeepsStructure
<1>13. CASE UNCHANGED vars
  <2>1. UNCHANGED IoState /\ prog' = prog /\ now' \in Nat /\ sock' = sock /\ conn' = conn
    BY <1>13, Typed DEF vars, IoState, Kernel, History
  <2>2. SocketsGoOn /\ sock' \in [Conn -> SockRec]
    BY <2>1, SameSockets, Typed
  <2>3. WaitingOK'
    BY <2>1, IdleHandsOn, WaitingKept, SameSockets DEF Alike
  <2> QED BY <2>1, <2>2, <2>3, StandsStill
<1> QED BY <1>1, <1>2, <1>3, <1>4, <1>5, <1>6, <1>7, <1>8, <1>9, <1>10, <1>11, <1>12, <1>13
        DEF Next, IoThread

LEMMA StructureIsConsistent == ASSUME StructureInv PROVE ListConsistent
<1>1. IsInjective(list) /\ ToSet(list) = Live /\ cur \in Live \cup {None}
  BY DEF StructureInv, ListOK, CursorOK
<1>2. pc \in {"read", "datagram", "write", "poll", "timer"} => cur # None /\ next \in Live \cup {None}
  BY DEF StructureInv, CursorOK, Handling
<1>3. pc = "datagram" => got.to \in Live
  BY DEF StructureInv, CursorOK, Incoming, Live
<1>4. ASSUME NEW c \in Live, HasSock(c), ~InPlace(c)
      PROVE  IsFake(c) /\ conn[conn[c].listener].st = "freed"
  <2>1. c \in Conn /\ conn[c].st = "live"
    BY DEF Live
  <2>2. \A s \in Conn : sock[s].st = "closed" => conn[s].st = "freed"
    BY DEF StructureInv, SocketOK
  <2>3. CASE ~IsFake(c)
    BY <1>4, <2>1, <2>2, <2>3, OwnSocket DEF InPlace
  <2>4. CASE IsFake(c) /\ conn[conn[c].listener].st # "freed"
    BY <1>4, <2>1, <2>2, <2>4, OwnSocket DEF InPlace
  <2> QED BY <2>3, <2>4
<1>5. ASSUME NEW c \in Live, NEW d \in Live, conn[c].listener # None,
             conn[c].listener = conn[d].listener, IsFake(c), conn[c].sa = conn[d].sa
      PROVE  c = d
  BY <1>5 DEF StructureInv, SourcesOK, IsFake, Is, Live
<1> QED BY <1>1, <1>2, <1>3, <1>4, <1>5 DEF ListConsistent

\* The active list and the pointers the loops of mg_socket_if_poll save are sound,
\* whatever is opened, flagged and closed while they run.
THEOREM ListIsConsistent == Spec => []ListConsistent
<1>1. Init => StructureInv
  BY StructureHoldsFirst
<1>2. StructureInv /\ [Next]_vars => StructureInv'
  BY StructureKeeps
<1>3. StructureInv => ListConsistent
  BY StructureIsConsistent
<1> QED BY <1>1, <1>2, <1>3, PTL DEF Spec
-----------------------------------------------------------------------------
(* What the handler was told *)

LEMMA ToldOn ==
  ASSUME NEW r, NEW q, NEW h, Shape(r, q), Told(r, h) PROVE Told(q, h)
BY DEF Shape, Told, Unsettled

LEMMA ReachedOn ==
  ASSUME NEW r, NEW q, NEW h, NEW k, NEW m, Shape(r, q), Reached(r, h, k), Mild(k, m),
         k = NoSocket => m = NoSocket
  PROVE  Reached(q, h, m)
BY DEF Shape, Reached, Mild

\* A socket that the step leaves in its state, or moves on
Onward(s) == Mild(sock[s], sock'[s]) /\ (sock[s] = NoSocket => sock'[s] = NoSocket)

\* A connection the step tells nothing new
Unmoved(c) == Shape(conn[c], conn'[c]) /\ seen'[c] = seen[c] /\ Onward(c)

LEMMA StoryStep ==
  ASSUME StoryOK,
         \A c \in Conn : \/ Unmoved(c)
                         \/ Told(conn'[c], seen'[c]) /\ Reached(conn'[c], seen'[c], sock'[c])
  PROVE  StoryOK'
<1> SUFFICES ASSUME NEW c \in Conn
             PROVE  Told(conn'[c], seen'[c]) /\ Reached(conn'[c], seen'[c], sock'[c])
  BY DEF StoryOK, Told, Reached, Unsettled, NoSocket
<1>1. CASE Unmoved(c)
  BY <1>1, ToldOn, ReachedOn DEF StoryOK, Unmoved, Onward
<1> QED BY <1>1

LEMMA SameOnward == ASSUME sock' = sock PROVE \A s \in Conn : Onward(s)
BY DEF Onward, Mild

LEMMA ShapeItself == \A r : Shape(r, r)
BY DEF Shape

\* One connection is called, the others are left alone.
LEMMA CallTells ==
  ASSUME StructureInv, StoryOK, NEW c \in Conn, NEW r \in ConnRec, NEW ev \in Events, NEW q \in ConnRec,
         AfterCall(c, r, ev, q), \A d \in Conn : Onward(d),
         Told(q, Noted(seen[c], ev)), Reached(q, Noted(seen[c], ev), sock'[c])
  PROVE  StoryOK'
<1>1. conn \in [Conn -> ConnRec] /\ seen \in [Conn -> Seq(Met)]
  BY Typed
<1>2. conn'[c] = q /\ seen'[c] = Noted(seen[c], ev)
      /\ \A d \in Conn \ {c} : conn'[d] = conn[d] /\ seen'[d] = seen[d]
  BY <1>1 DEF AfterCall
<1>3. \A d \in Conn \ {c} : Unmoved(d)
  BY <1>2, ShapeItself DEF Unmoved
<1> QED BY <1>2, <1>3, StoryStep

\* What a call of a connection that is in use does
LEMMA UseTells ==
  ASSUME StructureInv, StoryOK, NEW c \in Live, NEW r \in ConnRec, Shape(conn[c], r),
         NEW ev \in Events, Call(c, r, ev), \A d \in Conn : Onward(d),
         \/ ev \in {"POLL", "TIMER"}
         \/ (ev \in {"RECV", "SEND"} /\ ~Unsettled(conn[c]) /\ seen[c] # <<"CONNECT_FAILED">>)
  PROVE  StoryOK' /\ \A d \in Conn : Shape(conn[d], conn'[d])
<1>0. c \in Conn /\ conn[c].st = "live" /\ conn \in [Conn -> ConnRec] /\ seen[c] \in Seq(Met) /\ TypeOK
  BY Typed DEF Live
<1>1. PICK q \in ConnRec : AfterCall(c, r, ev, q)
  BY <1>0, CallSteps
<1>2. Shape(conn[c], q)
  BY <1>1 DEF AfterCall, Shape
<1>3. \A d \in Conn : Shape(conn[d], conn'[d])
  BY <1>0, <1>1, <1>2, ShapeItself DEF AfterCall
<1>4. Told(conn[c], seen[c]) /\ Reached(conn[c], seen[c], sock[c]) /\ Onward(c)
  BY <1>0 DEF StoryOK
<1>5. Told(q, seen[c]) /\ Reached(q, seen[c], sock'[c])
  BY <1>2, <1>4, ToldOn, ReachedOn DEF Onward
<1>6. CASE ev \in {"POLL", "TIMER"}
  <2>1. Noted(seen[c], ev) = seen[c]
    BY <1>0, <1>6, Noting
  <2> QED BY <1>0, <1>1, <1>3, <1>5, <2>1, CallTells
<1>7. CASE ev \in {"RECV", "SEND"} /\ ~Unsettled(conn[c]) /\ seen[c] # <<"CONNECT_FAILED">>
  <2> DEFINE h == Noted(seen[c], ev)
  <2>1. seen[c] \in Begun \cup InUse
    BY <1>0, <1>4, <1>7 DEF Told
  <2>2. h \in InUse
    BY <1>7, <2>1, StoryGoesOn
  <2>3. h # <<"CONNECT_FAILED">>
    <3>1. \A m \in Met : <<m, "IO">> # <<"CONNECT_FAILED">>
      OBVIOUS
    <3> HIDE DEF h
    <3> QED BY <2>2 DEF InUse
  <2>4. q.st = "live" /\ ~Unsettled(q)
    BY <1>0, <1>2, <1>7 DEF Shape, Unsettled
  <2> HIDE DEF h
  <2>5. Told(q, h)
    BY <1>5, <2>2, <2>4 DEF Told, Unsettled
  <2>6. Reached(q, h, sock'[c])
    BY <1>5, <2>3 DEF Reached
  <2> QED BY <1>0, <1>1, <1>3, <2>5, <2>6, CallTells DEF h
<1> QED BY <1>6, <1>7

LEMMA ReceivedTells ==
  ASSUME StructureInv, StoryOK, NEW c \in Live, NEW b \in Seq(Nat), Received(c, b),
         ~Unsettled(conn[c]), seen[c] # <<"CONNECT_FAILED">>, \A d \in Conn : Onward(d)
  PROVE  StoryOK' /\ \A d \in Conn : Shape(conn[d], conn'[d])
<1> DEFINE y == AppendTo(conn[c].recv, b)
           f == IF b = <<>> THEN "freed" ELSE conn[c].buf
           q == [conn[c] EXCEPT !.recv = y, !.buf = f]
<1>1. c \in Conn /\ conn[c] \in ConnRec /\ conn[c].recv \in Seq(Nat) 
      /\ f \in {"own", "freed"}
  BY Typed DEF ConnRec, Live
<1>2. y \in Seq(Nat)
  BY <1>1, Bytes
<1>3. Call(c, q, "RECV") \/ UNCHANGED <<conn, History>>
  BY DEF Received
<1>q. q = [conn[c] EXCEPT !.recv = y, !.buf = f]
  OBVIOUS
<1> HIDE DEF q, y, f
<1>4. q \in ConnRec /\ Alike(conn[c], q) /\ q.flags = conn[c].flags /\ q.err = conn[c].err
  BY <1>1, <1>2, <1>q DEF ConnRec, Alike
<1>5. Shape(conn[c], q)
  BY <1>4 DEF Alike, Shape, Unsettled
<1>6. CASE Call(c, q, "RECV")
  BY <1>4, <1>5, <1>6, UseTells DEF Events
<1>7. CASE UNCHANGED <<conn, History>>
  <2>1. \A d \in Conn : Unmoved(d)
    BY <1>7, ShapeItself DEF Unmoved, History
  <2> QED BY <1>7, <2>1, StoryStep, ShapeItself
<1> QED BY <1>3, <1>6, <1>7

LEMMA FlaggedTells ==
  ASSUME StructureInv, StoryOK, NEW c \in Conn, NEW f \in Modifiable, Flagged(c, f), sock' = sock
  PROVE  StoryOK' /\ \A d \in Conn : Shape(conn[d], conn'[d])
<1>1. seen' = seen /\ \A d \in Conn : Shape(conn[d], conn'[d])
  BY FlaggedKeeps
<1>2. \A d \in Conn : Unmoved(d)
  BY <1>1, SameOnward DEF Unmoved
<1> QED BY <1>1, <1>2, StoryStep

\* The steps outside of the round of the handled connections
LEMMA ReadyElsewhere == ASSUME pc' \notin {"read", "datagram", "write"} PROVE ReadyOK'
BY DEF ReadyOK

LEMMA OpenedTells ==
  ASSUME StructureInv, StoryOK, NEW c \in Blank, NEW r \in ConnRec, NEW s, Opened(c, r, s),
         r.st = "live", r.listener = None, s.rx = <<>>,
         \/ /\ "LISTENING" \in r.flags /\ "CONNECTING" \notin r.flags
            /\ r.send = <<>> /\ ~r.err
         \/ /\ "LISTENING" \notin r.flags /\ "CONNECTING" \in r.flags
            /\ \/ ~r.err
               \/ r.sock = None /\ s = NoSocket
               \/ s.st = "unconnected" /\ "UDP" \notin r.flags
  PROVE  StoryOK'
<1>1. /\ c \in Conn /\ conn[c].st = "blank" /\ conn \in [Conn -> ConnRec] /\ sock \in [Conn -> SockRec]
      /\ conn' = [conn EXCEPT ![c] = r] /\ sock' = [sock EXCEPT ![c] = s] /\ seen' = seen
  BY Typed DEF Opened, Blank, History
<1>2. conn'[c] = r /\ sock'[c] = s
      /\ \A d \in Conn \ {c} : conn'[d] = conn[d] /\ sock'[d] = sock[d]
  BY <1>1
<1>3. seen'[c] = <<>>
  BY <1>1 DEF StoryOK, Told
<1>4. Told(r, <<>>)
  BY DEF Told, Unsettled
<1>5. Reached(r, <<>>, s)
  <2>1. <<>> # <<"CONNECT_FAILED">>
    OBVIOUS
  <2> QED BY <2>1 DEF Reached
<1>6. \A d \in Conn \ {c} : Unmoved(d)
  BY <1>1, <1>2, ShapeItself DEF Unmoved, Onward, Mild
<1> QED BY <1>2, <1>3, <1>4, <1>5, <1>6, StoryStep

LEMMA AppCallsTells == ASSUME StructureInv, StoryOK, AppCalls PROVE StoryOK'
<1>1. PICK c \in Blank : \/ Bind(c, FALSE) \/ Bind(c, TRUE) \/ ConnectTcp(c)
                         \/ \E p \in Peer : ConnectUdp(c, p)
  BY DEF AppCalls
<1>2. c \in Conn /\ None \notin Conn
  BY ManagerConstants DEF Blank
<1>3. ASSUME NEW udp \in BOOLEAN, Bind(c, udp) PROVE StoryOK'
  <2> DEFINE g == {"LISTENING"} \cup IF udp THEN {"UDP"} ELSE {}
             r == NewConn(c, g, None, None)
             s == [NoSocket EXCEPT !.st = IF udp THEN "up" ELSE "listening"]
  <2>1. g \in SUBSET Flags /\ "LISTENING" \in g /\ "CONNECTING" \notin g
    BY DEF Flags
  <2>2. r.send = <<>>
    BY DEF NewConn
  <2>3. (IF udp THEN "up" ELSE "listening") \in SockState
    BY DEF SockState
  <2>4. s.rx = <<>>
    BY <2>3, NewSocket
  <2>5. Opened(c, r, s)
    BY <1>3 DEF Bind
  <2> HIDE DEF g, s
  <2>6. r \in ConnRec /\ r.st = "live" /\ r.listener = None /\ r.flags = g /\ ~r.err
    BY <1>2, <2>1, FreedRec
  <2> HIDE DEF r
  <2> QED BY <2>1, <2>2, <2>4, <2>5, <2>6, OpenedTells
<1>4. CASE ConnectTcp(c)
  <2> DEFINE r(s) == NewConn(s, {"CONNECTING"}, None, None)
             q(s) == [r(s) EXCEPT !.err = TRUE]
             k(st) == [NoSocket EXCEPT !.st = st]
  <2>1. \A s \in {None, c} : /\ r(s) \in ConnRec /\ r(s).st = "live" /\ r(s).sock = s
                             /\ r(s).listener = None /\ r(s).flags = {"CONNECTING"} /\ ~r(s).err
    BY <1>2, FreedRec DEF Flags
  <2>2. \A s \in {None, c} : /\ q(s) \in ConnRec /\ q(s).st = "live" /\ q(s).sock = s
                             /\ q(s).listener = None /\ q(s).flags = {"CONNECTING"}
    <3> SUFFICES ASSUME NEW s \in {None, c}
                 PROVE  /\ q(s) \in ConnRec /\ q(s).st = "live" /\ q(s).sock = s
                        /\ q(s).listener = None /\ q(s).flags = {"CONNECTING"}
      OBVIOUS
    <3> HIDE DEF r
    <3> QED BY <2>1, WithError
  <2>3. \A st \in {"unconnected", "connecting"} : k(st).st = st /\ k(st).rx = <<>>
    BY NewSocket DEF SockState
  <2>4. \/ Opened(c, q(None), NoSocket) \/ Opened(c, q(c), k("unconnected"))
        \/ Opened(c, r(c), k("connecting"))
    BY <1>4 DEF ConnectTcp
  <2> HIDE DEF r, q, k
  <2>5. CASE Opened(c, q(None), NoSocket)
    BY <2>2, <2>5, OpenedTells, FreedRec
  <2>6. CASE Opened(c, q(c), k("unconnected"))
    BY <2>2, <2>3, <2>6, OpenedTells
  <2>7. CASE Opened(c, r(c), k("connecting"))
    BY <2>1, <2>3, <2>7, OpenedTells
  <2> QED BY <2>4, <2>5, <2>6, <2>7
<1>5. ASSUME NEW p \in Peer, ConnectUdp(c, p) PROVE StoryOK'
  <2> DEFINE r(s) == NewConn(s, {"CONNECTING", "UDP"}, None, p)
             q == [r(None) EXCEPT !.err = TRUE]
             k == [NoSocket EXCEPT !.st = "up"]
  <2>1. \A s \in {None, c} : /\ r(s) \in ConnRec /\ r(s).st = "live" /\ r(s).sock = s
                             /\ r(s).listener = None /\ r(s).flags = {"CONNECTING", "UDP"} /\ ~r(s).err
    BY <1>2, FreedRec DEF Flags
  <2>2. q \in ConnRec /\ q.st = "live" /\ q.sock = None /\ q.listener = None
        /\ q.flags = {"CONNECTING", "UDP"}
    <3> HIDE DEF r
    <3> QED BY <2>1, WithError
  <2>3. k.rx = <<>>
    BY NewSocket DEF SockState
  <2>4. Opened(c, q, NoSocket) \/ Opened(c, r(c), k)
    BY <1>5 DEF ConnectUdp
  <2> HIDE DEF r, q, k
  <2>5. CASE Opened(c, q, NoSocket)
    BY <2>2, <2>5, OpenedTells, FreedRec
  <2>6. CASE Opened(c, r(c), k)
    BY <2>1, <2>3, <2>6, OpenedTells
  <2> QED BY <2>4, <2>5, <2>6
<1> QED BY <1>1, <1>3, <1>4, <1>5

\* The steps that tell nobody anything
LEMMA QuietTells ==
  ASSUME StoryOK, conn' = conn, seen' = seen, \A d \in Conn : Onward(d) PROVE StoryOK'
BY StoryStep, ShapeItself DEF Unmoved

LEMMA HandleCtlSockTells == ASSUME StructureInv, StoryOK, HandleCtlSock PROVE StoryOK'
<1>1. seen' = seen /\ sock' = sock
  BY DEF HandleCtlSock
<1>2. \A d \in Conn : Unmoved(d)
  BY <1>1, CtlSockTells, SameOnward DEF Unmoved
<1> QED BY <1>2, StoryStep

LEMMA WorldTells == ASSUME StructureInv, StoryOK, World PROVE StoryOK'
<1>1. conn' = conn /\ seen' = seen
  BY DEF World, IoState, History
<1>2. sock' = sock \/ \E s \in Conn, q \in SockRec : SocketTurn(s, q)
  BY EstablishTurns, PeerConnectsTurns, PeerSendsTurns, PeerReadsTurns, PeerClosesTurns,
     PeerResetsTurns DEF World
<1>3. ASSUME NEW s \in Conn, NEW q \in SockRec, SocketTurn(s, q) PROVE \A d \in Conn : Onward(d)
  <2>1. sock'[s] = q /\ \A d \in Conn \ {s} : sock'[d] = sock[d]
    BY <1>3, Typed DEF SocketTurn
  <2> QED BY <1>3, <2>1 DEF SocketTurn, Onward, Mild
<1> QED BY <1>1, <1>2, <1>3, QuietTells, SameOnward

LEMMA CloseTells ==
  ASSUME StructureInv, StoryOK, NEW i \in 1 .. Len(list), NEW there, CloseConn(i, there),
         holder' = holder
  PROVE  StoryOK'
<1> DEFINE c == list[i]
<1>1. /\ c \in Live /\ conn'[c] = Freed /\ (sock'[c] = sock[c] \/ sock'[c].st = "closed")
      /\ sock'[c].rx = <<>>
      /\ \A d \in Conn \ {c} : conn'[d] = conn[d] /\ sock'[d] = sock[d]
  BY CloseKeeps
<1>2. c \in Conn /\ conn[c].st = "live" /\ seen' = [seen EXCEPT ![c] = Noted(seen[c], "CLOSE")]
  BY <1>1 DEF CloseConn, Live
<1> HIDE DEF c
<1>3. seen[c] \in Story
  BY <1>2 DEF StoryOK, Told, Story
<1>4. seen'[c] = Append(seen[c], "CLOSE") /\ \A d \in Conn \ {c} : seen'[d] = seen[d]
  BY <1>2, <1>3, Stories, Noting, Typed
<1>5. Told(conn'[c], seen'[c])
  BY <1>1, <1>3, <1>4, FreedRec DEF Told
<1>6. Reached(conn'[c], seen'[c], sock'[c])
  BY <1>1, FreedRec DEF Reached
<1>7. \A d \in Conn \ {c} : Unmoved(d)
  BY <1>1, <1>4, ShapeItself DEF Unmoved, Onward, Mild
<1> QED BY <1>5, <1>6, <1>7, StoryStep

LEMMA SweepTells == ASSUME StructureInv, StoryOK, Sweep PROVE StoryOK'
<1>1. /\ holder' = holder
      /\ (conn' = conn /\ sock' = sock /\ seen' = seen) \/ \E i \in DOMAIN list : CloseConn(i, "sweep")
  BY DEF Sweep
<1>2. DOMAIN list = 1 .. Len(list)
  BY Typed, LenProperties
<1> QED BY <1>1, <1>2, CloseTells, QuietTells, SameOnward

LEMMA FreeTells == ASSUME StructureInv, StoryOK, Free PROVE StoryOK'
<1>0. holder' = holder
  BY DEF Free
<1>1. CASE list # <<>> /\ CloseConn(1, pc)
  <2>1. list \in Seq(Conn) /\ Len(list) \in Nat /\ Len(list) # 0
    BY <1>1, Typed, LenProperties, EmptySeq
  <2>2. 1 \in 1 .. Len(list)
    BY <2>1
  <2> QED BY <1>0, <1>1, <2>2, CloseTells
<1>2. CASE conn' = conn /\ sock' = sock /\ seen' = seen
  BY <1>2, QuietTells, SameOnward
<1> QED BY <1>1, <1>2 DEF Free, History

\* The steps of the connection that is handled
LEMMA ConnectedTells ==
  ASSUME StructureInv, StoryOK, NEW c \in Live, NEW err \in BOOLEAN, Connected(c, err),
         "CONNECTING" \in conn[c].flags, sock' = sock,
         err => sock[c].st \notin {"up", "connecting"} /\ ("UDP" \in conn[c].flags => conn[c].sock = None)
  PROVE  StoryOK' /\ "CONNECTING" \notin conn'[c].flags
<1> DEFINE ev == IF err THEN "CONNECT_FAILED" ELSE "CONNECT"
<1>1. c \in Conn /\ conn[c].st = "live" /\ TypeOK /\ conn \in [Conn -> ConnRec] /\ ev \in Events
  BY Typed DEF Live, Events
<1>2. PICK r \in ConnRec : /\ Alike(conn[c], r) /\ r.err = conn[c].err
                           /\ r.flags \ Modifiable = (conn[c].flags \ {"CONNECTING"}) \ Modifiable
                           /\ Call(c, r, ev)
  BY <1>1, ConnectedCalls
<1> HIDE DEF ev
<1>3. PICK q \in ConnRec : AfterCall(c, r, ev, q)
  BY <1>1, <1>2, CallSteps
<1>4. Told(conn[c], seen[c]) /\ Reached(conn[c], seen[c], sock[c])
  BY <1>1 DEF StoryOK
<1>5. seen[c] = <<>> /\ "LISTENING" \notin conn[c].flags /\ conn[c].listener = None
  BY <1>1, <1>4 DEF Told, Unsettled
<1>6. "CONNECTING" \notin r.flags /\ "LISTENING" \notin r.flags
  BY <1>2, <1>5 DEF Modifiable
<1>7. /\ "CONNECTING" \notin q.flags /\ "LISTENING" \notin q.flags /\ q.st = "live" /\ q.listener = None
      /\ q.sock = conn[c].sock /\ q.err = conn[c].err /\ ("UDP" \in q.flags <=> "UDP" \in conn[c].flags)
  BY <1>1, <1>2, <1>3, <1>5, <1>6 DEF AfterCall, Shape, Alike
<1>8. /\ Noted(seen[c], ev) = (IF err THEN <<"CONNECT_FAILED">> ELSE <<"CONNECT">>)
      /\ <<"CONNECT">> # <<"CONNECT_FAILED">>
  BY <1>5, StoryBegins DEF ev
<1> DEFINE h == Noted(seen[c], ev)
<1>9. h \in {<<"CONNECT_FAILED">>} \cup Begun /\ (~err => h # <<"CONNECT_FAILED">>)
  BY <1>8 DEF Begun
<1> HIDE DEF h
<1>10. Told(q, h)
  BY <1>7, <1>9 DEF Told, Unsettled
<1>11. Reached(q, h, sock[c])
  BY <1>1, <1>4, <1>7, <1>9 DEF Reached
<1>12. Reached(q, h, sock'[c])
  BY <1>11
<1>13. StoryOK'
  BY <1>1, <1>3, <1>10, <1>12, SameOnward, CallTells DEF h
<1> QED BY <1>1, <1>3, <1>7, <1>13 DEF AfterCall

LEMMA HandleConnectingTells ==
  ASSUME StructureInv, StoryOK, HandleConnecting PROVE StoryOK' /\ ReadyOK'
<1>1. /\ holder' = holder /\ sock' = sock /\ cur' = cur /\ fds' = fds /\ pc' = "read" /\ cur \in Live /\ cur \in Conn
      /\ conn[cur].st = "live"
  BY Typed DEF HandleConnecting, Live
<1> DEFINE fd == FdRead(cur) \/ FdWrite(cur)
           bad == ~Is(cur, "UDP") /\ sock[cur].st \in {"refused", "reset"}
<1>2. \/ Is(cur, "CONNECTING") /\ fd /\ Connected(cur, bad)
      \/ Is(cur, "CONNECTING") /\ ~fd /\ conn[cur].err /\ Connected(cur, TRUE)
      \/ ~(Is(cur, "CONNECTING") /\ fd) /\ UNCHANGED <<conn, History>>
  BY DEF HandleConnecting
<1>3. CASE Is(cur, "CONNECTING") /\ fd /\ Connected(cur, bad)
  <2>1. bad \in BOOLEAN
    OBVIOUS
  <2>2. bad => sock[cur].st \notin {"up", "connecting"} /\ "UDP" \notin conn[cur].flags
    BY DEF Is
  <2> HIDE DEF bad
  <2>3. StoryOK' /\ "CONNECTING" \notin conn'[cur].flags
    BY <1>1, <1>3, <2>1, <2>2, ConnectedTells DEF Is
  <2> QED BY <1>1, <2>3 DEF ReadyOK, Is
<1>4. CASE Is(cur, "CONNECTING") /\ conn[cur].err /\ Connected(cur, TRUE)
  <2>1. Reached(conn[cur], seen[cur], sock[cur])
    BY <1>1 DEF StoryOK
  <2>2. sock[cur].st \notin {"up", "connecting"} /\ ("UDP" \in conn[cur].flags => conn[cur].sock = None)
    BY <1>1, <1>4, <2>1, FreedRec DEF Reached
  <2>3. StoryOK' /\ "CONNECTING" \notin conn'[cur].flags
    BY <1>1, <1>4, <2>2, ConnectedTells DEF Is
  <2> QED BY <1>1, <2>3 DEF ReadyOK, Is
<1>5. CASE ~(Is(cur, "CONNECTING") /\ fd) /\ UNCHANGED <<conn, History>>
  <2>1. StoryOK'
    BY <1>1, <1>5, QuietTells, SameOnward DEF History
  <2>2. ReadyOK'
    BY <1>1, <1>5 DEF ReadyOK, Is, FdRead, FdWrite, SockOf, HasSock, IsFake
  <2> QED BY <2>1, <2>2
<1> QED BY <1>2, <1>3, <1>4, <1>5

LEMMA ReadyKept ==
  ASSUME StructureInv, ReadyOK, \A d \in Conn : Shape(conn[d], conn'[d]), cur' = cur, fds' = fds,
         holder' = holder,         pc \in {"read", "datagram", "write"}, pc' = "write"
  PROVE  ReadyOK'
<1>1. cur \in Conn
  BY DEF StructureInv, CursorOK, Handling, Live
<1>2. Shape(conn[cur], conn'[cur])
  BY <1>1
<1> QED BY <1>2 DEF ReadyOK, Shape, Is, FdRead, FdWrite, SockOf, HasSock, IsFake

LEMMA TcpReadTells ==
  ASSUME StructureInv, StoryOK, ReadyOK, pc = "read", TcpRead(cur), FdRead(cur), cur' = cur, fds' = fds,
         ~Is(cur, "UDP"), ~Is(cur, "LISTENING")
  PROVE  StoryOK' /\ ReadyOK'
<1>1. /\ cur \in Live /\ cur \in Conn /\ conn[cur].st = "live" /\ pc' = "write"
      /\ sock \in [Conn -> SockRec] /\ ~Unsettled(conn[cur])
  BY Typed DEF StructureInv, CursorOK, Handling, Live, TcpRead, ReadyOK, Unsettled, Is
<1>2. sock[cur].rx \in Seq(Nat) /\ Reached(conn[cur], seen[cur], sock[cur])
  BY <1>1 DEF StructureInv, WaitingOK, StoryOK, Is
<1>3. StoryOK' /\ \A d \in Conn : Shape(conn[d], conn'[d])
  <2>1. CASE sock[cur].rx # <<>>
    <3>1. PICK n \in DOMAIN sock[cur].rx :
            /\ sock' = [sock EXCEPT ![cur].rx = DropBytes(sock[cur].rx, n)]
            /\ Received(cur, SubSeq(sock[cur].rx, 1, n))
      BY <1>1, <2>1 DEF TcpRead
    <3> DEFINE y == DropBytes(sock[cur].rx, n)
               b == SubSeq(sock[cur].rx, 1, n)
               q == [sock[cur] EXCEPT !.rx = y]
    <3>2. n \in 1 .. Len(sock[cur].rx) /\ n \in Nat /\ Len(sock[cur].rx) \in Nat
          /\ \A i \in 1 .. Len(sock[cur].rx) : sock[cur].rx[i] \in Nat
      BY <1>2, <3>1, LenProperties, ElementOfSeq
    <3>3. b \in Seq(Nat)
      <4>1. \A i \in 1 .. n : sock[cur].rx[i] \in Nat
        BY <3>2
      <4> QED BY <3>2, <4>1, SubSeqProperties
    <3>4. y \in Seq(Nat)
      BY <1>2, <3>2, Bytes
    <3>5. sock' = [sock EXCEPT ![cur] = q]
      BY <1>1, <3>1
    <3>q. q = [sock[cur] EXCEPT !.rx = y]
      OBVIOUS
    <3> HIDE DEF q, y
    <3>6. q.st = sock[cur].st
      BY <1>1, <3>4, <3>q, Draining
    <3>7. sock[cur].st = "up"
      BY <1>2, <2>1 DEF Reached
    <3>8. seen[cur] # <<"CONNECT_FAILED">>
      BY <1>1, <1>2, <3>7 DEF Reached
    <3>9. \A d \in Conn : Onward(d)
      <4>1. sock'[cur] = q /\ \A d \in Conn \ {cur} : sock'[d] = sock[d]
        BY <1>1, <3>5
      <4> QED BY <3>6, <3>7, <4>1, FreedRec DEF Onward, Mild
    <3>10. Received(cur, b)
      BY <3>1
    <3> HIDE DEF b
    <3> QED BY <1>1, <3>3, <3>8, <3>9, <3>10, ReceivedTells
  <2>2. CASE sock[cur].rx = <<>>
    <3>1. sock' = sock /\ \E f \in Modifiable : Flagged(cur, f)
      BY <2>2 DEF TcpRead, Modifiable
    <3> QED BY <1>1, <3>1, FlaggedTells
  <2> QED BY <2>1, <2>2
<1>4. holder' = holder
  BY DEF TcpRead
<1> QED BY <1>1, <1>3, <1>4, ReadyKept

\* A connection that was accepted is told so first.
LEMMA AcceptedTells ==
  ASSUME StructureInv, StoryOK, NEW e \in Blank, NEW r \in ConnRec, Call(e, r, "ACCEPT"),
         r.st = "live", ~Unsettled(r), ~r.err, \A d \in Conn \ {e} : Onward(d),
         sock'[e].st # "up" => sock'[e].rx = <<>>
  PROVE  /\ StoryOK' /\ \A d \in Conn \ {e} : conn'[d] = conn[d]
         /\ \E q \in ConnRec : conn'[e] = q /\ Shape(r, q)
<1>1. /\ e \in Conn /\ conn[e].st = "blank" /\ TypeOK /\ "ACCEPT" \in Events
      /\ conn \in [Conn -> ConnRec] /\ seen \in [Conn -> Seq(Met)]
  BY Typed DEF Blank, Events
<1>2. PICK q \in ConnRec : AfterCall(e, r, "ACCEPT", q)
  BY <1>1, CallSteps
<1>3. /\ conn'[e] = q /\ seen'[e] = Noted(seen[e], "ACCEPT") /\ Shape(r, q)
      /\ \A d \in Conn \ {e} : conn'[d] = conn[d] /\ seen'[d] = seen[d]
  BY <1>1, <1>2 DEF AfterCall
<1>4. seen[e] = <<>>
  BY <1>1 DEF StoryOK, Told
<1>5. seen'[e] = <<"ACCEPT">>
  BY <1>3, <1>4, StoryBegins
<1>6. q.st = "live" /\ ~Unsettled(q) /\ ~q.err
  BY <1>3 DEF Shape, Unsettled
<1>7. Told(conn'[e], seen'[e])
  <2>1. "LISTENING" \notin q.flags
    BY <1>6 DEF Unsettled
  <2> QED BY <1>3, <1>5, <1>6, <2>1 DEF Told, Begun
<1>8. Reached(conn'[e], seen'[e], sock'[e])
  <2>1. <<"ACCEPT">> # <<"CONNECT_FAILED">>
    OBVIOUS
  <2> QED BY <1>3, <1>5, <1>6, <2>1 DEF Reached
<1>9. \A d \in Conn \ {e} : Unmoved(d)
  BY <1>3, ShapeItself DEF Unmoved
<1> QED BY <1>3, <1>7, <1>8, <1>9, StoryStep

LEMMA AcceptTells ==
  ASSUME StructureInv, StoryOK, ReadyOK, pc = "read", Accept(cur), cur' = cur, fds' = fds,
         Is(cur, "LISTENING")
  PROVE  StoryOK' /\ ReadyOK'
<1> DEFINE b == [sock[cur] EXCEPT !.backlog = sock[cur].backlog - 1]
           up == [NoSocket EXCEPT !.st = "up"]
<1>1. cur \in Live /\ cur \in Conn /\ conn[cur].st = "live" /\ sock \in [Conn -> SockRec] /\ pc' = "write"
      /\ sock[cur].backlog > 0 /\ sock[cur] \in SockRec
  BY Typed DEF StructureInv, CursorOK, Handling, Live, Accept
<1>l. ~Is(cur, "CONNECTING")
  BY <1>1 DEF StoryOK, Told, Is
<1>2. sock[cur] # NoSocket
  <2>1. NoSocket.backlog = 0 /\ ~(0 > 0)
    BY DEF NoSocket
  <2> QED BY <1>1, <2>1
<1>3. \/ sock' = [sock EXCEPT ![cur] = b] /\ UNCHANGED <<conn, History>>
      \/ \E c \in Blank : /\ sock' = [sock EXCEPT ![cur] = b, ![c] = up]
                          /\ Call(c, NewConn(c, {}, cur, None), "ACCEPT")
  BY <1>1 DEF Accept
<1>n. sock[cur].backlog - 1 \in Nat
  BY <1>1 DEF SockRec
<1>b. b = [sock[cur] EXCEPT !.backlog = sock[cur].backlog - 1]
  OBVIOUS
<1> HIDE DEF b
<1>4. b.st = sock[cur].st /\ b.rx = sock[cur].rx
  BY <1>1, <1>n, <1>b, Fewer
<1>5. up.st = "up"
  BY NewSocket DEF SockState
<1> HIDE DEF up
<1>6. CASE sock' = [sock EXCEPT ![cur] = b] /\ UNCHANGED <<conn, History>>
  <2>1. sock'[cur] = b /\ \A d \in Conn \ {cur} : sock'[d] = sock[d]
    BY <1>1, <1>6
  <2>2. \A d \in Conn : Onward(d)
    BY <1>2, <1>4, <2>1 DEF Onward, Mild
  <2>3. StoryOK'
    BY <1>6, <2>2, QuietTells DEF History
  <2>4. ReadyOK'
    BY <1>1, <1>6, <1>l DEF ReadyOK, Is
  <2> QED BY <2>3, <2>4
<1>7. ASSUME NEW c \in Blank, sock' = [sock EXCEPT ![cur] = b, ![c] = up],
             Call(c, NewConn(c, {}, cur, None), "ACCEPT")
      PROVE  StoryOK' /\ ReadyOK'
  <2> DEFINE r == NewConn(c, {}, cur, None)
  <2>1. c \in Conn /\ conn[c].st = "blank" /\ c # cur /\ None \notin Conn
    BY <1>1, Typed DEF Blank
  <2>2. r \in ConnRec /\ r.st = "live" /\ ~r.err /\ r.flags = {}
    BY <1>1, <2>1, FreedRec
  <2>3. Call(c, r, "ACCEPT")
    BY <1>7
  <2> HIDE DEF r
  <2>4. ~Unsettled(r)
    BY <2>2 DEF Unsettled
  <2>5. sock'[c] = up /\ sock'[cur] = b /\ \A d \in Conn \ {c, cur} : sock'[d] = sock[d]
    BY <1>1, <1>7, <2>1
  <2>6. \A d \in Conn \ {c} : Onward(d)
    BY <1>2, <1>4, <2>5 DEF Onward, Mild
  <2>7. StoryOK' /\ \A d \in Conn \ {c} : conn'[d] = conn[d]
    BY <1>5, <2>2, <2>3, <2>4, <2>5, <2>6, AcceptedTells
  <2>8. conn'[cur] = conn[cur]
    BY <1>1, <2>1, <2>7
  <2>9. ReadyOK'
    BY <1>1, <1>l, <2>8 DEF ReadyOK, Is
  <2> QED BY <2>7, <2>9
<1> QED BY <1>3, <1>6, <1>7

LEMMA UdpReadTells ==
  ASSUME StructureInv, StoryOK, ReadyOK, pc = "read", UdpRead(cur), FdRead(cur), cur' = cur, fds' = fds,
         Is(cur, "UDP")
  PROVE  StoryOK' /\ ReadyOK'
<1> DEFINE d == Head(sock[cur].rx)
           known == {e \in ToSet(list) : conn[e].sa = d.from /\ conn[e].listener = cur}
           y == Tail(sock[cur].rx)
           b == [sock[cur] EXCEPT !.rx = y]
<1>1. /\ cur \in Live /\ cur \in Conn /\ conn[cur].st = "live" /\ sock \in [Conn -> SockRec]
      /\ "UDP" \in conn[cur].flags /\ conn[cur].sock # None /\ ~Is(cur, "CONNECTING") /\ cur # None
      /\ conn \in [Conn -> ConnRec]
  BY Typed DEF StructureInv, CursorOK, Handling, Live, FdRead, HasSock, Is, ReadyOK
<1>2. sock[cur].rx \in Seq(Datagram) /\ sock[cur].rx # <<>> /\ sock[cur] # NoSocket
      /\ sock[cur] \in SockRec
  BY <1>1, FreedRec DEF StructureInv, WaitingOK, UdpRead
<1>3. d \in Datagram /\ y \in Seq(Datagram)
  BY <1>2, HeadTailProperties
<1>4. d.from \in Peer
  BY <1>3 DEF Datagram
<1>5. known \subseteq Live /\ \A e \in known : conn[e].listener = cur
  BY DEF StructureInv, ListOK
<1>6. sock' = [sock EXCEPT ![cur] = b]
  BY <1>1 DEF UdpRead
<1>7. \/ /\ \E e \in IF Is(cur, "LISTENING") THEN known ELSE {cur} :
                got' = [to |-> e, kind |-> d.kind, data |-> d.data]
         /\ pc' = "datagram" /\ UNCHANGED <<conn, History>>
      \/ /\ pc' = "datagram"
         /\ \E e \in Blank : /\ got' = [to |-> e, kind |-> d.kind, data |-> d.data]
                             /\ Call(e, NewConn(cur, {"UDP", "SEND_AND_CLOSE"}, cur, d.from), "ACCEPT")
      \/ pc' = "crashed" /\ UNCHANGED <<conn, History>>
  BY DEF UdpRead
<1>8. sock[cur].st = "up"
  BY <1>1, <1>2 DEF StoryOK, Reached
<1>b. b = [sock[cur] EXCEPT !.rx = y]
  OBVIOUS
<1> HIDE DEF b, y, d, known
<1>9. b \in SockRec /\ b.st = "up"
  BY <1>2, <1>3, <1>8, <1>b, Draining
<1>10. sock'[cur] = b /\ \A s \in Conn \ {cur} : sock'[s] = sock[s]
  BY <1>1, <1>6
<1>11. \A s \in Conn : Onward(s)
  BY <1>2, <1>8, <1>9, <1>10 DEF Onward, Mild
<1>12. UNCHANGED <<conn, History>> => StoryOK'
  BY <1>11, QuietTells DEF History
<1>13. CASE /\ \E e \in IF Is(cur, "LISTENING") THEN known ELSE {cur} : got' = [to |-> e, kind |-> d.kind, data |-> d.data]
            /\ pc' = "datagram" /\ UNCHANGED <<conn, History>>
  <2>1. PICK e \in IF Is(cur, "LISTENING") THEN known ELSE {cur} : got' = [to |-> e, kind |-> d.kind, data |-> d.data]
    BY <1>13
  <2>2. ~Unsettled(conn[e]) /\ "UDP" \in conn[e].flags /\ conn[e].sock # None
    <3>1. CASE Is(cur, "LISTENING")
      <4>1. e \in Conn /\ conn[e].st = "live" /\ conn[e].listener = cur
        BY <1>5, <2>1, <3>1 DEF Live
      <4>2. Told(conn[e], seen[e])
        BY <4>1 DEF StoryOK
      <4>3. "UDP" \in conn[e].flags /\ conn[e].sock = cur
        BY <1>1, <4>1 DEF StructureInv, SocketOK
      <4> QED BY <1>1, <4>1, <4>2, <4>3 DEF Told
    <3>2. CASE ~Is(cur, "LISTENING")
      BY <1>1, <2>1, <3>2 DEF Unsettled, Is
    <3> QED BY <3>1, <3>2
  <2>3. got'.to = e
    BY <2>1
  <2>4. conn' = conn /\ FdRead(cur)
    BY <1>13
  <2>5. ReadyOK'
    BY <1>1, <1>13, <2>2, <2>3, <2>4 DEF ReadyOK, Is, Unsettled
  <2> QED BY <1>12, <1>13, <2>5
<1>14. ASSUME NEW e \in Blank, pc' = "datagram", got' = [to |-> e, kind |-> d.kind, data |-> d.data],
              Call(e, NewConn(cur, {"UDP", "SEND_AND_CLOSE"}, cur, d.from), "ACCEPT")
       PROVE  StoryOK' /\ ReadyOK'
  <2> DEFINE r == NewConn(cur, {"UDP", "SEND_AND_CLOSE"}, cur, d.from)
  <2>1. e \in Conn /\ conn[e].st = "blank" /\ e # cur
    BY <1>1 DEF Blank
  <2>2. {"UDP", "SEND_AND_CLOSE"} \in SUBSET Flags
    BY DEF Flags
  <2>3. r \in ConnRec /\ r.st = "live" /\ ~r.err /\ r.flags = {"UDP", "SEND_AND_CLOSE"} /\ r.sock = cur
    BY <1>1, <1>4, <2>2, FreedRec
  <2>4. Call(e, r, "ACCEPT")
    BY <1>14
  <2> HIDE DEF r
  <2>5. ~Unsettled(r)
    BY <2>3 DEF Unsettled
  <2>6. sock[e] = NoSocket /\ sock'[e] = NoSocket
    BY <1>10, <2>1 DEF StructureInv, SocketOK
  <2>7. /\ StoryOK' /\ \A k \in Conn \ {e} : conn'[k] = conn[k]
        /\ \E q \in ConnRec : conn'[e] = q /\ Shape(r, q)
    BY <1>11, <2>3, <2>4, <2>5, <2>6, FreedRec, AcceptedTells
  <2>8. PICK q \in ConnRec : conn'[e] = q /\ Shape(r, q)
    BY <2>7
  <2>9. ~Unsettled(q) /\ "UDP" \in q.flags /\ q.sock # None
    BY <1>1, <2>3, <2>5, <2>8 DEF Shape, Unsettled
  <2>10. conn'[cur] = conn[cur] /\ got'.to = e
    BY <1>1, <1>14, <2>1, <2>7
  <2>11. ReadyOK'
    BY <1>1, <1>14, <2>8, <2>9, <2>10 DEF ReadyOK, Is, Unsettled
  <2> QED BY <2>7, <2>11
<1>15. CASE pc' = "crashed" /\ UNCHANGED <<conn, History>>
  BY <1>12, <1>15, ReadyElsewhere
<1> QED BY <1>7, <1>13, <1>14, <1>15

LEMMA HandleReadTells == ASSUME StructureInv, StoryOK, ReadyOK, HandleRead PROVE StoryOK' /\ ReadyOK'
<1>1. pc = "read" /\ cur' = cur /\ fds' = fds
  BY DEF HandleRead
<1>2. CASE ~FdRead(cur)
  <2>1. pc' = "write" /\ holder' = holder /\ conn' = conn /\ sock' = sock /\ seen' = seen
    BY <1>2 DEF HandleRead, History
  <2> QED BY <1>1, <2>1, QuietTells, SameOnward, ReadyKept, ShapeItself
<1>3. CASE FdRead(cur) /\ Is(cur, "UDP")
  BY <1>1, <1>3, UdpReadTells DEF HandleRead
<1>4. CASE FdRead(cur) /\ ~Is(cur, "UDP") /\ Is(cur, "LISTENING")
  BY <1>1, <1>4, AcceptTells DEF HandleRead
<1>5. CASE FdRead(cur) /\ ~Is(cur, "UDP") /\ ~Is(cur, "LISTENING")
  BY <1>1, <1>5, TcpReadTells DEF HandleRead
<1> QED BY <1>2, <1>3, <1>4, <1>5

LEMMA HandleDatagramTells ==
  ASSUME StructureInv, StoryOK, ReadyOK, HandleDatagram PROVE StoryOK' /\ ReadyOK'
<1>1. /\ pc = "datagram" /\ cur' = cur /\ sock' = sock /\ fds' = fds /\ holder' = holder
      /\ \/ pc' = "crashed" /\ UNCHANGED <<conn, History>>
         \/ pc' = "write" /\ Received(got.to, got.data)
  BY DEF HandleDatagram
<1>2. got.to \in Live /\ got.to \in Conn /\ conn[got.to].st = "live" /\ got.data \in Seq(Nat)
  BY <1>1 DEF StructureInv, CursorOK, Incoming, Live
<1>3. ~Unsettled(conn[got.to]) /\ "UDP" \in conn[got.to].flags /\ conn[got.to].sock # None
  BY <1>1 DEF ReadyOK
<1>4. seen[got.to] # <<"CONNECT_FAILED">>
  BY <1>2, <1>3 DEF StoryOK, Reached
<1>5. CASE pc' = "write" /\ Received(got.to, got.data)
  <2>1. StoryOK' /\ \A d \in Conn : Shape(conn[d], conn'[d])
    BY <1>1, <1>2, <1>3, <1>4, <1>5, SameOnward, ReceivedTells
  <2> QED BY <1>1, <1>5, <2>1, ReadyKept
<1>6. CASE pc' = "crashed" /\ UNCHANGED <<conn, History>>
  BY <1>1, <1>6, QuietTells, SameOnward, ReadyElsewhere DEF History
<1> QED BY <1>1, <1>5, <1>6

LEMMA WroteTells ==
  ASSUME StructureInv, StoryOK, NEW c \in Live, NEW n \in 1 .. Len(conn[c].send),
         FdWrite(c), Wrote(c, SockOf(c), n),
         IsDatagram(SockOf(c)) \/ n <= sock[SockOf(c)].room,
         ~Unsettled(conn[c]), seen[c] # <<"CONNECT_FAILED">>
  PROVE  StoryOK'
<1> DEFINE y == DropBytes(conn[c].send, n)
           r == [conn[c] EXCEPT !.send = y]
<1>1. c \in Conn /\ conn[c] \in ConnRec /\ conn[c].send \in Seq(Nat)
  BY Typed DEF Live, ConnRec
<1>2. n \in Nat
  BY <1>1, LenProperties
<1>3. y \in Seq(Nat)
  BY <1>1, <1>2, Bytes
<1>4. Call(c, r, "SEND")
  BY DEF Wrote
<1>r. r = [conn[c] EXCEPT !.send = y]
  OBVIOUS
<1> HIDE DEF y, r
<1>5. r \in ConnRec /\ Alike(conn[c], r) /\ r.flags = conn[c].flags /\ r.err = conn[c].err
  BY <1>1, <1>3, <1>r, Sending
<1>6. Shape(conn[c], r)
  BY <1>5 DEF Alike, Shape, Unsettled
<1>7. \A d \in Conn : Onward(d)
  BY WroteKeeps DEF SocketsGoOn, Onward
<1> QED BY <1>4, <1>5, <1>6, <1>7, UseTells DEF Events

LEMMA HandleWriteTells ==
  ASSUME StructureInv, StoryOK, ReadyOK, HandleWrite PROVE StoryOK' /\ ReadyOK'
<1> DEFINE s == SockOf(cur)
           len == Len(conn[cur].send)
<1>1. pc = "write" /\ pc' \in {"conn", "poll"} /\ cur \in Live /\ cur \in Conn /\ conn[cur].st = "live"
      /\ conn[cur].send \in Seq(Nat) /\ sock \in [Conn -> SockRec]
  BY Typed DEF HandleWrite, Advance, StructureInv, CursorOK, Handling, Live, ConnRec
<1>2. \/ UNCHANGED <<conn, sock, History>>
      \/ FdWrite(cur) /\ conn[cur].send # <<>> /\ WriteToSocket(cur)
  BY DEF HandleWrite
<1>r. ReadyOK'
  BY <1>1, ReadyElsewhere
<1>3. CASE UNCHANGED <<conn, sock, History>>
  BY <1>3, <1>r, QuietTells, SameOnward DEF History
<1>4. CASE FdWrite(cur) /\ conn[cur].send # <<>> /\ WriteToSocket(cur)
  <2>1. HasSock(cur) /\ s \in fds.w /\ ~Unsettled(conn[cur])
        /\ Reached(conn[cur], seen[cur], sock[cur])
    BY <1>1, <1>4 DEF FdWrite, ReadyOK, StoryOK, Told, Unsettled, Is
  <2>2. s \in Conn /\ sock[s].room \in Nat /\ len \in Nat /\ len # 0
    BY <1>1, <1>4, <2>1, Typed, LenProperties, EmptySeq DEF FdsRec, SockRec
  <2>3. IsDatagram(s) \/ sock[s].st = "up" => seen[cur] # <<"CONNECT_FAILED">>
    <3>1. CASE Is(cur, "UDP")
      BY <1>1, <2>1, <3>1 DEF Reached, Is, HasSock
    <3>2. CASE ~Is(cur, "UDP")
      <4>1. s = cur
        BY <1>1, <2>1, <3>2, OwnSocket DEF IsFake
      <4> HIDE DEF s
      <4> QED BY <1>1, <2>1, <3>2, <4>1 DEF Reached, IsDatagram
    <3> QED BY <3>1, <3>2
  <2>4. CASE IsDatagram(s) /\ Wrote(cur, s, len)
    <3>1. len \in 1 .. len
      BY <2>2
    <3> QED BY <1>1, <1>4, <1>r, <2>1, <2>3, <2>4, <3>1, WroteTells
  <2>5. ASSUME sock[s].st = "up", NEW n \in 1 .. (IF len < sock[s].room THEN len ELSE sock[s].room),
               Wrote(cur, s, n)
        PROVE  StoryOK' /\ ReadyOK'
    <3>1. n \in 1 .. len /\ n <= sock[s].room
      BY <2>2
    <3> QED BY <1>1, <1>4, <1>r, <2>1, <2>3, <2>5, <3>1, WroteTells
  <2>6. CASE SendtoFails(s)
    <3>1. UNCHANGED <<conn, History>> /\ \A d \in Conn : Onward(d)
      BY <2>2, <2>6, SendtoFailsKeeps DEF Onward, SocketsGoOn
    <3> QED BY <1>r, <3>1, QuietTells DEF History
  <2>7. CASE Flagged(cur, "CLOSE_IMMEDIATELY") /\ sock' = sock
    BY <1>1, <1>r, <2>7, FlaggedTells DEF Modifiable
  <2> QED BY <1>3, <1>4, <2>4, <2>5, <2>6, <2>7 DEF WriteToSocket
<1> QED BY <1>2, <1>3, <1>4

LEMMA PollAndTimerTell ==
  ASSUME StructureInv, StoryOK, HandlePoll \/ HandleTimer PROVE StoryOK' /\ ReadyOK'
<1>1. /\ pc \in Handling /\ sock' = sock /\ pc' \in {"conn", "timer"}
      /\ \E ev \in {"POLL", "TIMER"} : Call(cur, conn[cur], ev)
  BY DEF HandlePoll, HandleTimer, Handling, Advance
<1>2. cur \in Live /\ conn[cur] \in ConnRec
  BY <1>1, Typed DEF StructureInv, CursorOK, Live
<1>3. \A ev \in {"POLL", "TIMER"} : ev \in Events
  BY DEF Events
<1> QED BY <1>1, <1>2, <1>3, SameOnward, ShapeItself, UseTells, ReadyElsewhere

LEMMA StoryHoldsFirst == ASSUME Init PROVE StoryOK /\ ReadyOK
<1> DEFINE b == [NewConn(None, {}, None, None) EXCEPT !.st = "blank"]
<1>1. /\ conn = [c \in Conn |-> b] /\ pc = "app" /\ sock = [c \in Conn |-> NoSocket]
      /\ seen = [c \in Conn |-> <<>>]
  BY DEF Init
<1>2. b.st = "blank"
  BY FreedRec DEF ConnRec
<1> HIDE DEF b
<1>3. NoSocket.st # "up" /\ NoSocket.rx = <<>>
  BY FreedRec
<1>4. \A c \in Conn : Told(conn[c], seen[c]) /\ Reached(conn[c], seen[c], sock[c])
  BY <1>1, <1>2, <1>3 DEF Told, Reached
<1> QED BY <1>1, <1>4 DEF StoryOK, ReadyOK

\* The steps that hand the thread to no connection that could read or write
LEMMA TurnsTell ==
  ASSUME StructureInv, StoryOK, AppCalls \/ AppFrees \/ Select \/ HandleCtlSock \/ Sweep \/ Free
  PROVE  StoryOK' /\ ReadyOK'
<1>1. pc' \notin {"read", "datagram", "write"}
  <2>1. CASE AppCalls
    BY <2>1 DEF AppCalls, Bind, ConnectTcp, ConnectUdp, Opened
  <2>2. CASE AppFrees \/ Free
    BY <2>2 DEF AppFrees, Free, CloseConn
  <2>3. CASE Select
    BY <2>3 DEF Select
  <2>4. CASE HandleCtlSock
    BY <2>4 DEF HandleCtlSock
  <2>5. CASE Sweep
    BY <2>5 DEF Sweep, CloseConn
  <2> QED BY <2>1, <2>2, <2>3, <2>4, <2>5
<1>2. ReadyOK'
  BY <1>1, ReadyElsewhere
<1>3. CASE AppFrees \/ Select
  <2>1. conn' = conn /\ seen' = seen /\ sock' = sock
    BY <1>3 DEF AppFrees, Select, History
  <2> QED BY <1>2, <2>1, QuietTells, SameOnward
<1> QED BY <1>2, <1>3, AppCallsTells, HandleCtlSockTells, SweepTells, FreeTells

LEMMA WorldKeepsReady == ASSUME StructureInv, ReadyOK, World PROVE ReadyOK'
<1>1. holder' = holder /\ conn' = conn /\ pc' = pc /\ cur' = cur /\ fds' = fds /\ got' = got
  BY DEF World, IoState
<1> QED BY <1>1 DEF ReadyOK, Is, FdRead, FdWrite, SockOf, HasSock, IsFake

LEMMA ProtocolKeeps == ASSUME ProtocolInv, [Next]_vars PROVE ProtocolInv'
<1>0. StructureInv /\ StoryOK /\ ReadyOK
  BY DEF ProtocolInv
<1>1. StructureInv'
  BY <1>0, StructureKeeps
<1> SUFFICES StoryOK' /\ ReadyOK'
  BY <1>1 DEF ProtocolInv
<1>2. CASE AppCalls \/ AppFrees \/ Select \/ HandleCtlSock \/ Sweep \/ Free
  BY <1>0, <1>2, TurnsTell
<1>3. CASE HandleConnecting
  BY <1>0, <1>3, HandleConnectingTells
<1>4. CASE HandleRead
  BY <1>0, <1>4, HandleReadTells
<1>5. CASE HandleDatagram
  BY <1>0, <1>5, HandleDatagramTells
<1>6. CASE HandleWrite
  BY <1>0, <1>6, HandleWriteTells
<1>7. CASE HandlePoll \/ HandleTimer
  BY <1>0, <1>7, PollAndTimerTell
<1>8. CASE World
  BY <1>0, <1>8, WorldTells, WorldKeepsReady
<1>9. CASE UNCHANGED vars
  <2>1. conn' = conn /\ seen' = seen /\ sock' = sock /\ pc' = pc /\ cur' = cur /\ fds' = fds
        /\ got' = got /\ holder' = holder
    BY <1>9 DEF vars
  <2>2. ReadyOK'
    BY <1>0, <2>1 DEF ReadyOK, Is, FdRead, FdWrite, SockOf, HasSock, IsFake
  <2> QED BY <1>0, <2>1, <2>2, QuietTells, SameOnward
<1> QED BY <1>2, <1>3, <1>4, <1>5, <1>6, <1>7, <1>8, <1>9 DEF Next, IoThread

LEMMA StoryIsProtocol == ASSUME StructureInv, StoryOK PROVE EventProtocol
<1> DEFINE All == Ends(<<>>) \cup Ends(<<"CONNECT_FAILED">>)
                   \cup UNION {Ends(<<o>>) \cup Ends(<<o, "IO">>) : o \in {"ACCEPT", "CONNECT"}}
<1>1. ASSUME NEW h \in Story PROVE h \in All /\ h \o <<"CLOSE">> \in All
  <2>1. Ends(h) \subseteq All
    BY DEF Story, Begun, InUse
  <2> QED BY <2>1 DEF Ends
<1>2. ASSUME NEW h \in Story
      PROVE  /\ Append(h, "CLOSE") = h \o <<"CLOSE">> /\ Append(h, "CLOSE") # <<>>
             /\ Last(Append(h, "CLOSE")) = "CLOSE"
  <2>1. h \in Seq(Met) /\ "CLOSE" \in Met
    BY Stories DEF Met
  <2>2. Append(h, "CLOSE") = h \o <<"CLOSE">>
    BY <2>1, AppendIsConcat
  <2>3. Len(h) \in Nat /\ Len(Append(h, "CLOSE")) = Len(h) + 1
        /\ Append(h, "CLOSE")[Len(h) + 1] = "CLOSE" /\ Append(h, "CLOSE") \in Seq(Met)
    BY <2>1, LenProperties, AppendProperties
  <2>4. Append(h, "CLOSE") # <<>>
    BY <2>3, EmptySeq
  <2> QED BY <2>2, <2>3, <2>4 DEF Last
<1> SUFFICES ASSUME NEW c \in Conn
             PROVE  /\ seen[c] \in All
                    /\ conn[c].st = "freed" <=> seen[c] # <<>> /\ Last(seen[c]) = "CLOSE"
  BY DEF EventProtocol
<1> HIDE DEF All
<1>3. Told(conn[c], seen[c]) /\ conn[c].st \in {"blank", "live", "freed"}
  BY Typed DEF StoryOK, ConnRec
<1>4. CASE conn[c].st = "freed"
  BY <1>1, <1>2, <1>3, <1>4 DEF Told
<1>5. CASE conn[c].st # "freed"
  <2>1. seen[c] \in Story
    BY <1>3, <1>5 DEF Told, Story
  <2> QED BY <1>1, <1>5, <2>1, StoriesOpen
<1> QED BY <1>4, <1>5

\* A handler hears of its connection in order, whatever the handlers do, the peers send and
\* the manager frees: begun once, then used, then closed, once and last.
THEOREM LifeKeepsToProtocol == Spec => []EventProtocol
<1>1. Init => ProtocolInv
  BY StructureHoldsFirst, StoryHoldsFirst DEF ProtocolInv
<1>2. ProtocolInv /\ [Next]_vars => ProtocolInv'
  BY ProtocolKeeps
<1>3. ProtocolInv => EventProtocol
  BY StoryIsProtocol DEF ProtocolInv
<1> QED BY <1>1, <1>2, <1>3, PTL DEF Spec
-----------------------------------------------------------------------------
(* What is sent and what arrives *)

Reason == {"user", "network", "mgr_free"}
LogOK == took \in [Conn -> Seq(Nat)] /\ cause \in [Conn -> SUBSET Reason]

\* What went out and what waits to are what the handler sent, as long as the connection
\* has a socket of its own. A connection is only cut off for a reason, so what has none
\* has nothing left when it is freed.
Paid(c, r, k, n, z) ==
  /\ r.st = "blank" => n = 0
  /\ r.st = "live" =>
       /\ "LISTENING" \in r.flags => n = 0
       /\ "CLOSE_IMMEDIATELY" \in r.flags => z # {}
       /\ r.sock = c => k.tx \o r.send = UpTo(n)
  /\ r.st = "freed" /\ z = {} /\ k.st = "closed" => k.tx = UpTo(n)

OutOK == \A c \in Conn : Paid(c, conn[c], sock[c], put[c], cause[c])

\* next is behind cur in the list, whoever was put in front meanwhile.
Behind(l, c, n) == \E j \in DOMAIN l : l[j] = c /\ n = IF j < Len(l) THEN l[j + 1] ELSE None

WalkOK == pc \in Handling => Behind(list, cur, next)

Ahead(l, c, d) == \E i, j \in DOMAIN l : i < j /\ l[i] = c /\ l[j] = d

\* The thread has done with c until the sweep.
Past(c) == \/ pc \in {"sweep", "crashed"}
           \/ pc = "conn" /\ cur = None
           \/ pc \in Handling \cup {"conn"} /\ cur # None /\ Ahead(list, c, cur)
           \/ pc = "write" /\ cur = c

Whole(c) == took[c] \o conn[c].recv \o sock[c].rx = UpTo(sock[c].in)

\* Bytes are thrown away on a connection only that is bound to be closed by the next sweep.
Spoiled(c) == "CLOSE_IMMEDIATELY" \in conn[c].flags /\ Past(c)

Kept(c) ==
  /\ conn[c].st = "blank" => took[c] = <<>>
  /\ conn[c].st = "live" /\ "UDP" \notin conn[c].flags /\ sock[c].st \in {"up", "connecting"}
       => Whole(c) \/ Spoiled(c)

InOK == \A c \in Conn : Kept(c)

(* Numbered bytes *)

LEMMA Numbered ==
  ASSUME NEW n \in Nat PROVE UpTo(n) \in Seq(Nat) /\ Len(UpTo(n)) = n /\ \A i \in 1 .. n : UpTo(n)[i] = i
<1>1. [i \in 1 .. n |-> 0 + i] \in Seq(Nat)
  BY Counting
<1>2. UpTo(n) = [i \in 1 .. n |-> 0 + i]
  BY DEF UpTo
<1>3. UpTo(n) \in Seq(Nat) /\ DOMAIN UpTo(n) = 1 .. n /\ \A i \in 1 .. n : UpTo(n)[i] = i
  BY <1>1, <1>2 DEF UpTo
<1>4. Len(UpTo(n)) \in Nat /\ DOMAIN UpTo(n) = 1 .. Len(UpTo(n))
  BY <1>3, LenProperties
<1> QED BY <1>3, <1>4

LEMMA NumbersGoOn ==
  ASSUME NEW n \in Nat, NEW m \in Nat
  PROVE  UpTo(n) \o [i \in 1 .. m |-> n + i] = UpTo(n + m)
<1> DEFINE u == UpTo(n)
           w == [i \in 1 .. m |-> n + i]
           a == u \o w
<1>1. w \in Seq(Nat)
  BY Counting
<1>2. DOMAIN w = 1 .. m /\ \A i \in 1 .. m : w[i] = n + i
  OBVIOUS
<1> HIDE DEF w
<1>3. Len(w) = m
  BY <1>1, <1>2, LenProperties
<1>4. u \in Seq(Nat) /\ Len(u) = n /\ \A i \in 1 .. n : u[i] = i
  BY Numbered
<1>5. n + m \in Nat /\ UpTo(n + m) \in Seq(Nat) /\ Len(UpTo(n + m)) = n + m
      /\ \A i \in 1 .. n + m : UpTo(n + m)[i] = i
  BY Numbered
<1> HIDE DEF u
<1>6. /\ a \in Seq(Nat) /\ Len(a) = Len(u) + Len(w)
      /\ \A i \in 1 .. Len(u) + Len(w) : a[i] = IF i <= Len(u) THEN u[i] ELSE w[i - Len(u)]
  BY <1>1, <1>4, ConcatProperties
<1> HIDE DEF a
<1>7. ASSUME NEW i \in 1 .. n + m PROVE a[i] = UpTo(n + m)[i]
  <2>1. CASE i <= n
    <3>1. i \in 1 .. n
      BY <2>1
    <3> QED BY <1>3, <1>4, <1>5, <1>6, <2>1, <3>1
  <2>2. CASE ~(i <= n)
    <3>1. i - n \in 1 .. m /\ n + (i - n) = i
      BY <2>2
    <3> QED BY <1>2, <1>3, <1>4, <1>5, <1>6, <2>2, <3>1
  <2> QED BY <2>1, <2>2
<1>8. a = UpTo(n + m)
  BY <1>3, <1>4, <1>5, <1>6, <1>7, SeqEqual
<1> QED BY <1>8 DEF a, w, u

LEMMA NextNumber ==
  ASSUME NEW n \in Nat PROVE UpTo(n) \o <<n + 1>> = UpTo(n + 1) /\ Append(UpTo(n), n + 1) = UpTo(n + 1)
<1> DEFINE w == [i \in 1 .. 1 |-> n + i]
<1>1. w \in Seq(Nat) /\ <<n + 1>> \in Seq(Nat)
  BY Counting
<1>2. DOMAIN w = 1 .. 1 /\ w[1] = n + 1
  OBVIOUS
<1>3. UpTo(n) \o w = UpTo(n + 1)
  BY NumbersGoOn
<1> HIDE DEF w
<1>4. Len(w) = 1
  BY <1>1, <1>2, LenProperties
<1>5. Len(<<n + 1>>) = 1 /\ <<n + 1>>[1] = n + 1
  OBVIOUS
<1>6. w = <<n + 1>>
  <2>1. \A i \in 1 .. 1 : i = 1
    OBVIOUS
  <2>2. \A i \in 1 .. Len(w) : w[i] = <<n + 1>>[i]
    BY <1>2, <1>4, <1>5, <2>1
  <2> QED BY <1>1, <1>4, <1>5, <2>2, SeqEqual
<1>7. Append(UpTo(n), n + 1) = UpTo(n) \o <<n + 1>>
  BY Numbered, AppendIsConcat
<1> QED BY <1>3, <1>6, <1>7

LEMMA NoNumbers == UpTo(0) = <<>>
<1>1. UpTo(0) \in Seq(Nat) /\ Len(UpTo(0)) = 0
  BY Numbered
<1> QED BY <1>1, EmptySeq

\* The first bytes of a buffer and what is left of it
LEMMA Cut ==
  ASSUME NEW s \in Seq(Nat), NEW n \in 1 .. Len(s)
  PROVE  /\ SubSeq(s, 1, n) \in Seq(Nat) /\ DropBytes(s, n) \in Seq(Nat)
         /\ SubSeq(s, 1, n) \o DropBytes(s, n) = s
<1>1. Len(s) \in Nat /\ n \in Nat /\ n <= Len(s) /\ \A i \in 1 .. n : s[i] \in Nat
  BY LenProperties, ElementOfSeq
<1>2. SubSeq(s, 1, n) \in Seq(Nat) /\ DropBytes(s, n) \in Seq(Nat)
  BY <1>1, SubSeqProperties, Bytes
<1>3. DropBytes(s, n) = SubSeq(s, n + 1, Len(s))
  BY <1>1 DEF DropBytes
<1>4. SubSeq(s, 1, n) \o SubSeq(s, n + 1, Len(s)) = SubSeq(s, 1, Len(s))
  <2>1. 1 \in 1 .. Len(s) + 1 /\ n \in 1 - 1 .. Len(s) /\ Len(s) \in n .. Len(s)
    BY <1>1
  <2> QED BY <2>1, ConcatAdjacentSubSeq
<1> QED BY <1>2, <1>3, <1>4, SubSeqFull

LEMMA Emptied == ASSUME NEW s \in Seq(Nat) PROVE DropBytes(s, Len(s)) = <<>>
<1>1. Len(s) \in Nat
  BY LenProperties
<1>2. Len(s) + 1 \in Int /\ Len(s) \in Int /\ Len(s) < Len(s) + 1
  BY <1>1
<1>3. DropBytes(s, Len(s)) = SubSeq(s, Len(s) + 1, Len(s))
  BY <1>1 DEF DropBytes
<1> QED BY <1>2, <1>3, SubSeqEmpty

(* Calling the handler and the streams *)

\* What a call of its handler does to the streams of c, q being what it leaves of r: bytes
\* are appended as they are counted, what is received is kept or consumed, and whoever
\* asks for a close is known.
Flows(c, r, q) ==
  /\ \E w \in Seq(Nat) : q.send = r.send \o w /\ UpTo(put[c]) \o w = UpTo(put'[c])
  /\ took'[c] \o q.recv = took[c] \o r.recv
  /\ "LISTENING" \in r.flags => put'[c] = put[c]
  /\ cause[c] \cup NewCause(c, r) \subseteq cause'[c]
  /\ "CLOSE_IMMEDIATELY" \in q.flags => "CLOSE_IMMEDIATELY" \in r.flags \/ cause'[c] # {}

Untouched(d) == conn'[d] = conn[d] /\ took'[d] = took[d] /\ put'[d] = put[d] /\ cause'[d] = cause[d]

LEMMA Consumed ==
  ASSUME NEW a \in Seq(Nat), NEW b \in Seq(Nat) PROVE (a \o b) \o DropBytes(b, Len(b)) = a \o b
<1>1. DropBytes(b, Len(b)) = <<>> /\ a \o b \in Seq(Nat)
  BY Emptied, ConcatProperties
<1> QED BY <1>1, ConcatEmptySeq

LEMMA CallFlows ==
  ASSUME TypeOK, LogOK, NEW c \in Conn, NEW r \in ConnRec, NEW ev \in Events, Call(c, r, ev)
  PROVE  /\ LogOK' /\ Flows(c, r, conn'[c]) /\ \A d \in Conn \ {c} : Untouched(d)
<1>0. /\ put \in [Conn -> Nat] /\ put[c] \in Nat /\ put[c] <= prog.out
      /\ prog \in Programs /\ conn \in [Conn -> ConnRec]
      /\ took \in [Conn -> Seq(Nat)] /\ cause \in [Conn -> SUBSET Reason]
  BY DEF TypeOK, LogOK
<1>1. prog.out \in Nat /\ prog.handler[ev] \subseteq Response
  BY <1>0, ManagerConstants
<1>2. PICK resp \in prog.handler[ev] : Called(c, r, ev, resp)
  BY DEF Call
<1>3. /\ resp.send \in Nat /\ resp.raise \subseteq Modifiable /\ resp.clear \subseteq Modifiable
      /\ resp.take \in BOOLEAN
  BY <1>1, <1>2 DEF Response
<1> DEFINE n == IF "LISTENING" \in r.flags THEN 0
                ELSE IF put[c] + resp.send <= prog.out THEN resp.send ELSE prog.out - put[c]
           w == [i \in 1 .. n |-> put[c] + i]
           x == IF resp.take THEN DropBytes(r.recv, Len(r.recv)) ELSE r.recv
           y == AppendTo(r.send, w)
           g == (r.flags \ Modifiable) \cup
                  (((r.flags \cap Modifiable) \cup resp.raise) \ resp.clear)
           t == IF resp.arm /\ now < MaxTime THEN now + 1 ELSE IF ev = "TIMER" THEN 0 ELSE r.timer
           q == [r EXCEPT !.recv = x, !.send = y, !.flags = g, !.timer = t]
           z == cause[c] \cup NewCause(c, r) \cup UserCause(resp)
           k == IF resp.take THEN took[c] \o r.recv ELSE took[c]
<1>4. n \in Nat /\ ("LISTENING" \in r.flags => n = 0)
  BY <1>0, <1>1, <1>3
<1>5. r.recv \in Seq(Nat) /\ r.send \in Seq(Nat) /\ r.flags \subseteq Flags
  BY DEF ConnRec
<1>6. conn' = [conn EXCEPT ![c] = q] /\ put' = [put EXCEPT ![c] = put[c] + n]
  BY <1>0, <1>2 DEF Called
<1>7. took' = [took EXCEPT ![c] = k] /\ cause' = [cause EXCEPT ![c] = z]
  BY <1>0, <1>2 DEF Called
<1>8. \A d \in Conn \ {c} : Untouched(d)
  BY <1>0, <1>6, <1>7 DEF Untouched
<1>9. w \in Seq(Nat) /\ UpTo(put[c]) \o w = UpTo(put[c] + n)
  <2> HIDE DEF n
  <2> QED BY <1>0, <1>4, Counting, NumbersGoOn
<1> HIDE DEF w
<1>10. y = r.send \o w
  BY <1>4, <1>5, <1>9, Bytes
<1>11. k \in Seq(Nat) /\ k \o x = took[c] \o r.recv
  BY <1>0, <1>5, Consumed, ConcatProperties
<1>12. NewCause(c, r) \cup UserCause(resp) \subseteq Reason
  BY DEF NewCause, UserCause, Reason
<1>13. "CLOSE_IMMEDIATELY" \in g => "CLOSE_IMMEDIATELY" \in r.flags \/ UserCause(resp) # {}
  BY DEF UserCause
<1> HIDE DEF x, y, g, t, n
<1>14. q.recv = x /\ q.send = y /\ q.flags = g
  BY DEF ConnRec
<1> HIDE DEF q
<1>15. conn'[c] = q /\ put'[c] = put[c] + n /\ took'[c] = k /\ cause'[c] = z
  BY <1>0, <1>6, <1>7
<1>16. LogOK'
  BY <1>0, <1>7, <1>11, <1>12 DEF LogOK, Reason
<1>17. \E v \in Seq(Nat) : q.send = r.send \o v /\ UpTo(put[c]) \o v = UpTo(put'[c])
  BY <1>9, <1>10, <1>14, <1>15
<1>18. "LISTENING" \in r.flags => put'[c] = put[c]
  BY <1>0, <1>4, <1>15
<1>19. took'[c] \o q.recv = took[c] \o r.recv
  BY <1>11, <1>14, <1>15
<1>20. "CLOSE_IMMEDIATELY" \in q.flags => "CLOSE_IMMEDIATELY" \in r.flags \/ cause'[c] # {}
  BY <1>13, <1>14, <1>15
<1> QED BY <1>8, <1>15, <1>16, <1>17, <1>18, <1>19, <1>20 DEF Flows

(* Connections and sockets with nothing in them *)

Fresh(r) == /\ r.st = "live" /\ r.recv = <<>> /\ r.send = <<>>
            /\ "CLOSE_IMMEDIATELY" \notin r.flags
Empty(s) == s.rx = <<>> /\ s.tx = <<>> /\ s.in = 0

LEMMA FreshConn ==
  ASSUME NEW s \in Conn \cup {None}, NEW g \in SUBSET Flags, NEW l \in Conn \cup {None},
         NEW a \in Peer \cup {None}, "CLOSE_IMMEDIATELY" \notin g
  PROVE  NewConn(s, g, l, a) \in ConnRec /\ Fresh(NewConn(s, g, l, a))
<1>1. NewConn(s, g, l, a) \in ConnRec /\ NewConn(s, g, l, a).st = "live" /\ NewConn(s, g, l, a).flags = g
  <2>1. <<>> \in Seq(Nat)
    OBVIOUS
  <2> QED BY <2>1 DEF NewConn, ConnRec
<1>2. NewConn(s, g, l, a).recv = <<>> /\ NewConn(s, g, l, a).send = <<>>
  BY DEF NewConn
<1> QED BY <1>1, <1>2 DEF Fresh

LEMMA FreshError ==
  ASSUME NEW r \in ConnRec, Fresh(r), NEW q, q = [r EXCEPT !.err = TRUE] PROVE q \in ConnRec /\ Fresh(q)
<1>1. q.recv = r.recv /\ q.send = r.send
  BY DEF ConnRec
<1> QED BY <1>1, WithError DEF Fresh

LEMMA EmptySocket ==
  ASSUME NEW st \in SockState, NEW s, s = [NoSocket EXCEPT !.st = st]
  PROVE  s \in SockRec /\ s.st = st /\ Empty(s) /\ Empty(NoSocket)
<1>1. NoSocket.rx = <<>> /\ NoSocket.tx = <<>> /\ NoSocket.in = 0
  BY DEF NoSocket
<1>2. s.rx = NoSocket.rx /\ s.tx = NoSocket.tx /\ s.in = NoSocket.in
  BY FreedRec DEF SockRec
<1> QED BY <1>1, <1>2, NewSocket DEF Empty

LEMMA AppCallsOpen ==
  ASSUME StructureInv, AppCalls
  PROVE  \E c \in Blank, r \in ConnRec, s \in SockRec :
            Opened(c, r, s) /\ Fresh(r) /\ r.listener = None /\ Empty(s)
<1> DEFINE Goal == \E c \in Blank, r \in ConnRec, s \in SockRec :
                      Opened(c, r, s) /\ Fresh(r) /\ r.listener = None /\ Empty(s)
<1>1. PICK c \in Blank : \/ Bind(c, FALSE) \/ Bind(c, TRUE) \/ ConnectTcp(c)
                         \/ \E p \in Peer : ConnectUdp(c, p)
  BY DEF AppCalls
<1>2. c \in Conn /\ None \notin Conn
  BY ManagerConstants DEF Blank
<1>n. NoSocket \in SockRec /\ Empty(NoSocket)
  <2>1. "up" \in SockState
    BY DEF SockState
  <2> QED BY <2>1, FreedRec, EmptySocket
<1>3. ASSUME NEW udp \in BOOLEAN, Bind(c, udp) PROVE Goal
  <2> DEFINE g == {"LISTENING"} \cup IF udp THEN {"UDP"} ELSE {}
             r == NewConn(c, g, None, None)
             s == [NoSocket EXCEPT !.st = IF udp THEN "up" ELSE "listening"]
  <2>1. g \in SUBSET Flags /\ "CLOSE_IMMEDIATELY" \notin g
    BY DEF Flags
  <2>2. (IF udp THEN "up" ELSE "listening") \in SockState
    BY DEF SockState
  <2>3. s \in SockRec /\ Empty(s)
    BY <2>2, EmptySocket
  <2>4. Opened(c, r, s)
    BY <1>3 DEF Bind
  <2> HIDE DEF g, s
  <2>5. r \in ConnRec /\ Fresh(r) /\ r.listener = None
    BY <1>2, <2>1, FreshConn, FreedRec
  <2> HIDE DEF r
  <2> QED BY <2>3, <2>4, <2>5
<1>4. CASE ConnectTcp(c)
  <2> DEFINE g == {"CONNECTING"}
             r(s) == NewConn(s, g, None, None)
             q(s) == [r(s) EXCEPT !.err = TRUE]
             k(st) == [NoSocket EXCEPT !.st = st]
  <2>0. g \in SUBSET Flags /\ "CLOSE_IMMEDIATELY" \notin g
    BY DEF Flags
  <2> HIDE DEF g
  <2>1. \A s \in {None, c} : r(s) \in ConnRec /\ Fresh(r(s)) /\ r(s).listener = None
    BY <1>2, <2>0, FreshConn, FreedRec
  <2>2. \A s \in {None, c} : q(s) \in ConnRec /\ Fresh(q(s)) /\ q(s).listener = None
    <3> SUFFICES ASSUME NEW s \in {None, c}
                 PROVE  q(s) \in ConnRec /\ Fresh(q(s)) /\ q(s).listener = None
      OBVIOUS
    <3> HIDE DEF r
    <3> QED BY <2>1, FreshError, WithError
  <2>3. \A st \in {"unconnected", "connecting"} : k(st) \in SockRec /\ Empty(k(st))
    BY EmptySocket DEF SockState
  <2>4. \/ Opened(c, q(None), NoSocket) \/ Opened(c, q(c), k("unconnected"))
        \/ Opened(c, r(c), k("connecting"))
    BY <1>4 DEF ConnectTcp, g
  <2> HIDE DEF r, q, k
  <2>5. CASE Opened(c, q(None), NoSocket)
    BY <1>n, <2>2, <2>5
  <2>6. CASE Opened(c, q(c), k("unconnected"))
    BY <2>2, <2>3, <2>6
  <2>7. CASE Opened(c, r(c), k("connecting"))
    BY <2>1, <2>3, <2>7
  <2> QED BY <2>4, <2>5, <2>6, <2>7
<1>5. ASSUME NEW p \in Peer, ConnectUdp(c, p) PROVE Goal
  <2> DEFINE g == {"CONNECTING", "UDP"}
             r(s) == NewConn(s, g, None, p)
             q == [r(None) EXCEPT !.err = TRUE]
             k == [NoSocket EXCEPT !.st = "up"]
  <2>0. g \in SUBSET Flags /\ "CLOSE_IMMEDIATELY" \notin g
    BY DEF Flags
  <2> HIDE DEF g
  <2>1. \A s \in {None, c} : r(s) \in ConnRec /\ Fresh(r(s)) /\ r(s).listener = None
    BY <1>2, <2>0, FreshConn, FreedRec
  <2>2. q \in ConnRec /\ Fresh(q) /\ q.listener = None
    <3> HIDE DEF r
    <3> QED BY <2>1, FreshError, WithError
  <2>3. k \in SockRec /\ Empty(k)
    BY EmptySocket DEF SockState
  <2>4. Opened(c, q, NoSocket) \/ Opened(c, r(c), k)
    BY <1>5 DEF ConnectUdp, g
  <2> HIDE DEF r, q, k
  <2> QED BY <1>n, <2>1, <2>2, <2>3, <2>4
<1> QED BY <1>1, <1>3, <1>4, <1>5

(* The account of what is sent *)

\* Nothing about d that its account depends on
SameTx(d) == sock'[d].tx = sock[d].tx /\ (sock'[d].st = "closed" => sock[d].st = "closed")

LEMMA OutStep ==
  ASSUME OutOK,
         \A d \in Conn : \/ Untouched(d) /\ SameTx(d)
                         \/ Paid(d, conn'[d], sock'[d], put'[d], cause'[d])
  PROVE  OutOK'
<1> SUFFICES ASSUME NEW d \in Conn PROVE Paid(d, conn'[d], sock'[d], put'[d], cause'[d])
  BY DEF OutOK, Paid, UpTo
<1>1. Paid(d, conn[d], sock[d], put[d], cause[d])
  BY DEF OutOK
<1>2. CASE Untouched(d) /\ SameTx(d)
  <2>1. conn'[d] = conn[d] /\ put'[d] = put[d] /\ cause'[d] = cause[d] /\ sock'[d].tx = sock[d].tx
        /\ (sock'[d].st = "closed" => sock[d].st = "closed")
    BY <1>2 DEF Untouched, SameTx
  <2> QED BY <1>1, <2>1 DEF Paid
<1> QED BY <1>2

LEMMA Grouped ==
  ASSUME NEW S, NEW a \in Seq(S), NEW b \in Seq(S), NEW w \in Seq(S)
  PROVE  a \o (b \o w) = (a \o b) \o w
BY ConcatAssociative

LEMMA Longer ==
  ASSUME NEW a \in Seq(Nat), NEW b \in Seq(Nat), NEW w \in Seq(Nat)
  PROVE  a \o (b \o w) = (a \o b) \o w
BY Grouped

LEMMA CallPays ==
  ASSUME StructureInv, LogOK, NEW c \in Conn, NEW r \in ConnRec, r.st = "live", NEW ev \in Events,
         Call(c, r, ev), NEW k \in SockRec, Paid(c, r, k, put[c], cause[c] \cup NewCause(c, r))
  PROVE  /\ LogOK' /\ conn'[c] \in ConnRec /\ Shape(r, conn'[c]) /\ Flows(c, r, conn'[c])
         /\ Paid(c, conn'[c], k, put'[c], cause'[c])
         /\ \A d \in Conn \ {c} : Untouched(d)
<1>1. LogOK' /\ Flows(c, r, conn'[c]) /\ \A d \in Conn \ {c} : Untouched(d)
  BY Typed, CallFlows
<1>2. \E q \in ConnRec : AfterCall(c, r, ev, q)
  BY Typed, CallSteps
<1>3. conn'[c] \in ConnRec /\ Shape(r, conn'[c])
  BY <1>2, Typed DEF AfterCall
<1>4. k.tx \in Seq(Nat) /\ r.send \in Seq(Nat)
  BY DEF SockRec, ConnRec
<1>5. ASSUME conn'[c].sock = c PROVE k.tx \o conn'[c].send = UpTo(put'[c])
  <2>1. k.tx \o r.send = UpTo(put[c])
    BY <1>3, <1>5 DEF Shape, Paid
  <2>2. PICK w \in Seq(Nat) : conn'[c].send = r.send \o w /\ UpTo(put[c]) \o w = UpTo(put'[c])
    BY <1>1 DEF Flows
  <2>3. k.tx \o (r.send \o w) = (k.tx \o r.send) \o w
    BY <1>4, Longer
  <2> QED BY <2>1, <2>2, <2>3
<1>6. conn'[c].st = "live" /\ ("LISTENING" \in conn'[c].flags => put'[c] = 0)
  BY <1>1, <1>3 DEF Shape, Flows, Paid
<1>7. "CLOSE_IMMEDIATELY" \in conn'[c].flags => cause'[c] # {}
  BY <1>1 DEF Flows, Paid
<1>8. Paid(c, conn'[c], k, put'[c], cause'[c])
  BY <1>5, <1>6, <1>7 DEF Paid
<1> QED BY <1>1, <1>3, <1>8

LEMMA SteadyPays ==
  ASSUME OutOK, NEW c \in Live, NEW r \in ConnRec, Alike(conn[c], r), NEW k \in SockRec,
         conn[c].sock = c => k.tx \o r.send = sock[c].tx \o conn[c].send
  PROVE  Paid(c, r, k, put[c], cause[c] \cup NewCause(c, r))
<1>1. c \in Conn /\ conn[c].st = "live" /\ Paid(c, conn[c], sock[c], put[c], cause[c])
  BY DEF OutOK, Live
<1>2. r.st = "live" /\ r.sock = conn[c].sock /\ ("UDP" \in r.flags <=> "UDP" \in conn[c].flags)
      /\ ("LISTENING" \in r.flags <=> "LISTENING" \in conn[c].flags)
  BY <1>1 DEF Alike
<1>3. "CLOSE_IMMEDIATELY" \in r.flags => "CLOSE_IMMEDIATELY" \in conn[c].flags \/ NewCause(c, r) # {}
  BY DEF NewCause
<1> QED BY <1>1, <1>2, <1>3 DEF Paid

(* The steps and the account *)

AccountInv == LogOK /\ OutOK

LEMMA UsePays ==
  ASSUME StructureInv, AccountInv, NEW c \in Live, NEW r \in ConnRec, Alike(conn[c], r),
         NEW ev \in Events, Call(c, r, ev), sock'[c] \in SockRec,
         conn[c].sock = c => sock'[c].tx \o r.send = sock[c].tx \o conn[c].send,
         \A d \in Conn \ {c} : SameTx(d)
  PROVE  AccountInv'
<1>0. c \in Conn /\ conn[c].st = "live" /\ LogOK /\ OutOK /\ r.st = "live"
  BY DEF Live, AccountInv, Alike
<1>1. Paid(c, r, sock'[c], put[c], cause[c] \cup NewCause(c, r))
  BY <1>0, SteadyPays
<1>2. /\ LogOK' /\ Shape(r, conn'[c]) /\ Flows(c, r, conn'[c])
      /\ Paid(c, conn'[c], sock'[c], put'[c], cause'[c]) /\ \A d \in Conn \ {c} : Untouched(d)
  BY <1>0, <1>1, CallPays
<1>3. OutOK'
  BY <1>0, <1>2, OutStep
<1> QED BY <1>2, <1>3 DEF AccountInv

LEMMA QuietPays ==
  ASSUME StructureInv, AccountInv, UNCHANGED <<conn, took, put, cause>>, \A d \in Conn : SameTx(d)
  PROVE  AccountInv'
<1>1. LogOK /\ OutOK
  BY DEF AccountInv
<1>2. LogOK'
  BY <1>1 DEF LogOK, Reason
<1>3. OutOK'
  BY <1>1, OutStep DEF Untouched
<1> QED BY <1>2, <1>3 DEF AccountInv

LEMMA FlaggedPays ==
  ASSUME StructureInv, AccountInv, NEW c \in Live, NEW f \in Modifiable, Flagged(c, f), sock' = sock
  PROVE  AccountInv'
<1> DEFINE g == conn[c].flags \cup {f}
           q == [conn[c] EXCEPT !.flags = g]
<1>0. c \in Conn /\ conn[c] \in ConnRec /\ conn[c].st = "live" /\ LogOK /\ OutOK
      /\ conn \in [Conn -> ConnRec] /\ cause \in [Conn -> SUBSET Reason] /\ sock[c] \in SockRec
  BY Typed DEF Live, AccountInv, LogOK
<1>1. g \in SUBSET Flags /\ ("UDP" \in g <=> "UDP" \in conn[c].flags)
      /\ ("LISTENING" \in g <=> "LISTENING" \in conn[c].flags)
  BY <1>0 DEF ConnRec, Modifiable, Flags
<1>2. conn' = [conn EXCEPT ![c] = q] /\ took' = took /\ put' = put
      /\ cause' = [cause EXCEPT ![c] = cause[c] \cup NewCause(c, conn'[c])]
  BY <1>0 DEF Flagged
<1>q. q = [conn[c] EXCEPT !.flags = g]
  OBVIOUS
<1> HIDE DEF q, g
<1>3. q \in ConnRec /\ Alike(conn[c], q) /\ q.flags = g /\ q.send = conn[c].send
  BY <1>0, <1>1, <1>q, Flagging
<1>4. conn'[c] = q /\ cause'[c] = cause[c] \cup NewCause(c, q) /\ put'[c] = put[c]
      /\ \A d \in Conn \ {c} : Untouched(d)
  BY <1>0, <1>2 DEF Untouched
<1>5. Paid(c, q, sock'[c], put[c], cause[c] \cup NewCause(c, q))
  BY <1>0, <1>3, SteadyPays
<1>6. NewCause(c, q) \subseteq Reason
  BY DEF NewCause, Reason
<1>7. LogOK'
  BY <1>0, <1>2, <1>4, <1>6 DEF LogOK, Reason
<1>8. OutOK'
  BY <1>0, <1>4, <1>5, OutStep DEF SameTx
<1> QED BY <1>7, <1>8 DEF AccountInv

\* A connection that is new owes nothing.
LEMMA FreshPays ==
  ASSUME NEW c \in Conn, NEW r \in ConnRec, Fresh(r), NEW s, s.tx = <<>>, NEW z PROVE Paid(c, r, s, 0, z)
<1>1. <<>> \o <<>> = <<>> /\ UpTo(0) = <<>>
  BY NoNumbers, ConcatEmptySeq
<1> QED BY <1>1 DEF Paid, Fresh

LEMMA EntersPays ==
  ASSUME StructureInv, AccountInv, NEW e \in Blank, NEW r \in ConnRec, Fresh(r), Call(e, r, "ACCEPT"),
         sock'[e] \in SockRec, sock'[e].tx = <<>>, \A d \in Conn \ {e} : SameTx(d)
  PROVE  AccountInv'
<1>0. e \in Conn /\ conn[e].st = "blank" /\ r.st = "live" /\ LogOK /\ OutOK
  BY DEF Blank, AccountInv, Fresh
<1>1. put[e] = 0
  BY <1>0 DEF OutOK, Paid
<1>2. Paid(e, r, sock'[e], put[e], cause[e] \cup NewCause(e, r))
  BY <1>0, <1>1, FreshPays
<1>3. /\ LogOK' /\ Shape(r, conn'[e]) /\ Paid(e, conn'[e], sock'[e], put'[e], cause'[e])
      /\ \A d \in Conn \ {e} : Untouched(d)
  BY <1>0, <1>2, CallPays DEF Events
<1>4. OutOK'
  BY <1>0, <1>3, OutStep
<1> QED BY <1>3, <1>4 DEF AccountInv

LEMMA AppCallsPays == ASSUME StructureInv, AccountInv, AppCalls PROVE AccountInv'
<1>1. PICK c \in Blank, r \in ConnRec, s \in SockRec :
         Opened(c, r, s) /\ Fresh(r) /\ r.listener = None /\ Empty(s)
  BY AppCallsOpen
<1>2. c \in Conn /\ conn[c].st = "blank" /\ LogOK /\ OutOK
      /\ conn' = [conn EXCEPT ![c] = r] /\ sock' = [sock EXCEPT ![c] = s]
      /\ took' = took /\ put' = put /\ cause' = cause
  BY <1>1 DEF Blank, AccountInv, Opened, History
<1>3. conn'[c] = r /\ sock'[c] = s
      /\ \A d \in Conn \ {c} : Untouched(d) /\ SameTx(d) /\ conn'[d] = conn[d]
  BY <1>2, Typed DEF Untouched, SameTx
<1>4. put'[c] = 0 /\ s.tx = <<>>
  BY <1>1, <1>2 DEF OutOK, Paid, Empty
<1>5. Paid(c, conn'[c], sock'[c], put'[c], cause'[c])
  BY <1>1, <1>2, <1>3, <1>4, FreshPays
<1>6. OutOK'
  BY <1>2, <1>3, <1>5, OutStep
<1>9. LogOK'
  BY <1>2 DEF LogOK, Reason
<1> QED BY <1>6, <1>9 DEF AccountInv

LEMMA WorldPays == ASSUME StructureInv, AccountInv, World PROVE AccountInv'
<1>1. conn' = conn /\ took' = took /\ put' = put /\ cause' = cause
  BY DEF World, IoState, History
<1>2. sock' = sock \/ \E s \in Conn, q \in SockRec : SocketTurn(s, q)
  BY EstablishTurns, PeerConnectsTurns, PeerSendsTurns, PeerReadsTurns, PeerClosesTurns,
     PeerResetsTurns DEF World
<1>3. ASSUME NEW s \in Conn, NEW q \in SockRec, SocketTurn(s, q) PROVE \A d \in Conn : SameTx(d)
  <2>1. sock'[s] = q /\ \A d \in Conn \ {s} : sock'[d] = sock[d]
    BY <1>3, Typed DEF SocketTurn
  <2> QED BY <1>3, <2>1 DEF SocketTurn, SameTx
<1>4. \A d \in Conn : SameTx(d)
  BY <1>2, <1>3 DEF SameTx
<1> QED BY <1>1, <1>4, QuietPays

\* A byte for everybody that can send
LEMMA CtlPays == ASSUME StructureInv, AccountInv, HandleCtlSock PROVE AccountInv'
<1> DEFINE told == {c \in ToSet(list) : ~Is(c, "LISTENING") /\ put[c] < prog.out}
<1>0. LogOK /\ OutOK
  BY DEF AccountInv
<1>1. /\ sock' = sock /\ took' = took /\ cause' = cause
      /\ conn' = [c \in Conn |-> IF c \in told
                    THEN [conn[c] EXCEPT !.send = AppendTo(conn[c].send, <<put[c] + 1>>)] ELSE conn[c]]
      /\ put' = [c \in Conn |-> IF c \in told THEN put[c] + 1 ELSE put[c]]
  BY DEF HandleCtlSock
<1>2. told \subseteq Live
  BY DEF StructureInv, ListOK
<1>3. ASSUME NEW c \in Conn \ told PROVE Untouched(c)
  BY <1>1, <1>3 DEF Untouched
<1>4. ASSUME NEW c \in told
      PROVE  Paid(c, conn'[c], sock'[c], put'[c], cause'[c])
  <2> DEFINE b == <<put[c] + 1>>
             y == AppendTo(conn[c].send, b)
             q == [conn[c] EXCEPT !.send = y]
  <2>1. /\ c \in Conn /\ conn[c] \in ConnRec /\ conn[c].send \in Seq(Nat) /\ put[c] \in Nat
        /\ sock[c] \in SockRec /\ sock[c].tx \in Seq(Nat) /\ conn[c].st = "live"
        /\ "LISTENING" \notin conn[c].flags
    BY <1>2, Typed DEF ConnRec, SockRec, Live, Is
  <2>2. b \in Seq(Nat)
    BY <2>1
  <2>3. conn'[c] = q /\ put'[c] = put[c] + 1 /\ sock'[c] = sock[c] /\ cause'[c] = cause[c]
    BY <1>1, <2>1
  <2>4. UpTo(put[c]) \o b = UpTo(put'[c])
    BY <2>1, <2>3, NextNumber
  <2>q. q = [conn[c] EXCEPT !.send = y]
    OBVIOUS
  <2> HIDE DEF b, q
  <2>5. y = conn[c].send \o b /\ y \in Seq(Nat)
    BY <2>1, <2>2, Bytes
  <2> HIDE DEF y
  <2>s. conn[c] \in ConnRec /\ y \in Seq(Nat)
    BY <2>1, <2>5
  <2>6. q \in ConnRec /\ Alike(conn[c], q) /\ q.flags = conn[c].flags /\ q.send = y
    BY <2>s, <2>q, Sending
  <2>7. sock[c].tx \o (conn[c].send \o b) = (sock[c].tx \o conn[c].send) \o b
    BY <2>1, <2>2, Longer
  <2>8. Paid(c, conn[c], sock[c], put[c], cause[c])
    BY <1>0, <2>1 DEF OutOK
  <2>9. q.sock = c => sock[c].tx \o q.send = UpTo(put'[c])
    <3>1. q.sock = conn[c].sock
      BY <2>6 DEF Alike
    <3> QED BY <2>1, <2>4, <2>5, <2>6, <2>7, <2>8, <3>1 DEF Paid
  <2>10. q.st = "live"
    BY <2>1, <2>6 DEF Alike
  <2> QED BY <2>1, <2>3, <2>6, <2>8, <2>9, <2>10 DEF Paid
<1> HIDE DEF told
<1>5. OutOK'
  BY <1>0, <1>1, <1>3, <1>4, OutStep DEF SameTx
<1>8. LogOK'
  BY <1>0, <1>1 DEF LogOK, Reason
<1> QED BY <1>5, <1>8 DEF AccountInv

LEMMA HandleConnectingPays == ASSUME StructureInv, AccountInv, HandleConnecting PROVE AccountInv'
<1>1. cur \in Live /\ cur \in Conn /\ sock' = sock
  BY Typed DEF HandleConnecting, Live
<1>2. ASSUME NEW err \in BOOLEAN, Connected(cur, err) PROVE AccountInv'
  <2>1. PICK r \in ConnRec : /\ Alike(conn[cur], r) /\ r.send = conn[cur].send
                             /\ Call(cur, r, IF err THEN "CONNECT_FAILED" ELSE "CONNECT")
    BY <1>1, <1>2, ConnectedCalls
  <2>2. (IF err THEN "CONNECT_FAILED" ELSE "CONNECT") \in Events
    BY DEF Events
  <2>3. sock'[cur] \in SockRec /\ \A d \in Conn \ {cur} : SameTx(d)
    BY <1>1, Typed DEF SameTx
  <2> QED BY <1>1, <2>1, <2>2, <2>3, UsePays
<1>3. (~Is(cur, "UDP") /\ sock[cur].st \in {"refused", "reset"}) \in BOOLEAN /\ TRUE \in BOOLEAN
  OBVIOUS
<1>4. \/ Connected(cur, ~Is(cur, "UDP") /\ sock[cur].st \in {"refused", "reset"})
      \/ Connected(cur, TRUE) \/ UNCHANGED <<conn, History>>
  BY DEF HandleConnecting
<1>5. CASE UNCHANGED <<conn, History>>
  BY <1>1, <1>5, QuietPays DEF History, SameTx
<1> QED BY <1>2, <1>3, <1>4, <1>5

LEMMA ReceivedPays ==
  ASSUME StructureInv, AccountInv, NEW c \in Live, NEW b \in Seq(Nat), Received(c, b),
         sock'[c] \in SockRec, \A d \in Conn : SameTx(d)
  PROVE  AccountInv'
<1> DEFINE y == AppendTo(conn[c].recv, b)
           f == IF b = <<>> THEN "freed" ELSE conn[c].buf
           q == [conn[c] EXCEPT !.recv = y, !.buf = f]
<1>1. c \in Conn /\ conn[c] \in ConnRec /\ conn[c].recv \in Seq(Nat)
      /\ f \in {"own", "freed"}
  BY Typed DEF ConnRec, Live
<1>2. y \in Seq(Nat)
  BY <1>1, Bytes
<1>3. Call(c, q, "RECV") \/ UNCHANGED <<conn, History>>
  BY DEF Received
<1>q. q = [conn[c] EXCEPT !.recv = y, !.buf = f]
  OBVIOUS
<1> HIDE DEF q, y, f
<1>4. q \in ConnRec /\ Alike(conn[c], q) /\ q.send = conn[c].send
  BY <1>1, <1>2, <1>q DEF ConnRec, Alike
<1>5. CASE Call(c, q, "RECV")
  <2>1. sock'[c].tx \o q.send = sock[c].tx \o conn[c].send
    BY <1>1, <1>4 DEF SameTx
  <2> QED BY <1>4, <1>5, <2>1, UsePays DEF Events
<1>6. CASE UNCHANGED <<conn, History>>
  BY <1>6, QuietPays DEF History
<1> QED BY <1>3, <1>5, <1>6

LEMMA PollAndTimerPay ==
  ASSUME StructureInv, AccountInv, HandlePoll \/ HandleTimer PROVE AccountInv'
<1>1. pc \in Handling /\ sock' = sock /\ \E ev \in Events : Call(cur, conn[cur], ev)
  BY DEF HandlePoll, HandleTimer, Handling, Events
<1>2. cur \in Live /\ conn[cur] \in ConnRec /\ Alike(conn[cur], conn[cur]) /\ sock'[cur] \in SockRec
  BY <1>1, Typed DEF StructureInv, CursorOK, Live, Alike
<1>3. \A d \in Conn : SameTx(d)
  BY <1>1 DEF SameTx
<1> QED BY <1>1, <1>2, <1>3, UsePays

(* What the steps of a connection do to the sockets *)

SameStream(d) == /\ sock'[d].st = sock[d].st /\ sock'[d].rx = sock[d].rx /\ sock'[d].in = sock[d].in
                 /\ sock'[d].tx = sock[d].tx

LEMMA TcpReadMoves ==
  ASSUME StructureInv, pc = "read", TcpRead(cur), "UDP" \notin conn[cur].flags
  PROVE  \/ /\ \E n \in 1 .. Len(sock[cur].rx) :
                  /\ sock'[cur].rx = DropBytes(sock[cur].rx, n)
                  /\ SubSeq(sock[cur].rx, 1, n) \in Seq(Nat)
                  /\ Received(cur, SubSeq(sock[cur].rx, 1, n))
            /\ sock'[cur] \in SockRec /\ sock'[cur].tx = sock[cur].tx /\ sock'[cur].in = sock[cur].in
            /\ sock'[cur].st = sock[cur].st
            /\ \A d \in Conn \ {cur} : SameStream(d)
         \/ sock' = sock /\ \E f \in Modifiable : Flagged(cur, f)
<1>1. pc \in Handling /\ cur \in Live /\ cur \in Conn /\ conn[cur].st = "live"
  BY DEF StructureInv, CursorOK, Handling, Live
<1>2. sock[cur] \in SockRec /\ sock \in [Conn -> SockRec] /\ sock[cur].rx \in Seq(Nat)
  BY <1>1, Typed DEF StructureInv, WaitingOK
<1>3. CASE sock[cur].rx # <<>>
  <2>1. PICK n \in DOMAIN sock[cur].rx :
          /\ sock' = [sock EXCEPT ![cur].rx = DropBytes(sock[cur].rx, n)]
          /\ Received(cur, SubSeq(sock[cur].rx, 1, n))
    BY <1>1, <1>2, <1>3 DEF TcpRead
  <2> DEFINE y == DropBytes(sock[cur].rx, n)
             b == SubSeq(sock[cur].rx, 1, n)
             q == [sock[cur] EXCEPT !.rx = y]
  <2>2. n \in 1 .. Len(sock[cur].rx)
    BY <1>2, <2>1, LenProperties
  <2>3. b \in Seq(Nat) /\ y \in Seq(Nat)
    BY <1>2, <2>2, Cut
  <2>4. sock' = [sock EXCEPT ![cur] = q]
    BY <1>1, <1>2, <2>1
  <2>q. q = [sock[cur] EXCEPT !.rx = y]
    OBVIOUS
  <2> HIDE DEF q, y
  <2>5. q \in SockRec /\ q.st = sock[cur].st /\ q.rx = y /\ q.tx = sock[cur].tx /\ q.in = sock[cur].in
    BY <1>2, <2>3, <2>q, Draining
  <2>6. sock'[cur] = q /\ \A d \in Conn \ {cur} : SameStream(d)
    BY <1>1, <1>2, <2>4 DEF SameStream
  <2> QED BY <2>1, <2>2, <2>3, <2>5, <2>6 DEF y
<1>4. CASE sock[cur].rx = <<>>
  BY <1>4 DEF TcpRead, Modifiable
<1> QED BY <1>3, <1>4

LEMMA AcceptMoves ==
  ASSUME StructureInv, pc = "read", Accept(cur)
  PROVE  \/ UNCHANGED <<list, conn, History>> /\ \A d \in Conn : SameStream(d)
         \/ \E c \in Blank :
              /\ list' = <<c>> \o list /\ Call(c, NewConn(c, {}, cur, None), "ACCEPT")
              /\ sock'[c] \in SockRec /\ Empty(sock'[c]) /\ sock'[c].st = "up"
              /\ \A d \in Conn \ {c} : SameStream(d)
<1> DEFINE b == [sock[cur] EXCEPT !.backlog = sock[cur].backlog - 1]
           up == [NoSocket EXCEPT !.st = "up"]
<1>1. pc \in Handling /\ cur \in Live /\ cur \in Conn /\ conn[cur].st = "live"
  BY DEF StructureInv, CursorOK, Handling, Live
<1>2. sock \in [Conn -> SockRec] /\ sock[cur].backlog > 0
  BY Typed DEF Accept
<1>3. sock[cur].backlog - 1 \in Nat /\ sock[cur] \in SockRec
  BY <1>1, <1>2 DEF SockRec
<1>5. \/ Blank = {} /\ sock' = [sock EXCEPT ![cur] = b] /\ UNCHANGED <<list, conn, History>>
      \/ \E c \in Blank : /\ sock' = [sock EXCEPT ![cur] = b, ![c] = up]
                          /\ list' = <<c>> \o list /\ Call(c, NewConn(c, {}, cur, None), "ACCEPT")
  BY <1>1, <1>2 DEF Accept
<1>b. b = [sock[cur] EXCEPT !.backlog = sock[cur].backlog - 1]
  OBVIOUS
<1> HIDE DEF b
<1>6. b \in SockRec /\ b.st = sock[cur].st /\ b.rx = sock[cur].rx /\ b.tx = sock[cur].tx
      /\ b.in = sock[cur].in
  BY <1>3, <1>b, Fewer
<1>u. up = [NoSocket EXCEPT !.st = "up"]
  OBVIOUS
<1> HIDE DEF up
<1>7. up \in SockRec /\ up.st = "up" /\ Empty(up)
  BY <1>u, EmptySocket DEF SockState
<1>8. CASE Blank = {} /\ sock' = [sock EXCEPT ![cur] = b] /\ UNCHANGED <<list, conn, History>>
  BY <1>1, <1>2, <1>6, <1>8 DEF SameStream
<1>9. ASSUME NEW c \in Blank, sock' = [sock EXCEPT ![cur] = b, ![c] = up]
      PROVE  sock'[c] \in SockRec /\ Empty(sock'[c]) /\ sock'[c].st = "up"
             /\ \A d \in Conn \ {c} : SameStream(d)
  <2>1. c \in Conn /\ c # cur
    BY <1>1 DEF Blank
  <2>2. sock'[c] = up /\ sock'[cur] = b /\ \A d \in Conn \ {c, cur} : sock'[d] = sock[d]
    BY <1>1, <1>2, <1>9, <2>1
  <2> QED BY <1>6, <1>7, <2>2 DEF SameStream
<1> QED BY <1>5, <1>8, <1>9

LEMMA UdpReadMoves ==
  ASSUME StructureInv, pc = "read", UdpRead(cur), "UDP" \in conn[cur].flags
  PROVE  /\ sock'[cur] \in SockRec /\ sock'[cur].tx = sock[cur].tx /\ sock'[cur].st = sock[cur].st
         /\ \A d \in Conn \ {cur} : sock'[d] = sock[d]
         /\ \/ UNCHANGED <<list, conn, History>>
            \/ \E e \in Blank, a \in Peer :
                 /\ Is(cur, "LISTENING") /\ list' = <<e>> \o list
                 /\ Call(e, NewConn(cur, {"UDP", "SEND_AND_CLOSE"}, cur, a), "ACCEPT")
<1> DEFINE d == Head(sock[cur].rx)
           y == Tail(sock[cur].rx)
           b == [sock[cur] EXCEPT !.rx = y]
<1>1. pc \in Handling /\ cur \in Live /\ cur \in Conn /\ conn[cur].st = "live"
  BY DEF StructureInv, CursorOK, Handling, Live
<1>2. sock[cur].rx \in Seq(Datagram) /\ sock \in [Conn -> SockRec] /\ sock[cur].rx # <<>>
  BY <1>1, Typed DEF StructureInv, WaitingOK, UdpRead
<1>3. d \in Datagram /\ y \in Seq(Datagram)
  BY <1>2, HeadTailProperties
<1>4. d.from \in Peer
  BY <1>3 DEF Datagram
<1>6. sock' = [sock EXCEPT ![cur] = b]
  BY <1>1, <1>2 DEF UdpRead
<1>7. \/ UNCHANGED <<list, conn, History>>
      \/ /\ Is(cur, "LISTENING")
         /\ \E e \in Blank : /\ list' = <<e>> \o list
                             /\ Call(e, NewConn(cur, {"UDP", "SEND_AND_CLOSE"}, cur, d.from), "ACCEPT")
  BY DEF UdpRead
<1>b. b = [sock[cur] EXCEPT !.rx = y]
  OBVIOUS
<1> HIDE DEF b, y, d
<1>8. b \in SockRec /\ b.st = sock[cur].st /\ b.tx = sock[cur].tx
  BY <1>1, <1>2, <1>3, <1>b, Draining
<1>9. sock'[cur] = b /\ \A k \in Conn \ {cur} : sock'[k] = sock[k]
  BY <1>1, <1>2, <1>6
<1> QED BY <1>4, <1>7, <1>8, <1>9

\* What is written on the socket of c, which may be its listener's
LEMMA WroteMoves ==
  ASSUME StructureInv, NEW c \in Live, NEW s \in Conn, s = SockOf(c), NEW n \in 1 .. Len(conn[c].send),
         Wrote(c, s, n), IsDatagram(s) \/ n <= sock[s].room
  PROVE  /\ sock'[s] \in SockRec
         /\ sock'[s].tx = IF s = c THEN sock[s].tx \o SubSeq(conn[c].send, 1, n) ELSE sock[s].tx
         /\ sock'[s].st = sock[s].st /\ sock'[s].rx = sock[s].rx /\ sock'[s].in = sock[s].in
         /\ \A d \in Conn \ {s} : sock'[d] = sock[d]
         /\ \E r \in ConnRec : /\ Alike(conn[c], r) /\ r.send = DropBytes(conn[c].send, n)
                               /\ r.recv = conn[c].recv /\ r.flags = conn[c].flags /\ Call(c, r, "SEND")
<1> DEFINE x == IF s = c THEN sock[s].tx \o SubSeq(conn[c].send, 1, n) ELSE sock[s].tx
           a == IF s = c THEN sock[s].alien ELSE sock[s].alien \cup {c}
           m == IF IsDatagram(s) THEN sock[s].room ELSE sock[s].room - n
           p == [sock[s] EXCEPT !.tx = x]
           o == [p EXCEPT !.alien = a]
           q == [o EXCEPT !.room = m]
           y == DropBytes(conn[c].send, n)
           r == [conn[c] EXCEPT !.send = y]
<1>1. /\ c \in Conn /\ conn[c] \in ConnRec /\ sock \in [Conn -> SockRec] /\ sock[s] \in SockRec
  BY Typed DEF Live
<1>2. sock[s].tx \in Seq(Nat) /\ conn[c].send \in Seq(Nat) /\ sock[s].room \in Nat
      /\ sock[s].alien \subseteq Conn
  BY <1>1 DEF SockRec, ConnRec
<1>3. SubSeq(conn[c].send, 1, n) \in Seq(Nat) /\ y \in Seq(Nat)
  BY <1>2, Cut
<1>4. x \in Seq(Nat) /\ a \in SUBSET Conn
  BY <1>1, <1>2, <1>3, ConcatProperties
<1>5. m \in Nat
  <2>1. n \in Nat
    BY <1>2, LenProperties
  <2> QED BY <1>2, <2>1
<1>7. sock' = [sock EXCEPT ![s] = q]
  BY <1>1 DEF Wrote
<1>8. Call(c, r, "SEND")
  BY DEF Wrote
<1>p. p = [sock[s] EXCEPT !.tx = x]
  OBVIOUS
<1> HIDE DEF p
<1>o. o = [p EXCEPT !.alien = a]
  OBVIOUS
<1> HIDE DEF o
<1>q. q = [o EXCEPT !.room = m]
  OBVIOUS
<1>r. r = [conn[c] EXCEPT !.send = y]
  OBVIOUS
<1> HIDE DEF x, a, m, q, y, r
<1>9. q \in SockRec /\ q.st = sock[s].st /\ q.rx = sock[s].rx /\ q.tx = x /\ q.in = sock[s].in
  <2>1. p \in SockRec /\ p.st = sock[s].st /\ p.rx = sock[s].rx /\ p.tx = x /\ p.in = sock[s].in
    BY <1>1, <1>4, <1>p, Sent
  <2>2. o \in SockRec /\ o.st = p.st /\ o.rx = p.rx /\ o.tx = p.tx /\ o.in = p.in
    BY <1>4, <1>o, <2>1 DEF SockRec
  <2> QED BY <1>5, <1>q, <2>1, <2>2, Filled
<1>10. r \in ConnRec /\ Alike(conn[c], r) /\ r.send = y /\ r.recv = conn[c].recv /\ r.flags = conn[c].flags
  BY <1>1, <1>3, <1>r, Sending
<1>11. sock'[s] = q /\ \A d \in Conn \ {s} : sock'[d] = sock[d]
  BY <1>1, <1>7
<1> QED BY <1>8, <1>9, <1>10, <1>11 DEF x, y

(* Reading, writing and closing, and the account *)

LEMMA HandleReadPays == ASSUME StructureInv, AccountInv, HandleRead PROVE AccountInv'
<1>1. pc = "read" /\ cur \in Live /\ cur \in Conn
  BY DEF HandleRead, StructureInv, CursorOK, Handling, Live
<1>2. CASE ~FdRead(cur)
  BY <1>2, QuietPays DEF HandleRead, History, SameTx
<1>3. CASE UdpRead(cur) /\ Is(cur, "UDP")
  <2>1. /\ sock'[cur] \in SockRec /\ sock'[cur].tx = sock[cur].tx /\ sock'[cur].st = sock[cur].st
        /\ \A d \in Conn \ {cur} : sock'[d] = sock[d]
        /\ \/ UNCHANGED <<list, conn, History>>
           \/ \E e \in Blank, a \in Peer :
                /\ Is(cur, "LISTENING") /\ list' = <<e>> \o list
                /\ Call(e, NewConn(cur, {"UDP", "SEND_AND_CLOSE"}, cur, a), "ACCEPT")
    BY <1>1, <1>3, UdpReadMoves DEF Is
  <2>2. \A d \in Conn : SameTx(d)
    BY <2>1 DEF SameTx
  <2>3. CASE UNCHANGED <<list, conn, History>>
    BY <2>2, <2>3, QuietPays DEF History
  <2>4. ASSUME NEW e \in Blank, NEW a \in Peer, Is(cur, "LISTENING"),
               Call(e, NewConn(cur, {"UDP", "SEND_AND_CLOSE"}, cur, a), "ACCEPT")
        PROVE  AccountInv'
    <3> DEFINE g == {"UDP", "SEND_AND_CLOSE"}
               r == NewConn(cur, g, cur, a)
    <3>1. g \in SUBSET Flags /\ "CLOSE_IMMEDIATELY" \notin g
      BY DEF Flags
    <3>2. Call(e, r, "ACCEPT")
      BY <2>4
    <3> HIDE DEF g
    <3>3. r \in ConnRec /\ Fresh(r) /\ r.listener = cur
      BY <1>1, <3>1, FreshConn, FreedRec
    <3> HIDE DEF r
    <3>4. e \in Conn /\ e # cur /\ sock[e] = NoSocket
      BY <1>1 DEF Blank, Live, StructureInv, SocketOK
    <3>5. sock'[e] \in SockRec /\ sock'[e].tx = <<>>
      <4>1. sock'[e] = NoSocket
        BY <2>1, <3>4
      <4> QED BY <4>1, FreedRec DEF NoSocket
    <3> QED BY <1>1, <2>2, <2>4, <3>2, <3>3, <3>5, EntersPays DEF Is
  <2> QED BY <2>1, <2>3, <2>4
<1>4. CASE Accept(cur)
  <2>1. CASE UNCHANGED <<list, conn, History>> /\ \A d \in Conn : SameStream(d)
    BY <2>1, QuietPays DEF History, SameTx, SameStream
  <2>2. ASSUME NEW c \in Blank, Call(c, NewConn(c, {}, cur, None), "ACCEPT"),
               sock'[c] \in SockRec, Empty(sock'[c]), \A d \in Conn \ {c} : SameStream(d)
        PROVE  AccountInv'
    <3> DEFINE g == {}
               r == NewConn(c, g, cur, None)
    <3>1. c \in Conn /\ g \in SUBSET Flags /\ "CLOSE_IMMEDIATELY" \notin g /\ "UDP" \notin g
      BY DEF Blank
    <3>3. Call(c, r, "ACCEPT")
      BY <2>2
    <3> HIDE DEF g
    <3>2. r \in ConnRec /\ Fresh(r) /\ r.flags = g
      BY <1>1, <3>1, FreshConn, FreedRec
    <3> HIDE DEF r
    <3>4. sock'[c].tx = <<>> /\ \A d \in Conn \ {c} : SameTx(d)
      BY <2>2 DEF Empty, SameTx, SameStream
    <3> QED BY <2>2, <3>1, <3>2, <3>3, <3>4, EntersPays
  <2> QED BY <1>1, <1>4, <2>1, <2>2, AcceptMoves
<1>5. CASE TcpRead(cur) /\ ~Is(cur, "UDP")
  <2>1. CASE sock' = sock /\ \E f \in Modifiable : Flagged(cur, f)
    BY <1>1, <2>1, FlaggedPays
  <2>2. ASSUME NEW n \in 1 .. Len(sock[cur].rx), SubSeq(sock[cur].rx, 1, n) \in Seq(Nat),
               Received(cur, SubSeq(sock[cur].rx, 1, n)), sock'[cur] \in SockRec,
               sock'[cur].tx = sock[cur].tx, sock'[cur].st = sock[cur].st,
               \A d \in Conn \ {cur} : SameStream(d)
        PROVE  AccountInv'
    <3>1. \A d \in Conn : SameTx(d)
      BY <2>2 DEF SameTx, SameStream
    <3> QED BY <1>1, <2>2, <3>1, ReceivedPays
  <2> QED BY <1>1, <1>5, <2>1, <2>2, TcpReadMoves DEF Is
<1> QED BY <1>2, <1>3, <1>4, <1>5 DEF HandleRead

LEMMA HandleDatagramPays == ASSUME StructureInv, AccountInv, HandleDatagram PROVE AccountInv'
<1>1. /\ pc = "datagram" /\ sock' = sock
      /\ UNCHANGED <<conn, History>> \/ Received(got.to, got.data)
  BY DEF HandleDatagram
<1>2. got.to \in Live /\ got.to \in Conn /\ got.data \in Seq(Nat)
  BY <1>1 DEF StructureInv, CursorOK, Incoming, Live
<1>3. sock'[got.to] \in SockRec /\ \A d \in Conn : SameTx(d)
  BY <1>1, <1>2, Typed DEF SameTx
<1>4. CASE UNCHANGED <<conn, History>>
  BY <1>3, <1>4, QuietPays DEF History
<1> QED BY <1>1, <1>2, <1>3, <1>4, ReceivedPays

LEMMA WrotePays ==
  ASSUME StructureInv, AccountInv, NEW c \in Live, NEW s \in Conn, s = SockOf(c),
         NEW n \in 1 .. Len(conn[c].send), Wrote(c, s, n), IsDatagram(s) \/ n <= sock[s].room
  PROVE  AccountInv'
<1>0. c \in Conn /\ conn[c].st = "live" /\ conn[c].send \in Seq(Nat)
      /\ sock[c] \in SockRec /\ sock[c].tx \in Seq(Nat) /\ conn[c] \in ConnRec
      /\ sock[s].tx \in Seq(Nat)
  BY Typed DEF Live, AccountInv, ConnRec, SockRec
<1>1. /\ sock'[s] \in SockRec
      /\ sock'[s].tx = IF s = c THEN sock[s].tx \o SubSeq(conn[c].send, 1, n) ELSE sock[s].tx
      /\ sock'[s].st = sock[s].st
      /\ \A d \in Conn \ {s} : sock'[d] = sock[d]
  BY WroteMoves
<1>2. PICK r \in ConnRec : Alike(conn[c], r) /\ r.send = DropBytes(conn[c].send, n) /\ Call(c, r, "SEND")
  BY WroteMoves
<1>3. conn[c].sock = c => sock'[c].tx \o r.send = sock[c].tx \o conn[c].send
  <2> SUFFICES ASSUME conn[c].sock = c PROVE sock'[c].tx \o r.send = sock[c].tx \o conn[c].send
    OBVIOUS
  <2>0. s = c
    BY <1>0 DEF SockOf, StructureInv, HolderOK
  <2>1. /\ SubSeq(conn[c].send, 1, n) \in Seq(Nat) /\ DropBytes(conn[c].send, n) \in Seq(Nat)
        /\ SubSeq(conn[c].send, 1, n) \o DropBytes(conn[c].send, n) = conn[c].send
    BY <1>0, Cut
  <2>2. sock[c].tx \o (SubSeq(conn[c].send, 1, n) \o DropBytes(conn[c].send, n))
          = (sock[c].tx \o SubSeq(conn[c].send, 1, n)) \o DropBytes(conn[c].send, n)
    BY <1>0, <2>1, Longer
  <2> QED BY <1>1, <1>2, <2>0, <2>1, <2>2
<1>5. \A d \in Conn \ {c} : SameTx(d)
  BY <1>1 DEF SameTx
<1>6. sock'[c] \in SockRec
  BY <1>0, <1>1
<1> QED BY <1>2, <1>3, <1>5, <1>6, UsePays DEF Events

LEMMA HandleWritePays == ASSUME StructureInv, AccountInv, HandleWrite PROVE AccountInv'
<1> DEFINE s == SockOf(cur)
           len == Len(conn[cur].send)
<1>1. cur \in Live /\ cur \in Conn /\ conn[cur].send \in Seq(Nat)
  BY Typed DEF HandleWrite, StructureInv, CursorOK, Handling, Live, ConnRec
<1>2. \/ UNCHANGED <<conn, sock, History>>
      \/ FdWrite(cur) /\ conn[cur].send # <<>> /\ WriteToSocket(cur)
  BY DEF HandleWrite
<1>3. CASE UNCHANGED <<conn, sock, History>>
  BY <1>3, QuietPays DEF History, SameTx
<1>4. CASE FdWrite(cur) /\ conn[cur].send # <<>> /\ WriteToSocket(cur)
  <2>1. s \in Conn /\ sock[s].room \in Nat /\ len \in Nat /\ len # 0
    BY <1>1, <1>4, Typed, LenProperties, EmptySeq DEF FdWrite, FdsRec, SockRec
  <2>2. CASE IsDatagram(s) /\ Wrote(cur, s, len)
    <3>1. len \in 1 .. len
      BY <2>1
    <3> QED BY <1>1, <2>1, <2>2, <3>1, WrotePays
  <2>3. ASSUME NEW n \in 1 .. (IF len < sock[s].room THEN len ELSE sock[s].room), Wrote(cur, s, n)
        PROVE  AccountInv'
    <3>1. n \in 1 .. len /\ n <= sock[s].room
      BY <2>1
    <3> QED BY <1>1, <2>1, <2>3, <3>1, WrotePays
  <2>4. CASE SendtoFails(s)
    <3>1. UNCHANGED <<conn, History>> /\ \A d \in Conn : SameTx(d)
      BY <2>1, <2>4, SendtoFailsKeeps DEF SameTx
    <3> QED BY <3>1, QuietPays DEF History
  <2>5. CASE Flagged(cur, "CLOSE_IMMEDIATELY") /\ sock' = sock
    BY <1>1, <2>5, FlaggedPays DEF Modifiable
  <2> QED BY <1>3, <1>4, <2>2, <2>3, <2>4, <2>5 DEF WriteToSocket
<1> QED BY <1>2, <1>3, <1>4

\* Who is closed has sent everything, or there is a reason.
LEMMA ClosePays ==
  ASSUME StructureInv, AccountInv, NEW i \in 1 .. Len(list), NEW there, CloseConn(i, there),
         holder' = holder,
         cause' \in [Conn -> SUBSET Reason], \A d \in Conn \ {list[i]} : cause'[d] = cause[d],
         cause'[list[i]] # {} \/ conn[list[i]].send = <<>>
  PROVE  AccountInv'
<1> DEFINE c == list[i]
<1>0. c \in Live /\ c \in Conn /\ conn[c].st = "live" /\ LogOK /\ OutOK
      /\ sock[c].tx \in Seq(Nat)
  BY CloseKeeps, Typed DEF Live, AccountInv, SockRec
<1>1. /\ conn'[c] = Freed /\ sock'[c].tx = sock[c].tx
      /\ sock'[c].st = "closed" => conn[c].sock = c
      /\ \A d \in Conn \ {c} : conn'[d] = conn[d] /\ sock'[d] = sock[d]
  BY CloseKeeps
<1>2. took' = took /\ put' = put
  BY DEF CloseConn
<1>3. \A d \in Conn \ {c} : Untouched(d) /\ SameTx(d)
  BY <1>1, <1>2 DEF Untouched, SameTx
<1>c. cause'[c] # {} \/ conn[c].send = <<>>
  OBVIOUS
<1> HIDE DEF c
<1>4. ASSUME cause'[c] = {}, sock'[c].st = "closed" PROVE sock'[c].tx = UpTo(put'[c])
  <2>1. Paid(c, conn[c], sock[c], put[c], cause[c])
    BY <1>0 DEF OutOK
  <2>2. conn[c].sock = c /\ conn[c].send = <<>>
    BY <1>1, <1>4, <1>c
  <2>3. sock[c].tx \o <<>> = UpTo(put[c])
    BY <1>0, <2>1, <2>2 DEF Paid
  <2> QED BY <1>0, <1>1, <1>2, <2>3, ConcatEmptySeq
<1>5. Paid(c, conn'[c], sock'[c], put'[c], cause'[c])
  BY <1>1, <1>4, FreedRec DEF Paid
<1>6. OutOK'
  BY <1>0, <1>3, <1>5, OutStep
<1>7. LogOK'
  BY <1>0, <1>2 DEF LogOK, Reason
<1> QED BY <1>6, <1>7 DEF AccountInv

LEMMA SweepPays == ASSUME StructureInv, AccountInv, Sweep PROVE AccountInv'
<1>0. LogOK /\ OutOK
  BY DEF AccountInv
<1>1. CASE UNCHANGED <<conn, sock, took, put, cause>>
  BY <1>1, QuietPays DEF SameTx
<1>2. ASSUME NEW i \in DOMAIN list, Doomed(list[i]), CloseConn(i, "sweep"), cause' = cause,
             holder' = holder
      PROVE  AccountInv'
  <2>1. i \in 1 .. Len(list)
    BY Typed, LenProperties
  <2>2. list[i] \in Live /\ list[i] \in Conn /\ conn[list[i]].st = "live"
    BY <1>2, <2>1, CloseKeeps DEF Live
  <2>3. cause[list[i]] # {} \/ conn[list[i]].send = <<>>
    BY <1>0, <1>2, <2>2 DEF Doomed, Is, OutOK, Paid
  <2>4. cause' \in [Conn -> SUBSET Reason] /\ cause'[list[i]] = cause[list[i]]
    BY <1>0, <1>2 DEF LogOK
  <2> QED BY <1>2, <2>1, <2>3, <2>4, ClosePays
<1> QED BY <1>1, <1>2 DEF Sweep

LEMMA FreePays == ASSUME StructureInv, AccountInv, Free PROVE AccountInv'
<1>0. LogOK /\ holder' = holder
  BY DEF AccountInv, Free
<1>1. CASE UNCHANGED <<conn, list, sock, History>>
  BY <1>1, QuietPays DEF History, SameTx
<1>2. CASE list # <<>> /\ CloseConn(1, pc) /\ cause' = [cause EXCEPT ![Head(list)] = @ \cup {"mgr_free"}]
  <2>1. list \in Seq(Conn) /\ Len(list) \in Nat /\ Len(list) # 0
    BY <1>2, Typed, LenProperties, EmptySeq
  <2>2. 1 \in 1 .. Len(list) /\ Head(list) = list[1] /\ list[1] \in Conn
    BY <1>2, <2>1, HeadTailProperties
  <2>3. cause' = [cause EXCEPT ![list[1]] = cause[list[1]] \cup {"mgr_free"}]
    BY <1>2, <2>2
  <2>4. cause' \in [Conn -> SUBSET Reason] /\ cause'[list[1]] # {}
        /\ \A d \in Conn \ {list[1]} : cause'[d] = cause[d]
    BY <1>0, <2>2, <2>3 DEF LogOK, Reason
  <2> QED BY <1>0, <1>2, <2>2, <2>4, ClosePays
<1> QED BY <1>1, <1>2 DEF Free

LEMMA AccountHoldsFirst == ASSUME Init PROVE AccountInv
<1> DEFINE b == [NewConn(None, {}, None, None) EXCEPT !.st = "blank"]
<1>1. /\ conn = [c \in Conn |-> b] /\ put = [c \in Conn |-> 0]
      /\ took = [c \in Conn |-> <<>>] /\ cause = [c \in Conn |-> {}]
  BY DEF Init
<1>2. b.st = "blank"
  BY FreedRec DEF ConnRec
<1> HIDE DEF b
<1>3. <<>> \in Seq(Nat)
  OBVIOUS
<1>4. LogOK
  BY <1>1, <1>3 DEF LogOK
<1>5. OutOK
  BY <1>1, <1>2 DEF OutOK, Paid
<1> QED BY <1>4, <1>5 DEF AccountInv

LEMMA AccountKeeps == ASSUME StructureInv, AccountInv, [Next]_vars PROVE AccountInv'
<1>1. CASE AppFrees \/ Select \/ UNCHANGED vars
  <2>1. conn' = conn /\ took' = took /\ put' = put /\ cause' = cause /\ sock' = sock
    BY <1>1 DEF AppFrees, Select, History, vars
  <2> QED BY <2>1, QuietPays DEF SameTx
<1> QED BY <1>1, AppCallsPays, CtlPays, HandleConnectingPays, HandleReadPays, HandleDatagramPays,
           HandleWritePays, PollAndTimerPay, SweepPays, FreePays, WorldPays DEF Next, IoThread

\* A connection closed before everything is sent has a reason: its user, the network or
\* mg_mgr_free. Nothing that the sweep or the handlers do together leaves output behind.
THEOREM ClosedIsComplete == Spec => []ClosedComplete
<1> DEFINE IInv == StructureInv /\ AccountInv
<1>1. Init => IInv
  BY StructureHoldsFirst, AccountHoldsFirst
<1>2. IInv /\ [Next]_vars => IInv'
  BY StructureKeeps, AccountKeeps
<1>3. IInv => ClosedComplete
  BY DEF AccountInv, OutOK, Paid, ClosedComplete
<1> QED BY <1>1, <1>2, <1>3, PTL DEF Spec

(* The walk along the list *)

LEMMA PushedOrder ==
  ASSUME NEW l \in Seq(Conn), NEW e \in Conn, NEW c, NEW d
  PROVE  /\ Ahead(l, c, d) => Ahead(<<e>> \o l, c, d)
         /\ Behind(l, c, d) => Behind(<<e>> \o l, c, d)
<1> DEFINE r == <<e>> \o l
<1>0. Len(l) \in Nat /\ DOMAIN l = 1 .. Len(l)
  BY LenProperties
<1>1. <<e>> \in Seq(Conn) /\ Len(<<e>>) = 1 /\ <<e>>[1] = e
  OBVIOUS
<1>2. /\ r \in Seq(Conn) /\ Len(r) = 1 + Len(l)
      /\ \A i \in 1 .. 1 + Len(l) : r[i] = IF i <= 1 THEN <<e>>[i] ELSE l[i - 1]
  BY <1>1, ConcatProperties
<1> HIDE DEF r
<1>3. DOMAIN r = 1 .. 1 + Len(l)
  BY <1>2, LenProperties
<1>4. \A i \in 1 .. Len(l) : r[i + 1] = l[i] /\ i + 1 \in DOMAIN r /\ i \in Nat
  BY <1>0, <1>2, <1>3
<1>5. Ahead(l, c, d) => Ahead(r, c, d)
  <2> SUFFICES ASSUME NEW i \in DOMAIN l, NEW j \in DOMAIN l, i < j, l[i] = c, l[j] = d
               PROVE  Ahead(r, c, d)
    BY DEF Ahead
  <2>1. i + 1 \in DOMAIN r /\ j + 1 \in DOMAIN r /\ i + 1 < j + 1 /\ r[i + 1] = c /\ r[j + 1] = d
    BY <1>0, <1>4
  <2> QED BY <2>1 DEF Ahead
<1>6. Behind(l, c, d) => Behind(r, c, d)
  <2> SUFFICES ASSUME NEW j \in DOMAIN l, l[j] = c, d = IF j < Len(l) THEN l[j + 1] ELSE None
               PROVE  Behind(r, c, d)
    BY DEF Behind
  <2>1. j + 1 \in DOMAIN r /\ r[j + 1] = c /\ (j < Len(l) <=> j + 1 < Len(r))
    BY <1>0, <1>2, <1>4
  <2>2. j < Len(l) => r[(j + 1) + 1] = l[j + 1]
    <3>1. j < Len(l) => j + 1 \in 1 .. Len(l)
      BY <1>0
    <3> QED BY <1>4, <3>1
  <2> QED BY <2>1, <2>2 DEF Behind
<1> QED BY <1>5, <1>6 DEF r

LEMMA NextIsAhead ==
  ASSUME NEW l \in Seq(Conn), IsInjective(l), NEW c, NEW n, n # None, Behind(l, c, n)
  PROVE  Ahead(l, c, n) /\ \A d : Ahead(l, d, c) => Ahead(l, d, n)
<1>0. Len(l) \in Nat /\ DOMAIN l = 1 .. Len(l)
  BY LenProperties
<1>1. PICK j \in DOMAIN l : l[j] = c /\ n = IF j < Len(l) THEN l[j + 1] ELSE None
  BY DEF Behind
<1>2. j + 1 \in DOMAIN l /\ l[j + 1] = n /\ j < j + 1
  BY <1>0, <1>1
<1>3. Ahead(l, c, n)
  BY <1>1, <1>2 DEF Ahead
<1>4. ASSUME NEW d, Ahead(l, d, c) PROVE Ahead(l, d, n)
  <2>1. PICK i, k \in DOMAIN l : i < k /\ l[i] = d /\ l[k] = c
    BY <1>4 DEF Ahead
  <2>2. k = j
    BY <1>1, <2>1 DEF IsInjective
  <2>3. i < j + 1
    BY <1>0, <2>1, <2>2
  <2> QED BY <1>2, <2>1, <2>3 DEF Ahead
<1> QED BY <1>3, <1>4

LEMMA NotAheadOfItself == ASSUME NEW l \in Seq(Conn), IsInjective(l), NEW c PROVE ~Ahead(l, c, c)
<1> SUFFICES ASSUME NEW i \in DOMAIN l, NEW j \in DOMAIN l, i < j, l[i] = c, l[j] = c PROVE FALSE
  BY DEF Ahead
<1>1. i = j
  BY DEF IsInjective
<1>2. i \in Nat
  BY LenProperties
<1> QED BY <1>1, <1>2

LEMMA AfterIsBehind == ASSUME StructureInv, NEW c \in Live PROVE Behind(list, c, After(c))
<1> DEFINE i == CHOOSE i \in DOMAIN list : list[i] = c
<1>1. \E j \in DOMAIN list : list[j] = c
  BY DEF StructureInv, ListOK, ToSet
<1>2. i \in DOMAIN list /\ list[i] = c
  BY <1>1
<1>3. After(c) = IF i < Len(list) THEN list[i + 1] ELSE None
  BY DEF After
<1> HIDE DEF i
<1> QED BY <1>2, <1>3 DEF Behind

\* The list as it is, or with somebody in front
Prepended == list' = list \/ \E e \in Conn : list' = <<e>> \o list

LEMMA OrderKept ==
  ASSUME StructureInv, Prepended, NEW c, NEW d
  PROVE  /\ Ahead(list, c, d) => Ahead(list', c, d)
         /\ Behind(list, c, d) => Behind(list', c, d)
<1>1. list \in Seq(Conn)
  BY Typed
<1>2. CASE list' = list
  BY <1>2 DEF Ahead, Behind
<1>3. CASE \E e \in Conn : list' = <<e>> \o list
  BY <1>1, <1>3, PushedOrder
<1> QED BY <1>2, <1>3 DEF Prepended

\* The thread goes on with a connection or to the next.
Proceeds ==
  \/ cur' = cur /\ pc' = pc
  \/ cur' = cur /\ pc' \in Handling /\ pc \in Handling \cup {"conn"} /\ cur # None
  \/ cur' = next /\ pc' = "conn" /\ pc \in Handling
  \/ pc' \in {"sweep", "crashed"}

LEMMA PastGoesOn ==
  ASSUME StructureInv, WalkOK, Prepended, Proceeds, NEW c \in Conn, Past(c),
         cur = c /\ pc = "write" => pc' \in {"write", "conn"}
  PROVE  Past(c)'
<1>0. list \in Seq(Conn) /\ IsInjective(list) /\ "conn" \notin Handling /\ "sweep" \notin Handling
      /\ "crashed" \notin Handling /\ "write" \in Handling
  BY Typed DEF StructureInv, ListOK, Handling
<1>1. \A d : Ahead(list, c, d) => Ahead(list', c, d)
  BY OrderKept
<1>2. CASE cur' = cur /\ pc' = pc
  BY <1>1, <1>2 DEF Past
<1>3. CASE cur' = cur /\ pc' \in Handling /\ pc \in Handling \cup {"conn"} /\ cur # None
  BY <1>0, <1>1, <1>3 DEF Past
<1>4. CASE cur' = next /\ pc' = "conn" /\ pc \in Handling
  <2>1. CASE next = None
    BY <1>4, <2>1 DEF Past
  <2>2. CASE next # None
    <3>1. Ahead(list, c, cur) \/ cur = c
      BY <1>0, <1>4 DEF Past
    <3>2. Ahead(list, c, next)
      BY <1>0, <1>4, <2>2, <3>1, NextIsAhead DEF WalkOK
    <3>3. Ahead(list', c, next)
      BY <1>1, <3>2
    <3> QED BY <1>4, <2>2, <3>3 DEF Past
  <2> QED BY <2>1, <2>2
<1>5. CASE pc' \in {"sweep", "crashed"}
  BY <1>5 DEF Past
<1> QED BY <1>2, <1>3, <1>4, <1>5 DEF Proceeds

\* Whose turn it is is not done with until it was read.
LEMMA NotPastYet ==
  ASSUME StructureInv, pc \in (Handling \cup {"conn"}) \ {"write"}, cur # None PROVE ~Past(cur)
<1>1. list \in Seq(Conn) /\ IsInjective(list)
  BY Typed DEF StructureInv, ListOK
<1>2. ~Ahead(list, cur, cur)
  BY <1>1, NotAheadOfItself
<1> QED BY <1>2 DEF Past, Handling

LEMMA WalkStep ==
  ASSUME StructureInv, WalkOK, Prepended, next' = next, cur' = cur,
         pc' \in Handling => pc \in Handling
  PROVE  WalkOK'
<1> SUFFICES ASSUME pc' \in Handling PROVE Behind(list', cur', next')
  BY DEF WalkOK, Handling, Behind
<1>1. Behind(list, cur, next)
  BY DEF WalkOK
<1> QED BY <1>1, OrderKept

LEMMA WalkElsewhere == ASSUME pc' \notin Handling PROVE WalkOK'
BY DEF WalkOK, Handling

(* What arrives *)

Working == {"up", "connecting"}

\* The stream that d receives, if it receives one, is as it was.
SameIn(d) ==
  \/ IsDatagram(d)
  \/ /\ sock'[d].st \in Working =>
          sock[d].st \in Working /\ sock'[d].rx = sock[d].rx /\ sock'[d].in = sock[d].in
     /\ Spoiled(d) => Past(d)'

Steady(d) == /\ conn'[d].st = conn[d].st /\ conn'[d].flags = conn[d].flags
             /\ conn'[d].recv = conn[d].recv /\ took'[d] = took[d]

LEMMA InStep ==
  ASSUME InOK, \A d \in Conn : (Steady(d) /\ SameIn(d)) \/ Kept(d)'
  PROVE  InOK'
<1> SUFFICES ASSUME NEW d \in Conn PROVE Kept(d)'
  BY DEF InOK
<1>1. CASE Steady(d) /\ SameIn(d)
  <2>1. Kept(d)
    BY DEF InOK
  <2>2. (conn[d].st = "blank" => took[d] = <<>>)'
    BY <1>1, <2>1 DEF Kept, Steady
  <2>3. ASSUME conn'[d].st = "live", "UDP" \notin conn'[d].flags, sock'[d].st \in Working
        PROVE  Whole(d)' \/ Spoiled(d)'
    <3>0. ~IsDatagram(d)
      BY <1>1, <2>3 DEF IsDatagram, Is, Steady
    <3>1. Whole(d) \/ Spoiled(d)
      BY <1>1, <2>1, <2>3, <3>0 DEF Kept, Steady, SameIn, Working
    <3>2. Spoiled(d) => Spoiled(d)'
      BY <1>1, <3>0 DEF Spoiled, Steady, SameIn
    <3>3. sock'[d].rx = sock[d].rx /\ sock'[d].in = sock[d].in
      BY <1>1, <2>3, <3>0 DEF SameIn
    <3>4. Whole(d) => Whole(d)'
      BY <1>1, <3>3 DEF Whole, Steady, UpTo
    <3> QED BY <3>1, <3>2, <3>4
  <2> QED BY <2>2, <2>3 DEF Kept, Working
<1> QED BY <1>1

LEMMA UseKeepsIn ==
  ASSUME StructureInv, LogOK, InOK, NEW c \in Live, NEW r \in ConnRec, Alike(conn[c], r),
         NEW ev \in Events, Call(c, r, ev),
         "UDP" \notin conn[c].flags /\ sock'[c].st \in Working
           => took[c] \o r.recv \o sock'[c].rx = UpTo(sock'[c].in),
         \A d \in Conn \ {c} : SameIn(d)
  PROVE  InOK'
<1>0. c \in Conn /\ conn[c].st = "live" /\ TypeOK
  BY Typed DEF Live
<1>1. Flows(c, r, conn'[c]) /\ \A d \in Conn \ {c} : Untouched(d)
  BY <1>0, CallFlows
<1>2. PICK q \in ConnRec : AfterCall(c, r, ev, q)
  BY <1>0, CallSteps
<1>3. conn'[c] = q /\ Shape(r, q)
  BY <1>0, <1>2, Typed DEF AfterCall
<1>4. conn'[c].st = "live" /\ ("UDP" \in conn'[c].flags <=> "UDP" \in conn[c].flags)
  BY <1>0, <1>3 DEF Shape, Alike
<1>5. took'[c] \o conn'[c].recv = took[c] \o r.recv
  BY <1>1 DEF Flows
<1>6. "UDP" \notin conn'[c].flags /\ sock'[c].st \in Working => Whole(c)'
  BY <1>4, <1>5 DEF Whole, UpTo
<1>7. Kept(c)'
  BY <1>4, <1>6 DEF Kept, Working
<1>8. \A d \in Conn \ {c} : Steady(d)
  BY <1>1 DEF Untouched, Steady
<1> QED BY <1>7, <1>8, InStep

LEMMA QuietKeepsIn ==
  ASSUME InOK, conn' = conn, took' = took, \A d \in Conn : SameIn(d) PROVE InOK'
BY InStep DEF Steady

\* A connection that is new has nothing.
LEMMA NothingYet ==
  ASSUME NEW s, Empty(s) PROVE <<>> \o <<>> \o s.rx = UpTo(s.in)
<1>1. <<>> \o <<>> = <<>> /\ s.rx = <<>> /\ s.in = 0
  BY ConcatEmptySeq DEF Empty
<1> QED BY <1>1, NoNumbers

LEMMA EntersKeepsIn ==
  ASSUME StructureInv, LogOK, InOK, NEW e \in Blank, NEW r \in ConnRec, Fresh(r), Call(e, r, "ACCEPT"),
         "UDP" \notin r.flags => Empty(sock'[e]), \A d \in Conn \ {e} : SameIn(d)
  PROVE  InOK'
<1>0. e \in Conn /\ conn[e].st = "blank" /\ TypeOK /\ "ACCEPT" \in Events
  BY Typed DEF Blank, Events
<1>1. Flows(e, r, conn'[e]) /\ \A d \in Conn \ {e} : Untouched(d)
  BY <1>0, CallFlows
<1>2. PICK q \in ConnRec : AfterCall(e, r, "ACCEPT", q)
  BY <1>0, CallSteps
<1>3. conn'[e] = q /\ Shape(r, q)
  BY <1>0, <1>2, Typed DEF AfterCall
<1>4. conn'[e].st = "live" /\ ("UDP" \in conn'[e].flags <=> "UDP" \in r.flags)
  BY <1>3 DEF Shape, Fresh
<1>5. took'[e] \o conn'[e].recv = <<>> \o <<>>
  BY <1>0, <1>1 DEF Flows, Fresh, InOK, Kept
<1>6. "UDP" \notin r.flags => Whole(e)'
  <2> SUFFICES ASSUME Empty(sock'[e]) PROVE Whole(e)'
    OBVIOUS
  <2>1. <<>> \o <<>> \o sock'[e].rx = UpTo(sock'[e].in)
    BY NothingYet
  <2> QED BY <1>5, <2>1 DEF Whole, UpTo
<1>7. Kept(e)'
  BY <1>4, <1>6 DEF Kept
<1>8. \A d \in Conn \ {e} : Steady(d)
  BY <1>1 DEF Untouched, Steady
<1> QED BY <1>7, <1>8, InStep

StreamInv == ProtocolInv /\ AccountInv /\ WalkOK /\ InOK

LEMMA StreamParts ==
  ASSUME StreamInv
  PROVE  StructureInv /\ StoryOK /\ ReadyOK /\ LogOK /\ OutOK /\ AccountInv /\ WalkOK /\ InOK
BY DEF StreamInv, ProtocolInv, AccountInv

\* No connection is spoiled outside the walk.
LEMMA NoneSpoiled ==
  ASSUME pc \in {"app", "ctl", "freeing", "freed"}, NEW d \in Conn PROVE ~Spoiled(d)
BY DEF Spoiled, Past, Handling

LEMMA AppCallsKeepIn == ASSUME StreamInv, AppCalls PROVE InOK' /\ WalkOK'
<1>0. StructureInv /\ InOK /\ pc = "app" /\ pc \notin Handling
  BY StreamParts DEF AppCalls, Handling
<1>1. PICK c \in Blank, r \in ConnRec, s \in SockRec :
         Opened(c, r, s) /\ Fresh(r) /\ r.listener = None /\ Empty(s)
  BY <1>0, AppCallsOpen
<1>2. c \in Conn /\ conn[c].st = "blank" /\ pc' = pc
      /\ conn' = [conn EXCEPT ![c] = r] /\ sock' = [sock EXCEPT ![c] = s] /\ took' = took
  BY <1>1 DEF Blank, Opened, History
<1>3. conn'[c] = r /\ sock'[c] = s
      /\ \A d \in Conn \ {c} : conn'[d] = conn[d] /\ sock'[d] = sock[d]
  BY <1>0, <1>2, Typed
<1>4. \A d \in Conn \ {c} : Steady(d) /\ SameIn(d)
  BY <1>0, <1>2, <1>3, NoneSpoiled DEF Steady, SameIn
<1>5. Whole(c)'
  <2>1. took'[c] = <<>> /\ conn'[c].recv = <<>>
    BY <1>0, <1>1, <1>2, <1>3 DEF InOK, Kept, Fresh
  <2>2. <<>> \o <<>> \o sock'[c].rx = UpTo(sock'[c].in)
    BY <1>1, <1>3, NothingYet
  <2> QED BY <2>1, <2>2 DEF Whole, UpTo
<1>6. Kept(c)'
  BY <1>1, <1>3, <1>5 DEF Kept, Fresh
<1>7. WalkOK'
  BY <1>0, <1>2, WalkElsewhere
<1> QED BY <1>0, <1>4, <1>6, <1>7, InStep

\* A step between two walks that changes no connection
LEMMA AsideKeepsIn ==
  ASSUME StreamInv, pc \in {"app", "ctl", "freeing", "freed"}, pc' \notin Handling,
         sock' = sock, \A d \in Conn : Steady(d)
  PROVE  InOK' /\ WalkOK'
<1>1. \A d \in Conn : SameIn(d)
  BY NoneSpoiled DEF SameIn
<1> QED BY <1>1, StreamParts, InStep, WalkElsewhere

LEMMA CtlKeepsIn == ASSUME StreamInv, HandleCtlSock PROVE InOK' /\ WalkOK'
<1> DEFINE told == {c \in ToSet(list) : ~Is(c, "LISTENING") /\ put[c] < prog.out}
<1>1. /\ sock' = sock /\ took' = took /\ pc = "ctl" /\ pc' = "conn" /\ "conn" \notin Handling
      /\ conn' = [c \in Conn |-> IF c \in told
                    THEN [conn[c] EXCEPT !.send = AppendTo(conn[c].send, <<put[c] + 1>>)] ELSE conn[c]]
  BY DEF HandleCtlSock, Handling
<1> HIDE DEF told
<1>2. ASSUME NEW d \in Conn PROVE Steady(d)
  <2> DEFINE y == AppendTo(conn[d].send, <<put[d] + 1>>)
             q == [conn[d] EXCEPT !.send = y]
  <2>1. conn'[d] = IF d \in told THEN q ELSE conn[d]
    BY <1>1
  <2>2. conn[d] \in ConnRec
    BY StreamParts, Typed
  <2> HIDE DEF y
  <2>3. q.st = conn[d].st /\ q.flags = conn[d].flags /\ q.recv = conn[d].recv
    BY <2>2 DEF ConnRec
  <2> HIDE DEF q
  <2> QED BY <1>1, <2>1, <2>3 DEF Steady
<1> QED BY <1>1, <1>2, AsideKeepsIn

LEMMA SelectKeepsIn == ASSUME StreamInv, AppFrees \/ Select PROVE InOK' /\ WalkOK'
<1>1. conn' = conn /\ took' = took /\ sock' = sock /\ pc = "app" /\ pc' \in {"app", "ctl", "conn"}
  BY DEF AppFrees, Select, History
<1>2. pc' \notin Handling /\ \A d \in Conn : Steady(d)
  BY <1>1 DEF Handling, Steady
<1> QED BY <1>1, <1>2, AsideKeepsIn

LEMMA HandleConnectingKeepsIn == ASSUME StreamInv, HandleConnecting PROVE InOK' /\ WalkOK'
<1>0. /\ StructureInv /\ LogOK /\ InOK /\ WalkOK /\ cur \in Live /\ cur \in Conn /\ sock' = sock
      /\ pc = "conn" /\ pc' = "read" /\ cur # None /\ cur' = cur /\ list' = list /\ next' = After(cur)
      /\ pc \notin Handling
  BY StreamParts, Typed DEF HandleConnecting, Live, Handling
<1>1. WalkOK'
  BY <1>0, AfterIsBehind DEF WalkOK, Behind
<1>2. \A d \in Conn : SameIn(d)
  <2>1. Proceeds /\ Prepended
    BY <1>0 DEF Proceeds, Prepended, Handling
  <2> QED BY <1>0, <2>1, PastGoesOn DEF SameIn, Spoiled
<1>3. ~Past(cur)
  BY <1>0, NotPastYet
<1>4. ASSUME NEW err \in BOOLEAN, Connected(cur, err) PROVE InOK'
  <2>1. PICK r \in ConnRec : /\ Alike(conn[cur], r) /\ r.recv = conn[cur].recv
                             /\ Call(cur, r, IF err THEN "CONNECT_FAILED" ELSE "CONNECT")
    BY <1>0, <1>4, ConnectedCalls
  <2>2. (IF err THEN "CONNECT_FAILED" ELSE "CONNECT") \in Events
    BY DEF Events
  <2>3. "UDP" \notin conn[cur].flags /\ sock'[cur].st \in Working
          => took[cur] \o r.recv \o sock'[cur].rx = UpTo(sock'[cur].in)
    BY <1>0, <1>3, <2>1 DEF InOK, Kept, Spoiled, Whole, Live, Working
  <2> QED BY <1>0, <1>2, <2>1, <2>2, <2>3, UseKeepsIn
<1>5. (~Is(cur, "UDP") /\ sock[cur].st \in {"refused", "reset"}) \in BOOLEAN /\ TRUE \in BOOLEAN
  OBVIOUS
<1>6. \/ Connected(cur, ~Is(cur, "UDP") /\ sock[cur].st \in {"refused", "reset"})
      \/ Connected(cur, TRUE) \/ UNCHANGED <<conn, History>>
  BY DEF HandleConnecting
<1>7. CASE UNCHANGED <<conn, History>>
  BY <1>0, <1>1, <1>2, <1>7, QuietKeepsIn DEF History
<1> QED BY <1>1, <1>4, <1>5, <1>6, <1>7

LEMMA FlaggedKeepsIn ==
  ASSUME StructureInv, InOK, NEW c \in Live, NEW f \in Modifiable, Flagged(c, f), sock' = sock,
         "UDP" \notin conn[c].flags /\ sock[c].st \in Working => Whole(c),
         \A d \in Conn \ {c} : SameIn(d)
  PROVE  InOK'
<1> DEFINE g == conn[c].flags \cup {f}
           q == [conn[c] EXCEPT !.flags = g]
<1>1. c \in Conn /\ conn[c] \in ConnRec /\ conn \in [Conn -> ConnRec] /\ conn[c].st = "live"
  BY Typed DEF Live
<1>2. g \in SUBSET Flags /\ ("UDP" \in g <=> "UDP" \in conn[c].flags)
      /\ ("LISTENING" \in g <=> "LISTENING" \in conn[c].flags)
  BY <1>1 DEF ConnRec, Modifiable, Flags
<1>3. conn' = [conn EXCEPT ![c] = q] /\ took' = took
  BY <1>1 DEF Flagged
<1>q. q = [conn[c] EXCEPT !.flags = g]
  OBVIOUS
<1> HIDE DEF q, g
<1>4. Alike(conn[c], q) /\ q.recv = conn[c].recv
  BY <1>1, <1>2, <1>q, Flagging
<1>5. conn'[c] = q /\ \A d \in Conn \ {c} : Steady(d)
  BY <1>1, <1>3 DEF Steady
<1>6. Whole(c) => Whole(c)'
  BY <1>3, <1>4, <1>5 DEF Whole, UpTo
<1>7. Kept(c)'
  BY <1>1, <1>4, <1>5, <1>6 DEF Kept, Alike, Working
<1> QED BY <1>5, <1>7, InStep

\* A stretch of the stream leaves the kernel: for the buffer, or for nothing.
LEMMA ReadKeepsIn ==
  ASSUME StructureInv, LogOK, InOK, NEW c \in Live, "UDP" \notin conn[c].flags, ~Past(c), Past(c)',
         NEW n \in 1 .. Len(sock[c].rx), sock'[c].rx = DropBytes(sock[c].rx, n),
         Received(c, SubSeq(sock[c].rx, 1, n)), sock'[c].in = sock[c].in, sock'[c].st = sock[c].st,
         \A d \in Conn \ {c} : SameIn(d)
  PROVE  InOK'
<1> DEFINE b == SubSeq(sock[c].rx, 1, n)
           y == AppendTo(conn[c].recv, b)
           f == IF b = <<>> THEN "freed" ELSE conn[c].buf
           q == [conn[c] EXCEPT !.recv = y, !.buf = f]
<1>1. /\ c \in Conn /\ conn[c] \in ConnRec /\ conn[c].recv \in Seq(Nat) /\ conn[c].st = "live"
      /\ sock[c].rx \in Seq(Nat) /\ took[c] \in Seq(Nat)
      /\ f \in {"own", "freed"}
  BY Typed DEF ConnRec, Live, StructureInv, WaitingOK, LogOK
<1>2. b \in Seq(Nat) /\ DropBytes(sock[c].rx, n) \in Seq(Nat) /\ b \o DropBytes(sock[c].rx, n) = sock[c].rx
  BY <1>1, Cut
<1>3. IF Is(c, "CLOSE_IMMEDIATELY") THEN UNCHANGED <<conn, History>> ELSE Call(c, q, "RECV")
  BY DEF Received
<1> HIDE DEF b
<1>r. conn[c].recv \in Seq(Nat) /\ b \in Seq(Nat) /\ 0 \in Nat /\ conn[c] \in ConnRec
  BY <1>1, <1>2
<1>4. y = conn[c].recv \o b /\ y \in Seq(Nat)
  BY <1>r, Bytes
<1>q. q = [conn[c] EXCEPT !.recv = y, !.buf = f]
  OBVIOUS
<1> HIDE DEF q, y, f
<1>s. conn[c] \in ConnRec /\ y \in Seq(Nat) /\ f \in {"own", "freed"}
  BY <1>1, <1>r, <1>4
<1>5. q \in ConnRec /\ Alike(conn[c], q) /\ q.recv = y
  BY <1>s, <1>q DEF ConnRec, Alike
<1>6. CASE Is(c, "CLOSE_IMMEDIATELY")
  <2>1. conn' = conn /\ took' = took
    BY <1>3, <1>6 DEF History
  <2>2. Kept(c)'
    BY <1>1, <1>6, <2>1 DEF Kept, Spoiled, Is
  <2> QED BY <2>1, <2>2, InStep DEF Steady
<1>7. CASE ~Is(c, "CLOSE_IMMEDIATELY")
  <2>1. ASSUME sock'[c].st \in Working PROVE took[c] \o q.recv \o sock'[c].rx = UpTo(sock'[c].in)
    <3>1. took[c] \o conn[c].recv \o sock[c].rx = UpTo(sock[c].in)
      BY <1>1, <2>1 DEF InOK, Kept, Spoiled, Whole, Working
    <3>2. took[c] \o (conn[c].recv \o b) = (took[c] \o conn[c].recv) \o b
      BY <1>1, <1>2, Longer
    <3>3. took[c] \o conn[c].recv \in Seq(Nat)
      BY <1>1, ConcatProperties
    <3>4. (took[c] \o conn[c].recv) \o (b \o DropBytes(sock[c].rx, n))
            = ((took[c] \o conn[c].recv) \o b) \o DropBytes(sock[c].rx, n)
      BY <1>2, <3>3, Longer
    <3> QED BY <1>2, <1>4, <1>5, <3>1, <3>2, <3>4
  <2>2. "RECV" \in Events
    BY DEF Events
  <2> QED BY <1>3, <1>5, <1>7, <2>1, <2>2, UseKeepsIn
<1> QED BY <1>6, <1>7

LEMMA HandleReadKeepsIn == ASSUME StreamInv, HandleRead PROVE InOK' /\ WalkOK'
<1>0. /\ StructureInv /\ LogOK /\ InOK /\ WalkOK /\ pc = "read" /\ cur \in Live /\ cur \in Conn
      /\ cur # None /\ pc \in Handling /\ cur' = cur /\ next' = next
      /\ pc' \in {"write", "datagram", "crashed"}
  BY StreamParts DEF HandleRead, StructureInv, CursorOK, Handling, Live, UdpRead, Accept, TcpRead
<1>1. Prepended
  BY <1>0 DEF HandleRead, UdpRead, Accept, TcpRead, Prepended, Blank
<1>2. WalkOK'
  BY <1>0, <1>1, WalkStep
<1>3. Proceeds
  BY <1>0 DEF Proceeds, Handling
<1>4. \A d \in Conn : Spoiled(d) => Past(d)'
  BY <1>0, <1>1, <1>3, PastGoesOn DEF Spoiled
<1>5. ~Past(cur)
  BY <1>0, NotPastYet
<1> SUFFICES InOK'
  BY <1>2
<1>6. CASE ~FdRead(cur)
  <2>1. conn' = conn /\ took' = took /\ sock' = sock
    BY <1>6 DEF HandleRead, History
  <2> QED BY <1>0, <1>4, <2>1, QuietKeepsIn DEF SameIn
<1>7. CASE UdpRead(cur) /\ Is(cur, "UDP")
  <2>1. /\ \A d \in Conn \ {cur} : sock'[d] = sock[d]
        /\ \/ UNCHANGED <<list, conn, History>>
           \/ \E e \in Blank, a \in Peer :
                /\ Is(cur, "LISTENING") /\ list' = <<e>> \o list
                /\ Call(e, NewConn(cur, {"UDP", "SEND_AND_CLOSE"}, cur, a), "ACCEPT")
    BY <1>0, <1>7, UdpReadMoves DEF Is
  <2>2. \A d \in Conn : SameIn(d)
    BY <1>4, <1>0, <1>7, <2>1 DEF SameIn, IsDatagram, Live
  <2>3. CASE UNCHANGED <<list, conn, History>>
    BY <1>0, <2>2, <2>3, QuietKeepsIn DEF History
  <2>4. ASSUME NEW e \in Blank, NEW a \in Peer,
               Call(e, NewConn(cur, {"UDP", "SEND_AND_CLOSE"}, cur, a), "ACCEPT")
        PROVE  InOK'
    <3> DEFINE g == {"UDP", "SEND_AND_CLOSE"}
               r == NewConn(cur, g, cur, a)
    <3>1. g \in SUBSET Flags /\ "CLOSE_IMMEDIATELY" \notin g /\ "UDP" \in g
      BY DEF Flags
    <3>2. Call(e, r, "ACCEPT")
      BY <2>4
    <3> HIDE DEF g
    <3>3. r \in ConnRec /\ Fresh(r) /\ r.flags = g
      BY <1>0, <3>1, FreshConn, FreedRec
    <3> HIDE DEF r
    <3> QED BY <1>0, <2>2, <3>1, <3>2, <3>3, EntersKeepsIn
  <2> QED BY <2>1, <2>3, <2>4
<1>8. CASE Accept(cur)
  <2>1. CASE UNCHANGED <<list, conn, History>> /\ \A d \in Conn : SameStream(d)
    BY <1>0, <1>4, <2>1, QuietKeepsIn DEF History, SameIn, SameStream
  <2>2. ASSUME NEW c \in Blank, Call(c, NewConn(c, {}, cur, None), "ACCEPT"),
               Empty(sock'[c]), \A d \in Conn \ {c} : SameStream(d)
        PROVE  InOK'
    <3> DEFINE g == {}
               r == NewConn(c, g, cur, None)
    <3>1. c \in Conn /\ g \in SUBSET Flags /\ "CLOSE_IMMEDIATELY" \notin g
      BY DEF Blank
    <3>2. Call(c, r, "ACCEPT")
      BY <2>2
    <3> HIDE DEF g
    <3>3. r \in ConnRec /\ Fresh(r)
      BY <1>0, <3>1, FreshConn
    <3> HIDE DEF r
    <3>4. \A d \in Conn \ {c} : SameIn(d)
      BY <1>4, <2>2 DEF SameIn, SameStream
    <3> QED BY <1>0, <2>2, <3>2, <3>3, <3>4, EntersKeepsIn
  <2> QED BY <1>0, <1>8, <2>1, <2>2, AcceptMoves
<1>9. CASE TcpRead(cur) /\ ~Is(cur, "UDP")
  <2>1. CASE sock' = sock /\ \E f \in Modifiable : Flagged(cur, f)
    <3>1. \A d \in Conn : SameIn(d)
      BY <1>4, <2>1 DEF SameIn
    <3>2. sock[cur].st \in Working => Whole(cur)
      BY <1>0, <1>5, <1>9 DEF InOK, Kept, Spoiled, Live, Is, Working
    <3> QED BY <1>0, <2>1, <3>1, <3>2, FlaggedKeepsIn
  <2>2. ASSUME NEW n \in 1 .. Len(sock[cur].rx), sock'[cur].rx = DropBytes(sock[cur].rx, n),
               Received(cur, SubSeq(sock[cur].rx, 1, n)), sock'[cur].in = sock[cur].in,
               sock'[cur].st = sock[cur].st, \A d \in Conn \ {cur} : SameStream(d)
        PROVE  InOK'
    <3>1. \A d \in Conn \ {cur} : SameIn(d)
      BY <1>4, <2>2 DEF SameIn, SameStream
    <3>2. pc' = "write" /\ "UDP" \notin conn[cur].flags
      BY <1>9 DEF TcpRead, Is
    <3>3. cur' = cur /\ pc' = "write" => \A c \in Conn : c = cur => Past(c)'
      BY DEF Past
    <3>4. \A c \in Conn : c = cur => Past(c)'
      BY <1>0, <3>2, <3>3
    <3> QED BY <1>0, <1>5, <2>2, <3>1, <3>2, <3>4, ReadKeepsIn
  <2> QED BY <1>0, <1>9, <2>1, <2>2, TcpReadMoves DEF Is
<1> QED BY <1>6, <1>7, <1>8, <1>9 DEF HandleRead

LEMMA HandleDatagramKeepsIn == ASSUME StreamInv, HandleDatagram PROVE InOK' /\ WalkOK'
<1> DEFINE c == got.to
           b == got.data
           y == AppendTo(conn[c].recv, b)
           f == IF b = <<>> THEN "freed" ELSE conn[c].buf
           q == [conn[c] EXCEPT !.recv = y, !.buf = f]
<1>0. /\ StructureInv /\ LogOK /\ InOK /\ WalkOK /\ pc = "datagram" /\ pc' \in {"write", "crashed"} /\ cur' = cur
      /\ list' = list /\ next' = next /\ sock' = sock /\ pc \in Handling /\ cur # None
  BY StreamParts DEF HandleDatagram, StructureInv, CursorOK, Handling
<1>1. c \in Live /\ c \in Conn /\ b \in Seq(Nat) /\ "UDP" \in conn[c].flags
  BY <1>0, StreamParts DEF StructureInv, CursorOK, Incoming, Live, ReadyOK
<1>2. Prepended /\ Proceeds
  BY <1>0 DEF Prepended, Proceeds, Handling
<1>3. \A d \in Conn : SameIn(d)
  BY <1>0, <1>2, PastGoesOn DEF SameIn, Spoiled
<1>4. WalkOK'
  BY <1>0, <1>2, WalkStep
<1>5. UNCHANGED <<conn, History>> \/ Call(c, q, "RECV")
  BY DEF HandleDatagram, Received
<1>6. conn[c].recv \in Seq(Nat) /\ 0 \in Nat /\ conn[c] \in ConnRec
      /\ f \in {"own", "freed"}
  BY <1>0, <1>1, Typed DEF ConnRec
<1> HIDE DEF c, b
<1>7. y \in Seq(Nat)
  BY <1>1, <1>6, Bytes
<1>q. q = [conn[c] EXCEPT !.recv = y, !.buf = f]
  OBVIOUS
<1> HIDE DEF q, y, f
<1>8. q \in ConnRec /\ Alike(conn[c], q)
  BY <1>6, <1>7, <1>q DEF ConnRec, Alike
<1>9. CASE Call(c, q, "RECV")
  <2>1. InOK'
    BY <1>0, <1>1, <1>3, <1>8, <1>9, UseKeepsIn DEF Events
  <2> QED BY <1>4, <2>1
<1>10. CASE UNCHANGED <<conn, History>>
  <2>1. InOK'
    BY <1>0, <1>3, <1>10, QuietKeepsIn DEF History
  <2> QED BY <1>4, <2>1
<1> QED BY <1>5, <1>9, <1>10

LEMMA HandleWriteKeepsIn == ASSUME StreamInv, HandleWrite PROVE InOK' /\ WalkOK'
<1> DEFINE s == SockOf(cur)
           len == Len(conn[cur].send)
<1>0. /\ StructureInv /\ LogOK /\ InOK /\ WalkOK /\ pc = "write" /\ cur \in Live /\ cur \in Conn
      /\ cur # None /\ pc \in Handling /\ list' = list /\ next' = next
      /\ conn[cur].send \in Seq(Nat) /\ conn[cur].st = "live"
  BY StreamParts, Typed DEF HandleWrite, StructureInv, CursorOK, Handling, Live, ConnRec
<1>p. Prepended
  BY <1>0 DEF Prepended
<1>1. CASE Is(cur, "CLOSE_IMMEDIATELY")
  <2>1. cur' = next /\ pc' = "conn" /\ conn' = conn /\ sock' = sock /\ took' = took
    BY <1>1 DEF HandleWrite, Advance, History
  <2>2. Proceeds
    BY <1>0, <2>1 DEF Proceeds
  <2>3. \A d \in Conn : SameIn(d)
    BY <1>0, <1>p, <2>1, <2>2, PastGoesOn DEF SameIn, Spoiled
  <2>4. WalkOK'
    BY <2>1, WalkElsewhere DEF Handling
  <2>5. InOK'
    BY <1>0, <2>1, <2>3, QuietKeepsIn
  <2> QED BY <2>4, <2>5
<1>2. CASE ~Is(cur, "CLOSE_IMMEDIATELY")
  <2>1. cur' = cur /\ pc' = "poll"
    BY <1>2 DEF HandleWrite
  <2>2. Proceeds
    BY <1>0, <2>1 DEF Proceeds, Handling
  <2>3. \A d \in Conn : Spoiled(d) => Past(d)'
    BY <1>0, <1>2, <1>p, <2>1, <2>2, PastGoesOn DEF Spoiled, Is
  <2>4. WalkOK'
    BY <1>0, <1>p, <2>1, WalkStep
  <2>5. "UDP" \notin conn[cur].flags /\ sock[cur].st \in Working => Whole(cur)
    BY <1>0, <1>2 DEF InOK, Kept, Spoiled, Is, Working
  <2> SUFFICES InOK'
    BY <2>4
  <2>6. CASE UNCHANGED <<conn, sock, History>>
    BY <1>0, <2>3, <2>6, QuietKeepsIn DEF SameIn, History
  <2>7. CASE FdWrite(cur) /\ conn[cur].send # <<>> /\ WriteToSocket(cur)
    <3>1. s \in Conn /\ sock[s].room \in Nat /\ len \in Nat /\ len # 0
      BY <1>0, <2>7, Typed, LenProperties, EmptySeq DEF FdWrite, FdsRec, SockRec
    <3>2. ASSUME NEW n \in 1 .. len, Wrote(cur, s, n), IsDatagram(s) \/ n <= sock[s].room
          PROVE  InOK'
      <4>1. /\ sock'[s].st = sock[s].st /\ sock'[s].rx = sock[s].rx /\ sock'[s].in = sock[s].in
            /\ \A d \in Conn \ {s} : sock'[d] = sock[d]
            /\ \E r \in ConnRec : Alike(conn[cur], r) /\ r.recv = conn[cur].recv /\ Call(cur, r, "SEND")
        BY <1>0, <3>1, <3>2, WroteMoves
      <4>2. PICK r \in ConnRec : Alike(conn[cur], r) /\ r.recv = conn[cur].recv /\ Call(cur, r, "SEND")
        BY <4>1
      <4> HIDE DEF s
      <4>3. \A d \in Conn : sock'[d].st = sock[d].st /\ sock'[d].rx = sock[d].rx /\ sock'[d].in = sock[d].in
        BY <4>1
      <4>4. \A d \in Conn : SameIn(d)
        BY <2>3, <4>3 DEF SameIn
      <4>5. "UDP" \notin conn[cur].flags /\ sock'[cur].st \in Working
              => took[cur] \o r.recv \o sock'[cur].rx = UpTo(sock'[cur].in)
        BY <1>0, <2>5, <4>2, <4>3 DEF Whole
      <4>6. "SEND" \in Events
        BY DEF Events
      <4> QED BY <1>0, <4>2, <4>4, <4>5, <4>6, UseKeepsIn
    <3>3. CASE IsDatagram(s) /\ Wrote(cur, s, len)
      <4>1. len \in 1 .. len
        BY <3>1
      <4> QED BY <3>2, <3>3, <4>1
    <3>4. ASSUME NEW n \in 1 .. (IF len < sock[s].room THEN len ELSE sock[s].room), Wrote(cur, s, n)
          PROVE  InOK'
      <4>1. n \in 1 .. len /\ n <= sock[s].room
        BY <3>1
      <4> QED BY <3>2, <3>4, <4>1
    <3>5. CASE SendtoFails(s)
      <4>1. conn' = conn /\ took' = took
            /\ \A d \in Conn : sock'[d] = sock[d] \/ sock'[d].st = "spent"
        BY <1>0, <3>1, <3>5, SendtoFailsKeeps DEF History
      <4>2. \A d \in Conn : SameIn(d)
        BY <2>3, <4>1 DEF SameIn, Working
      <4> QED BY <1>0, <4>1, <4>2, QuietKeepsIn
    <3>6. CASE Flagged(cur, "CLOSE_IMMEDIATELY") /\ sock' = sock
      <4>2. \A d \in Conn : SameIn(d)
        BY <2>3, <3>6 DEF SameIn
      <4>3. "CLOSE_IMMEDIATELY" \in Modifiable
        BY DEF Modifiable
      <4> QED BY <1>0, <2>5, <3>6, <4>2, <4>3, FlaggedKeepsIn
    <3> QED BY <2>6, <2>7, <3>3, <3>4, <3>5, <3>6 DEF WriteToSocket
  <2> QED BY <1>2, <2>6, <2>7 DEF HandleWrite
<1> QED BY <1>1, <1>2

LEMMA PollAndTimerKeepIn == ASSUME StreamInv, HandlePoll \/ HandleTimer PROVE InOK' /\ WalkOK'
<1>0. /\ StructureInv /\ LogOK /\ InOK /\ WalkOK /\ pc \in {"poll", "timer"} /\ cur \in Live /\ cur \in Conn
      /\ cur # None /\ pc \in Handling /\ list' = list /\ next' = next /\ sock' = sock
      /\ \/ cur' = next /\ pc' = "conn"
         \/ cur' = cur /\ pc' = "timer"
      /\ \E ev \in Events : Call(cur, conn[cur], ev)
  BY StreamParts DEF HandlePoll, HandleTimer, Advance, StructureInv, CursorOK, Handling, Live, Events
<1>1. Prepended /\ Proceeds
  BY <1>0 DEF Prepended, Proceeds, Handling
<1>2. \A d \in Conn : SameIn(d)
  BY <1>0, <1>1, PastGoesOn DEF SameIn, Spoiled
<1>3. WalkOK'
  <2>1. CASE cur' = next /\ pc' = "conn"
    BY <2>1, WalkElsewhere DEF Handling
  <2>2. CASE cur' = cur
    BY <1>0, <1>1, <2>2, WalkStep
  <2> QED BY <1>0, <2>1, <2>2
<1>4. ~Past(cur)
  BY <1>0, NotPastYet DEF Handling
<1>5. "UDP" \notin conn[cur].flags /\ sock'[cur].st \in Working
        => took[cur] \o conn[cur].recv \o sock'[cur].rx = UpTo(sock'[cur].in)
  BY <1>0, <1>4 DEF InOK, Kept, Spoiled, Whole, Live, Working
<1>6. conn[cur] \in ConnRec /\ Alike(conn[cur], conn[cur])
  BY <1>0, Typed DEF Alike
<1>7. InOK'
  BY <1>0, <1>2, <1>5, <1>6, UseKeepsIn
<1> QED BY <1>3, <1>7

\* Whoever is closed receives nothing more.
LEMMA CloseKeepsIn ==
  ASSUME StructureInv, InOK, NEW i \in 1 .. Len(list), NEW there, CloseConn(i, there), holder' = holder,
         \A d \in Conn : Spoiled(d) => Past(d)'
  PROVE  InOK'
<1>1. /\ list[i] \in Live /\ conn'[list[i]] = Freed
      /\ \A d \in Conn \ {list[i]} : conn'[d] = conn[d] /\ sock'[d] = sock[d]
  BY CloseKeeps
<1>2. took' = took
  BY DEF CloseConn
<1>3. ASSUME NEW d \in Conn, d = list[i] PROVE Kept(d)'
  BY <1>1, <1>3, FreedRec DEF Kept
<1>4. ASSUME NEW d \in Conn, d # list[i] PROVE Steady(d) /\ SameIn(d)
  BY <1>1, <1>2, <1>4 DEF Steady, SameIn
<1> QED BY <1>3, <1>4, InStep

LEMMA SweepKeepsIn == ASSUME StreamInv, Sweep PROVE InOK' /\ WalkOK'
<1> DEFINE doomed == {i \in DOMAIN list : Doomed(list[i])}
<1>0. StructureInv /\ InOK
  BY StreamParts
<1>1. CASE doomed = {} /\ pc' \in {"app", "freeing"} /\ UNCHANGED <<conn, sock, took>>
  <2>1. ASSUME NEW d \in Live PROVE "CLOSE_IMMEDIATELY" \notin conn[d].flags
    <3>1. PICK j \in DOMAIN list : list[j] = d
      BY <1>0 DEF StructureInv, ListOK, ToSet
    <3> QED BY <1>1, <3>1 DEF Doomed, Is
  <2>2. ASSUME NEW d \in Conn PROVE Kept(d)'
    <3>1. Kept(d)
      BY <1>0 DEF InOK
    <3>2. conn[d].st = "live" => ~Spoiled(d)
      BY <2>1 DEF Live, Spoiled
    <3>3. Whole(d) => Whole(d)'
      BY <1>1 DEF Whole, UpTo
    <3> QED BY <1>1, <3>1, <3>2, <3>3 DEF Kept
  <2>3. InOK'
    BY <2>2 DEF InOK
  <2>4. WalkOK'
    BY <1>1, WalkElsewhere DEF Handling
  <2> QED BY <2>3, <2>4
<1>2. ASSUME NEW i \in DOMAIN list, CloseConn(i, "sweep"), holder' = holder PROVE InOK' /\ WalkOK'
  <2>1. i \in 1 .. Len(list)
    BY <1>0, Typed, LenProperties
  <2>0. pc' \in {"sweep", "crashed"}
    BY <1>2 DEF CloseConn
  <2>2. \A d \in Conn : Past(d)'
    BY <2>0 DEF Past
  <2>3. InOK'
    BY <1>0, <1>2, <2>1, <2>2, CloseKeepsIn
  <2>4. WalkOK'
    BY <2>0, WalkElsewhere DEF Handling
  <2> QED BY <2>3, <2>4
<1> QED BY <1>1, <1>2 DEF Sweep

LEMMA FreeKeepsIn == ASSUME StreamInv, Free PROVE InOK' /\ WalkOK'
<1>0. StructureInv /\ InOK /\ pc = "freeing" /\ pc' \in {"freeing", "freed", "crashed"}
      /\ holder' = holder
  BY StreamParts DEF Free, CloseConn
<1>1. WalkOK'
  BY <1>0, WalkElsewhere DEF Handling
<1>2. CASE UNCHANGED <<conn, list, sock, History>>
  <2>1. \A d \in Conn : SameIn(d)
    BY <1>0, <1>2, NoneSpoiled DEF SameIn
  <2>2. conn' = conn /\ took' = took
    BY <1>2 DEF History
  <2> QED BY <1>0, <1>1, <2>1, <2>2, QuietKeepsIn
<1>3. CASE list # <<>> /\ CloseConn(1, pc)
  <2>1. 1 \in 1 .. Len(list)
    <3>1. list \in Seq(Conn) /\ Len(list) \in Nat /\ Len(list) # 0
      BY <1>0, <1>3, Typed, LenProperties, EmptySeq
    <3> QED BY <3>1
  <2>2. InOK'
    BY <1>0, <1>3, <2>1, NoneSpoiled, CloseKeepsIn
  <2> QED BY <1>1, <2>2
<1> QED BY <1>2, <1>3 DEF Free

\* The next byte of a stream
LEMMA ArrivalKeeps ==
  ASSUME StructureInv, LogOK, InOK, NEW s \in Conn, ~IsDatagram(s), conn' = conn, took' = took,
         Spoiled(s) => Past(s)', sock[s].st = "up",
         sock'[s].rx = Append(sock[s].rx, sock[s].in + 1), sock'[s].in = sock[s].in + 1
  PROVE  Kept(s)'
<1>1. Kept(s)
  BY DEF InOK
<1>2. ASSUME conn[s].st = "live", Whole(s) PROVE Whole(s)'
  <2> DEFINE a == took[s] \o conn[s].recv
             k == sock[s].in
             b == <<k + 1>>
  <2>1. /\ sock[s].rx \in Seq(Nat) /\ took[s] \in Seq(Nat) /\ conn[s].recv \in Seq(Nat) /\ k \in Nat
    BY <1>2, Typed DEF StructureInv, WaitingOK, IsDatagram, Is, LogOK, ConnRec, SockRec
  <2>2. a \in Seq(Nat) /\ b \in Seq(Nat)
    BY <2>1, ConcatProperties
  <2>3. a \o sock[s].rx = UpTo(k)
    BY <1>2 DEF Whole
  <2>4. UpTo(k) \o b = UpTo(k + 1)
    BY <2>1, NextNumber
  <2>5. Append(sock[s].rx, k + 1) = sock[s].rx \o b
    <3>1. sock[s].rx \in Seq(Nat) /\ k + 1 \in Nat
      BY <2>1
    <3> HIDE DEF k
    <3> QED BY <3>1, AppendIsConcat
  <2>6. took'[s] \o conn'[s].recv = a /\ sock'[s].rx = sock[s].rx \o b /\ sock'[s].in = k + 1
    BY <2>5
  <2> HIDE DEF a, b, k
  <2>7. a \o (sock[s].rx \o b) = (a \o sock[s].rx) \o b
    BY <2>1, <2>2, Longer
  <2>8. took'[s] \o conn'[s].recv \o sock'[s].rx = UpTo(sock'[s].in)
    BY <2>3, <2>4, <2>6, <2>7
  <2> QED BY <2>8 DEF Whole, UpTo
<1>3. Spoiled(s) => Spoiled(s)'
  BY DEF Spoiled
<1>4. (conn[s].st = "blank" => took[s] = <<>>)'
  BY <1>1 DEF Kept
<1> QED BY <1>1, <1>2, <1>3, <1>4 DEF Kept

LEMMA WorldKeepsIn == ASSUME StreamInv, World PROVE InOK' /\ WalkOK'
<1>0. /\ StructureInv /\ LogOK /\ InOK /\ WalkOK /\ conn' = conn /\ took' = took /\ list' = list
      /\ pc' = pc /\ cur' = cur /\ next' = next
  BY StreamParts DEF World, IoState, History
<1>1. Prepended /\ Proceeds
  BY <1>0 DEF Prepended, Proceeds
<1>2. \A d \in Conn : Spoiled(d) => Past(d)'
  BY <1>0, <1>1, PastGoesOn DEF Spoiled
<1>3. WalkOK'
  BY <1>0, <1>1, WalkStep
<1>4. sock' = sock \/ \E s \in Conn, q \in SockRec : SocketTurn(s, q)
  BY <1>0, EstablishTurns, PeerConnectsTurns, PeerSendsTurns, PeerReadsTurns, PeerClosesTurns,
     PeerResetsTurns DEF World
<1>5. CASE sock' = sock
  <2>1. InOK'
    BY <1>0, <1>2, <1>5, QuietKeepsIn DEF SameIn
  <2> QED BY <1>3, <2>1
<1>6. ASSUME NEW s \in Conn, NEW q \in SockRec, SocketTurn(s, q) PROVE InOK'
  <2>1. sock'[s] = q /\ \A d \in Conn \ {s} : sock'[d] = sock[d]
    BY <1>0, <1>6, Typed DEF SocketTurn
  <2>2. \A d \in Conn : Steady(d)
    BY <1>0 DEF Steady
  <2>3. \A d \in Conn \ {s} : SameIn(d)
    BY <1>2, <2>1 DEF SameIn
  <2>4. SameIn(s) \/ Kept(s)'
    <3>1. CASE IsDatagram(s)
      BY <3>1 DEF SameIn
    <3>2. CASE ~IsDatagram(s) /\ sock[s].st = "up" /\ q.rx = Append(sock[s].rx, sock[s].in + 1)
               /\ q.in = sock[s].in + 1
      BY <1>0, <1>2, <2>1, <3>2, ArrivalKeeps
    <3>3. CASE ~(q.st \in Working)
               \/ (q.rx = sock[s].rx /\ q.in = sock[s].in /\ (q.st \in Working => sock[s].st \in Working))
      BY <1>2, <2>1, <3>3 DEF SameIn
    <3> QED BY <1>6, <3>1, <3>2, <3>3 DEF SocketTurn, Arrives, Working
  <2> QED BY <1>0, <2>2, <2>3, <2>4, InStep
<1> QED BY <1>3, <1>4, <1>5, <1>6

LEMMA StreamsHoldFirst == ASSUME Init PROVE WalkOK /\ InOK
<1> DEFINE b == [NewConn(None, {}, None, None) EXCEPT !.st = "blank"]
<1>1. conn = [c \in Conn |-> b] /\ took = [c \in Conn |-> <<>>] /\ pc = "app"
  BY DEF Init
<1>2. b.st = "blank"
  BY FreedRec DEF ConnRec
<1> HIDE DEF b
<1> QED BY <1>1, <1>2 DEF WalkOK, Handling, InOK, Kept

LEMMA StreamsKeep == ASSUME StreamInv, [Next]_vars PROVE StreamInv'
<1>1. ProtocolInv' /\ AccountInv'
  BY StreamParts, ProtocolKeeps, AccountKeeps DEF StreamInv
<1>2. CASE UNCHANGED vars
  <2>1. /\ StructureInv /\ InOK /\ WalkOK /\ Prepended /\ Proceeds /\ conn' = conn /\ took' = took /\ sock' = sock
        /\ pc' = pc /\ cur' = cur /\ next' = next
    BY <1>2, StreamParts DEF vars, Prepended, Proceeds
  <2>2. \A d \in Conn : SameIn(d)
    BY <2>1, PastGoesOn DEF SameIn, Spoiled
  <2> QED BY <1>1, <2>1, <2>2, QuietKeepsIn, WalkStep DEF StreamInv
<1>3. CASE Next
  BY <1>1, <1>3, AppCallsKeepIn, SelectKeepsIn, CtlKeepsIn, HandleConnectingKeepsIn, HandleReadKeepsIn,
     HandleDatagramKeepsIn, HandleWriteKeepsIn, PollAndTimerKeepIn, SweepKeepsIn, FreeKeepsIn,
     WorldKeepsIn DEF Next, IoThread, StreamInv
<1> QED BY <1>2, <1>3

LEMMA StreamsAreIntact == ASSUME StreamInv PROVE StreamsIntact
<1> SUFFICES ASSUME NEW c \in Live, sock[c].st = "up", ~Is(c, "UDP"), ~Is(c, "CLOSE_IMMEDIATELY")
             PROVE  /\ took[c] \o conn[c].recv \o sock[c].rx = UpTo(sock[c].in)
                    /\ sock[c].tx \o conn[c].send = UpTo(put[c])
                    /\ \A e \in sock[c].alien \cap Live : IsFake(e) /\ conn[conn[e].listener].st = "freed"
  BY DEF StreamsIntact
<1>1. StructureInv /\ InOK /\ OutOK /\ c \in Conn /\ conn[c].st = "live"
  BY StreamParts DEF Live
<1>2. Whole(c)
  BY <1>1 DEF InOK, Kept, Spoiled, Is
<1>3. conn[c].sock = c
  <2>1. sock[c] # NoSocket
    BY FreedRec
  <2> QED BY <1>1, <2>1 DEF StructureInv, SocketOK
<1>4. sock[c].tx \o conn[c].send = UpTo(put[c])
  BY <1>1, <1>3 DEF OutOK, Paid, Is
<1>5. ASSUME NEW e \in sock[c].alien \cap Live
      PROVE  IsFake(e) /\ conn[conn[e].listener].st = "freed"
  <2>1. MayWrite(e, c)
    BY <1>1 DEF StructureInv, AliensOK
  <2>2. e \in Conn /\ conn[e].st = "live"
    BY DEF Live
  <2>3. conn[e].listener # c
    BY <1>1, <2>1, <2>2 DEF MayWrite, StructureInv, SocketOK, Is
  <2> QED BY <2>1, <2>2, <2>3 DEF MayWrite, IsFake, Is
<1> QED BY <1>2, <1>4, <1>5 DEF Whole

\* On a stream that works no byte is lost, doubled or moved, in either direction, whatever
\* the handlers flag and consume, the peers send and the kernel takes.
THEOREM StreamsStayIntact == Spec => []StreamsIntact
<1>1. Init => StreamInv
  BY StructureHoldsFirst, StoryHoldsFirst, AccountHoldsFirst, StreamsHoldFirst DEF StreamInv, ProtocolInv
<1>2. StreamInv /\ [Next]_vars => StreamInv'
  BY StreamsKeep
<1>3. StreamInv => StreamsIntact
  BY StreamsAreIntact
<1> QED BY <1>1, <1>2, <1>3, PTL DEF Spec
=============================================================================
