-------------------------- MODULE WebServerProofs --------------------------
(***************************************************************************)
(* What is proved of web/server.c for every number of clients, pages,      *)
(* queued connections and descriptors: its types, that a client is         *)
(* answered with the response to its own request, and why it stops.        *)
(***************************************************************************)
EXTENDS WebServer, SequenceTheorems, TLAPS

\* Where Handle_Http sends to the client it has read a request of, with what the client
\* has received by then.
Answering == {"open", "stat", "headers", "sendfile", "hello"}
Serving == Answering \cup {"recv", "close"}

\* What the client being served has received: nothing up to the first send.
GotSoFar ==
  IF srv = "sendfile" THEN <<<<"headers", url>>>>
  ELSE IF srv = "close" THEN Response(url) ELSE <<>>

\* The server's variables agree with the place it is at.
PlaceOK ==
  /\ srv = "accept" => accept_fd = NoClient
  /\ srv \in Serving => accept_fd \in Client
  /\ srv \in {"open", "stat", "headers", "sendfile"} => url \in Page
  /\ srv = "hello" => url = Other
  /\ srv = "close" => url \in Url

\* A connection waits once, is not the one being served, and has received nothing.
Waiting(c) ==
  /\ c # accept_fd
  /\ conn[c] \in {"connected"} \cup Gone
  /\ conn[c] = "connected" => got[c] = <<>>
QueueOK ==
  /\ \A i, j \in DOMAIN queue : queue[i] = queue[j] => i = j
  /\ \A i \in DOMAIN queue : Waiting(queue[i])

\* The client being served, while it is there: its request and what it has received.
ServedOK ==
  srv \in Serving =>
    /\ conn[accept_fd] \in {"connected"} \cup Gone
    /\ conn[accept_fd] = "connected" =>
         /\ srv # "recv" => asked[accept_fd] = url
         /\ got[accept_fd] = GotSoFar

\* The descriptors: the listening socket, the connection, and each file ever opened.
FdsOK == Running => fds = 1 + opened + (IF srv = "accept" THEN 0 ELSE 1)

\* While the server runs a connection ends early by the client's doing only.
GoneOK == Running => \A c \in Client : conn[c] \in Gone => trouble

ServerInv ==
  /\ TypeOK /\ OwnResponse /\ StopsOnlyInTrouble
  /\ PlaceOK /\ QueueOK /\ ServedOK /\ FdsOK /\ GoneOK
-----------------------------------------------------------------------------
\* Two parts, one after the other.
LEMMA AppendPart ==
  ASSUME NEW a, NEW b
  PROVE  Append(<<a>>, b) = <<a, b>>
<1>1. <<a>> \in Seq({a, b}) /\ <<a, b>> \in Seq({a, b})
  OBVIOUS
<1>2. /\ Append(<<a>>, b) \in Seq({a, b}) /\ Len(Append(<<a>>, b)) = 2
      /\ Append(<<a>>, b)[1] = a /\ Append(<<a>>, b)[2] = b
  BY <1>1, AppendProperties
<1>3. Len(<<a, b>>) = 2 /\ <<a, b>>[1] = a /\ <<a, b>>[2] = b
  OBVIOUS
<1>4. \A i \in 1..2 : Append(<<a>>, b)[i] = <<a, b>>[i]
  BY <1>2, <1>3
<1> QED BY <1>1, <1>2, <1>3, <1>4, SeqEqual

LEMMA InitServer == Init => ServerInv
<1> SUFFICES ASSUME Init PROVE ServerInv
  OBVIOUS
<1>1. TypeOK
  <2>1. queue \in Seq(Client) /\ Len(queue) <= Backlog
    BY LimitAssumption, EmptySeq DEF Init
  <2>2. got \in [Client -> Seq({"headers", "body"} \X Url)]
    BY EmptySeq DEF Init
  <2>3. fds \in 1..FdLimit /\ opened \in Nat
    BY LimitAssumption DEF Init
  <2> QED BY <2>1, <2>2, <2>3 DEF Init, TypeOK
<1>2. QueueOK
  BY EmptySeq DEF Init, QueueOK
<1> QED BY <1>1, <1>2
        DEF Init, ServerInv, OwnResponse, StopsOnlyInTrouble, PlaceOK, ServedOK, FdsOK,
            GoneOK, Running, Gone, Serving, Answering

\* exit() with a reason: nothing is served any more.
LEMMA ExitKeeps ==
  ASSUME ServerInv, Exit, trouble' \in BOOLEAN, trouble => trouble',
         trouble' \/ opened >= FdLimit - 2
  PROVE  ServerInv'
<1>1. TypeOK'
  BY LimitAssumption DEF ServerInv, TypeOK, Exit, Gone
<1>2. OwnResponse'
  BY DEF ServerInv, TypeOK, OwnResponse, Exit
<1>3. StopsOnlyInTrouble'
  BY DEF Exit, StopsOnlyInTrouble, Running
<1> QED BY <1>1, <1>2, <1>3
        DEF ServerInv, PlaceOK, QueueOK, ServedOK, FdsOK, GoneOK, Exit, Running, Serving, Answering

\* The server at work: nobody comes, asks or leaves, and the queue is as it was.
LEMMA WorkKeepsQueue ==
  ASSUME ServerInv, UNCHANGED <<queue, accept_fd, conn>>, srv \in Serving,
         \A c \in Client : c # accept_fd => got'[c] = got[c]
  PROVE  QueueOK'
BY DEF ServerInv, TypeOK, QueueOK, Waiting, PlaceOK

LEMMA AcceptKeeps == ServerInv /\ Accept => ServerInv'
<1> SUFFICES ASSUME ServerInv, Accept PROVE ServerInv'
  OBVIOUS
<1> USE DEF ServerInv
<1>1. /\ queue[1] \in Client /\ queue' = Tail(queue)
      /\ Tail(queue) \in Seq(Client) /\ Len(Tail(queue)) = Len(queue) - 1
      /\ Len(queue) \in Nat \ {0}
      /\ \A i \in 1..Len(queue) - 1 : Tail(queue)[i] = queue[i + 1]
  BY HeadTailProperties, EmptySeq, ElementOfSeq DEF Accept, TypeOK
<1>2. accept_fd' = queue[1]
  BY DEF Accept
<1>3. /\ DOMAIN queue = 1..Len(queue) /\ DOMAIN queue' = 1..Len(queue) - 1
  BY <1>1, LenProperties DEF TypeOK
<1>4. TypeOK'
  BY <1>1, <1>2, LimitAssumption DEF TypeOK, Accept, clientVars
<1>5. QueueOK'
  <2>1. \A i \in DOMAIN queue' : i + 1 \in DOMAIN queue /\ queue'[i] = queue[i + 1]
    BY <1>1, <1>3
  <2>2. ASSUME NEW i \in DOMAIN queue', NEW j \in DOMAIN queue', queue'[i] = queue'[j]
        PROVE  i = j
    BY <2>1, <2>2, <1>1, <1>3 DEF QueueOK
  <2>3. ASSUME NEW i \in DOMAIN queue', NEW c, c = queue'[i] PROVE Waiting(c)'
    <3>1. c # queue[1]
      BY <2>1, <2>3, <1>1, <1>3 DEF QueueOK
    <3> QED BY <3>1, <2>1, <2>3, <1>2 DEF QueueOK, Waiting, Accept, clientVars
  <2> QED BY <2>2, <2>3 DEF QueueOK, Waiting
<1>6. ServedOK'
  <2>1. 1 \in DOMAIN queue
    BY <1>1, <1>3
  <2> QED BY <2>1, <1>2 DEF Accept, QueueOK, Waiting, ServedOK, GotSoFar, clientVars
<1>7. PlaceOK'
  BY <1>1, <1>2 DEF PlaceOK, Accept, Serving, Answering
<1>8. FdsOK'
  BY DEF FdsOK, Accept, Running, TypeOK
<1>9. OwnResponse' /\ StopsOnlyInTrouble' /\ GoneOK'
  BY DEF Accept, clientVars, OwnResponse, StopsOnlyInTrouble, GoneOK, Running
<1> QED BY <1>4, <1>5, <1>6, <1>7, <1>8, <1>9

LEMMA AcceptFailsKeeps == ServerInv /\ AcceptFails => ServerInv'
<1> SUFFICES ASSUME ServerInv, AcceptFails PROVE ServerInv'
  OBVIOUS
<1>1. fds < FdLimit \/ opened >= FdLimit - 2
  BY LimitAssumption DEF AcceptFails, ServerInv, FdsOK, Running, TypeOK
<1> QED BY <1>1, ExitKeeps DEF AcceptFails, ServerInv, TypeOK

LEMMA RecvKeeps == ServerInv /\ Recv => ServerInv'
<1> SUFFICES ASSUME ServerInv, Recv PROVE ServerInv'
  OBVIOUS
<1> USE DEF ServerInv
<1>1. accept_fd \in Client /\ srv' \in {"open", "hello"} /\ srv = "recv"
  BY DEF Recv, PlaceOK, Serving
<1>2. /\ url' \in Url
      /\ conn[accept_fd] = "connected" => asked[accept_fd] = url'
  BY <1>1 DEF Recv, Received, TypeOK
<1>3. TypeOK'
  BY <1>1, <1>2 DEF TypeOK, Recv, clientVars
<1>4. QueueOK'
  BY <1>1, WorkKeepsQueue DEF Recv, clientVars, Serving
<1>5. PlaceOK'
  BY <1>1, <1>2, UrlAssumption DEF PlaceOK, Recv, Compared, Url, Serving, Answering
<1>6. ServedOK'
  BY <1>1, <1>2 DEF ServedOK, Recv, GotSoFar, clientVars, Serving, Answering
<1>7. FdsOK'
  BY <1>1 DEF FdsOK, Recv, Running
<1>8. OwnResponse' /\ StopsOnlyInTrouble' /\ GoneOK'
  BY <1>1 DEF Recv, clientVars, OwnResponse, StopsOnlyInTrouble, GoneOK, Running
<1> QED BY <1>3, <1>4, <1>5, <1>6, <1>7, <1>8

LEMMA RecvFailsKeeps == ServerInv /\ RecvFails => ServerInv'
<1> SUFFICES ASSUME ServerInv, RecvFails PROVE ServerInv'
  OBVIOUS
<1>1. trouble
  BY DEF ServerInv, RecvFails, GoneOK, Gone, Running, PlaceOK, Serving
<1> QED BY <1>1, ExitKeeps DEF RecvFails, ServerInv, TypeOK

\* open and fstat move no data.
LEMMA FileKeeps ==
  ASSUME ServerInv, OpenFile \/ StatFile
  PROVE  ServerInv'
<1> USE DEF ServerInv
<1>1. /\ srv \in Serving /\ srv' \in {"stat", "headers"} /\ srv \in {"open", "stat"}
      /\ UNCHANGED <<accept_fd, url, clientVars, queue, trouble>>
  BY DEF OpenFile, StatFile, Serving, Answering
<1>2. TypeOK'
  <2>1. fds' \in 1..FdLimit /\ opened' \in Nat
    BY LimitAssumption DEF TypeOK, OpenFile, StatFile
  <2> QED BY <2>1, <1>1 DEF TypeOK, clientVars
<1>3. QueueOK'
  BY <1>1, WorkKeepsQueue DEF clientVars
<1>4. PlaceOK' /\ ServedOK'
  BY <1>1 DEF PlaceOK, ServedOK, GotSoFar, clientVars, Serving, Answering
<1>5. FdsOK'
  <2>1. fds = 2 + opened
    BY <1>1 DEF FdsOK, Running, TypeOK
  <2> QED BY <2>1 DEF FdsOK, Running, TypeOK, OpenFile, StatFile
<1>6. OwnResponse' /\ StopsOnlyInTrouble' /\ GoneOK'
  BY <1>1 DEF clientVars, OwnResponse, StopsOnlyInTrouble, GoneOK, Running
<1> QED BY <1>2, <1>3, <1>4, <1>5, <1>6

LEMMA FileFailsKeeps == ServerInv /\ FileFails => ServerInv'
<1> SUFFICES ASSUME ServerInv, FileFails PROVE ServerInv'
  OBVIOUS
<1>1. ~(srv = "open" /\ fds = FdLimit) \/ opened >= FdLimit - 2
  BY LimitAssumption DEF FileFails, ServerInv, FdsOK, Running, TypeOK
<1> QED BY <1>1, ExitKeeps DEF FileFails, ServerInv, TypeOK

\* A part is sent to the client being served and to nobody else.
LEMMA SendKeeps ==
  ASSUME ServerInv, SendHeaders \/ SendFile \/ SendHello
  PROVE  ServerInv'
<1> USE DEF ServerInv
<1>0. /\ srv \in {"headers", "sendfile", "hello"} /\ srv' \in {"sendfile", "close"}
      /\ UNCHANGED <<accept_fd, url, fds, opened, conn, asked, queue, trouble>>
  BY DEF SendHeaders, SendFile, SendHello, Send
<1>1. accept_fd \in Client /\ url \in Url
  BY <1>0 DEF PlaceOK, Serving, Answering, Url
<1>2. \A c \in Client : c # accept_fd => got'[c] = got[c]
  BY <1>1 DEF SendHeaders, SendFile, SendHello, Send, TypeOK
<1>3. TypeOK'
  <2>1. got' \in [Client -> Seq({"headers", "body"} \X Url)]
    <3>1. got[accept_fd] \in Seq({"headers", "body"} \X Url)
      BY <1>1 DEF TypeOK
    <3>2. \A part \in {"headers", "body"} :
            Append(got[accept_fd], <<part, url>>) \in Seq({"headers", "body"} \X Url)
      BY <3>1, <1>1, AppendProperties
    <3> QED BY <3>2, <1>1 DEF SendHeaders, SendFile, SendHello, Send, TypeOK
  <2> QED BY <2>1, <1>0 DEF TypeOK
<1>4. QueueOK'
  BY <1>0, <1>2, WorkKeepsQueue DEF Serving, Answering
<1>5. PlaceOK'
  BY <1>0, <1>1 DEF PlaceOK, SendHeaders, SendFile, SendHello, Send, Serving, Answering
<1>6. ServedOK'
  <2>1. CASE conn[accept_fd] = "connected"
    <3>1. /\ asked[accept_fd] = url
          /\ got[accept_fd] = GotSoFar
      BY <2>1, <1>0 DEF ServedOK, Serving, Answering
    <3>2. got'[accept_fd] = GotSoFar'
      <4>1. CASE SendHeaders
        <5>1. got[accept_fd] = <<>> /\ GotSoFar' = <<<<"headers", url>>>>
          BY <4>1, <3>1, <1>0 DEF SendHeaders, Send, GotSoFar
        <5>2. got'[accept_fd] = Append(got[accept_fd], <<"headers", url>>)
          BY <4>1, <2>1, <1>1 DEF SendHeaders, Send, TypeOK
        <5> QED BY <5>1, <5>2
      <4>2. CASE SendFile
        <5>1. got[accept_fd] = <<<<"headers", url>>>> /\ GotSoFar' = Response(url)
          BY <4>2, <3>1, <1>0 DEF SendFile, Send, GotSoFar, Response
        <5>2. url \in Page
          BY <4>2 DEF SendFile, Send, PlaceOK
        <5>3. got'[accept_fd] = Append(got[accept_fd], <<"body", url>>)
          BY <4>2, <2>1, <1>1 DEF SendFile, Send, TypeOK
        <5>4. got'[accept_fd] = <<<<"headers", url>>, <<"body", url>>>>
          BY <5>1, <5>3, AppendPart
        <5> QED BY <5>1, <5>2, <5>4, Zenon DEF Response
      <4>3. CASE SendHello
        <5>1. got[accept_fd] = <<>> /\ GotSoFar' = Response(url)
          BY <4>3, <3>1, <1>0 DEF SendHello, Send, GotSoFar, Response
        <5>2. url \notin Page
          BY <4>3, UrlAssumption DEF SendHello, Send, PlaceOK
        <5>3. got'[accept_fd] = Append(got[accept_fd], <<"body", url>>)
          BY <4>3, <2>1, <1>1 DEF SendHello, Send, TypeOK
        <5> QED BY <5>1, <5>2, <5>3 DEF Response
      <4> QED BY <4>1, <4>2, <4>3
    <3> QED BY <3>1, <3>2, <2>1, <1>0 DEF ServedOK
  <2>2. CASE conn[accept_fd] # "connected"
    BY <2>2, <1>0 DEF ServedOK, Serving, Answering
  <2> QED BY <2>1, <2>2
<1>7. FdsOK'
  BY <1>0 DEF FdsOK, Running
<1>8. OwnResponse'
  <2>1. conn[accept_fd] # "answered"
    BY <1>0 DEF ServedOK, Serving, Answering, Gone
  <2> QED BY <2>1, <1>0, <1>2 DEF OwnResponse
<1>9. StopsOnlyInTrouble' /\ GoneOK'
  BY <1>0 DEF StopsOnlyInTrouble, GoneOK, Running
<1> QED BY <1>3, <1>4, <1>5, <1>6, <1>7, <1>8, <1>9

LEMMA BrokenPipeKeeps == ServerInv /\ BrokenPipe => ServerInv'
<1> SUFFICES ASSUME ServerInv, BrokenPipe PROVE ServerInv'
  OBVIOUS
<1>1. trouble
  BY DEF ServerInv, BrokenPipe, GoneOK, Running, PlaceOK, Serving, Answering
<1> QED BY <1>1, ExitKeeps DEF BrokenPipe, ServerInv, TypeOK

LEMMA CloseKeeps == ServerInv /\ Close => ServerInv'
<1> SUFFICES ASSUME ServerInv, Close PROVE ServerInv'
  OBVIOUS
<1> USE DEF ServerInv
<1>1. accept_fd \in Client /\ srv = "close" /\ srv' = "accept"
  BY DEF Close, AfterClose, PlaceOK, Serving
<1>2. fds = 2 + opened /\ fds' = 1 + opened
  BY <1>1 DEF Close, AfterClose, Closed, FdsOK, Running, TypeOK
<1>3. \A c \in Client : c # accept_fd => conn'[c] = conn[c]
  BY <1>1 DEF Close, AfterClose, TypeOK
<1>4. conn'[accept_fd] = IF conn[accept_fd] = "connected" THEN "answered" ELSE conn[accept_fd]
  BY <1>1 DEF Close, AfterClose, TypeOK
<1>5. TypeOK'
  <2>1. fds' \in 1..FdLimit
    BY <1>2, LimitAssumption DEF TypeOK
  <2>2. conn' \in [Client -> {"off", "connected", "answered"} \cup Gone]
    BY <1>1, <1>4 DEF Close, AfterClose, TypeOK
  <2> QED BY <2>1, <2>2, <1>1 DEF Close, AfterClose, TypeOK
<1>6. QueueOK'
  BY <1>1, <1>3, ClientAssumption DEF Close, AfterClose, QueueOK, Waiting, TypeOK
<1>7. PlaceOK' /\ ServedOK'
  BY <1>1 DEF Close, AfterClose, PlaceOK, ServedOK, Serving, Answering
<1>8. OwnResponse'
  <2>1. conn[accept_fd] = "connected" => got[accept_fd] = Response(asked[accept_fd])
    BY <1>1 DEF ServedOK, GotSoFar, Serving
  <2>2. conn[accept_fd] # "answered"
    BY <1>1 DEF ServedOK, Serving, Gone
  <2> QED BY <2>1, <2>2, <1>3, <1>4 DEF OwnResponse, Close
<1>9. FdsOK'
  BY <1>1, <1>2 DEF Close, AfterClose, FdsOK
<1>10. StopsOnlyInTrouble' /\ GoneOK'
  BY <1>1, <1>3, <1>4 DEF Close, AfterClose, StopsOnlyInTrouble, GoneOK, Running, Gone
<1> QED BY <1>5, <1>6, <1>7, <1>8, <1>9, <1>10

-----------------------------------------------------------------------------
LEMMA ConnectKeeps ==
  ASSUME ServerInv, NEW c \in Client, Connect(c)
  PROVE  ServerInv'
<1> USE DEF ServerInv
<1>1. /\ queue \in Seq(Client) /\ Len(queue) \in Nat
      /\ DOMAIN queue = 1..Len(queue)
  BY LenProperties DEF TypeOK
<1>2. /\ queue' = Append(queue, c) /\ queue' \in Seq(Client)
      /\ Len(queue') = Len(queue) + 1 /\ DOMAIN queue' = 1..Len(queue) + 1
      /\ \A i \in 1..Len(queue) : queue'[i] = queue[i]
      /\ queue'[Len(queue) + 1] = c
  BY <1>1, AppendProperties, LenProperties DEF Connect
<1>3. /\ conn' = [conn EXCEPT ![c] = "connected"] /\ got' = [got EXCEPT ![c] = <<>>]
      /\ asked' = [asked EXCEPT ![c] = NoUrl] /\ c # accept_fd
      /\ UNCHANGED <<serverVars, trouble>>
  BY DEF Connect
<1>4. TypeOK'
  <2>1. got' \in [Client -> Seq({"headers", "body"} \X Url)]
    BY <1>3, EmptySeq DEF TypeOK
  <2>2. Len(queue') <= Backlog
    BY <1>1, <1>2, LimitAssumption DEF Connect
  <2> QED BY <1>2, <1>3, <2>1, <2>2 DEF TypeOK, serverVars
<1>5. QueueOK'
  <2>1. \A i \in DOMAIN queue : queue[i] # c
    BY DEF Connect
  <2>2. ASSUME NEW i \in DOMAIN queue', NEW j \in DOMAIN queue', queue'[i] = queue'[j]
        PROVE  i = j
    BY <2>1, <2>2, <1>1, <1>2 DEF QueueOK
  <2>3. ASSUME NEW i \in DOMAIN queue', NEW d, d = queue'[i] PROVE Waiting(d)'
    <3>1. CASE i \in DOMAIN queue
      <4>1. d = queue[i] /\ d # c /\ d \in Client
        BY <3>1, <2>1, <2>3, <1>1, <1>2
      <4>2. Waiting(d)
        BY <3>1, <4>1 DEF QueueOK
      <4> QED BY <4>1, <4>2, <1>3 DEF Waiting, serverVars, TypeOK
    <3>2. CASE i = Len(queue) + 1
      BY <3>2, <2>3, <1>2, <1>3 DEF Waiting, serverVars, TypeOK
    <3> QED BY <3>1, <3>2, <1>1, <1>2
  <2> QED BY <2>2, <2>3 DEF QueueOK, Waiting
<1>6. ServedOK'
  BY <1>3 DEF ServedOK, PlaceOK, GotSoFar, serverVars, TypeOK
<1>7. OwnResponse'
  BY <1>3 DEF OwnResponse, TypeOK
<1>8. GoneOK'
  BY <1>3 DEF GoneOK, Gone, Running, serverVars, TypeOK
<1>9. PlaceOK' /\ StopsOnlyInTrouble' /\ FdsOK'
  BY <1>3 DEF PlaceOK, StopsOnlyInTrouble, FdsOK, Running, serverVars
<1> QED BY <1>4, <1>5, <1>6, <1>7, <1>8, <1>9

LEMMA AskKeeps ==
  ASSUME ServerInv, NEW c \in Client, Ask(c)
  PROVE  ServerInv'
<1> USE DEF ServerInv
<1>1. PICK u \in Url : asked' = [asked EXCEPT ![c] = u]
  BY DEF Ask
<1>2. /\ conn[c] = "connected" /\ asked[c] = NoUrl
      /\ UNCHANGED <<serverVars, conn, got, queue, trouble>>
  BY DEF Ask
<1>3. TypeOK'
  BY <1>1, <1>2 DEF TypeOK, serverVars
<1>4. ServedOK'
  <2>1. ASSUME srv \in Serving, srv # "recv", conn[accept_fd] = "connected"
        PROVE  asked[accept_fd] = url /\ url \in Url /\ accept_fd \in Client
    BY <2>1 DEF ServedOK, PlaceOK, Serving, Answering, Url
  <2>2. NoUrl \notin Url
    BY UrlAssumption DEF Url
  <2> QED BY <1>1, <1>2, <2>1, <2>2 DEF ServedOK, GotSoFar, serverVars, TypeOK
<1>5. OwnResponse'
  BY <1>1, <1>2 DEF OwnResponse, TypeOK
<1>6. QueueOK' /\ PlaceOK'
  BY <1>2 DEF QueueOK, Waiting, PlaceOK, serverVars
<1>7. StopsOnlyInTrouble' /\ FdsOK' /\ GoneOK'
  BY <1>2 DEF StopsOnlyInTrouble, FdsOK, GoneOK, Running, serverVars
<1> QED BY <1>3, <1>4, <1>5, <1>6, <1>7

LEMMA LeaveKeeps ==
  ASSUME ServerInv, NEW c \in Client, Leave(c)
  PROVE  ServerInv'
<1> USE DEF ServerInv
<1>1. PICK how \in Gone : conn' = [conn EXCEPT ![c] = how]
  BY DEF Leave
<1>2. /\ conn[c] = "connected" /\ trouble'
      /\ UNCHANGED <<serverVars, asked, got, queue>>
  BY DEF Leave
<1>3. TypeOK'
  BY <1>1, <1>2 DEF TypeOK, serverVars, Leave
<1>4. ServedOK'
  BY <1>1, <1>2 DEF ServedOK, PlaceOK, GotSoFar, Gone, serverVars, TypeOK
<1>5. OwnResponse'
  BY <1>1, <1>2 DEF OwnResponse, Gone, TypeOK
<1>6. QueueOK'
  BY <1>1, <1>2 DEF QueueOK, Waiting, Gone, serverVars, TypeOK
<1>7. PlaceOK' /\ StopsOnlyInTrouble' /\ FdsOK' /\ GoneOK'
  BY <1>2 DEF PlaceOK, StopsOnlyInTrouble, FdsOK, GoneOK, Running, serverVars
<1> QED BY <1>3, <1>4, <1>5, <1>6, <1>7

-----------------------------------------------------------------------------
\* Every step of the server or of a client keeps the invariant.
LEMMA NextKeeps == ServerInv /\ [Next]_vars => ServerInv'
<1> SUFFICES ASSUME ServerInv, [Next]_vars PROVE ServerInv'
  OBVIOUS
<1>1. CASE Server
  BY <1>1, AcceptKeeps, AcceptFailsKeeps, RecvKeeps, RecvFailsKeeps, FileKeeps,
     FileFailsKeeps, SendKeeps, BrokenPipeKeeps, CloseKeeps DEF Server, Handle_Http
<1>2. CASE \E c \in Client : Connect(c) \/ Ask(c) \/ Leave(c)
  BY <1>2, ConnectKeeps, AskKeeps, LeaveKeeps
<1>3. CASE UNCHANGED vars
  BY <1>3 DEF vars, serverVars, clientVars, ServerInv, TypeOK, OwnResponse, StopsOnlyInTrouble,
     PlaceOK, QueueOK, Waiting, ServedOK, GotSoFar, FdsOK, GoneOK, Running
<1> QED BY <1>1, <1>2, <1>3 DEF Next

\* The descriptors stay within the limit, every answered client has received the whole
\* response to its own request and nothing else, and main() ends only after a client has
\* left, a file or the system has failed, or the files Handle_Http never closes have
\* used up the descriptors.
THEOREM ServerIsSound == Spec => []ServerSound
<1>1. ServerInv => ServerSound
  BY DEF ServerInv, ServerSound
<1> QED BY <1>1, InitServer, NextKeeps, PTL DEF Spec

\* Each file the server has opened holds a descriptor for good: opened of them are gone
\* besides the listening socket and at most one connection, so the limit bounds how many
\* pages a run of the server can serve.
THEOREM DescriptorsLeak == Spec => [](Running => /\ fds >= 1 + opened
                                                 /\ opened < FdLimit)
<1>1. ServerInv => (Running => fds >= 1 + opened /\ opened < FdLimit)
  BY LimitAssumption DEF ServerInv, TypeOK, FdsOK, Running
<1> QED BY <1>1, InitServer, NextKeeps, PTL DEF Spec
=============================================================================
