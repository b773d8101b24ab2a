----------------------------- MODULE WebServer -----------------------------
(***************************************************************************)
(* web/server.c: one process that accepts a connection, reads one request, *)
(* answers it and closes the connection before it accepts the next, with   *)
(* the browsers that connect to it.                                        *)
(*                                                                         *)
(* A response is the sequence of its parts, headers and body; the text of  *)
(* requests and responses is left out.  recv is taken to return a request  *)
(* whole.  A failure that the server meets with exit() ends it.            *)
(***************************************************************************)
EXTENDS Integers, Sequences

CONSTANTS
  Client,    \* browsers
  Page,      \* URLs answered with a file ("/" and "/cat.png" in the source)
  Other,     \* a URL answered with "Hello, World!"
  Backlog,   \* connections the kernel queues for accept (10 in the source)
  FdLimit,   \* descriptors the process may have open, above the standard three
  NoClient, NoUrl

ASSUME UrlAssumption == Other \notin Page /\ NoUrl \notin Page \cup {Other}
ASSUME ClientAssumption == NoClient \notin Client
ASSUME LimitAssumption == Backlog \in Nat \ {0} /\ FdLimit \in Nat \ {0}

VARIABLES
  srv,       \* where the server is
  queue,     \* the connections waiting to be accepted
  accept_fd, \* whose connection the server has accepted, or NoClient
  url,       \* the array url of Handle_Http, NoUrl outside the function
  fds,       \* descriptors open
  conn,      \* conn[c]: the state of client c
  asked,     \* asked[c]: the URL it has sent on this connection, or NoUrl
  got,       \* got[c]: the parts of the response it has received
  opened,    \* history: files opened
  trouble    \* history: a client left unanswered, a file could not be used,
             \* or the system had no descriptors

serverVars == <<srv, accept_fd, url, fds, opened>>
clientVars == <<conn, asked, got>>
vars == <<serverVars, clientVars, queue, trouble>>

Url == Page \cup {Other}
Running == srv # "exited"
\* A client is gone by an orderly close or by a reset.
Gone == {"closed", "reset"}

TypeOK ==
  /\ srv \in {"accept", "recv", "open", "stat", "headers", "sendfile", "hello", "close", "exited"}
  /\ queue \in Seq(Client) /\ Len(queue) <= Backlog
  /\ accept_fd \in Client \cup {NoClient}
  /\ url \in Url \cup {NoUrl}
  /\ fds \in 1..FdLimit
  /\ conn \in [Client -> {"off", "connected", "answered"} \cup Gone]
  /\ asked \in [Client -> Url \cup {NoUrl}]
  /\ got \in [Client -> Seq({"headers", "body"} \X Url)]
  /\ opened \in Nat /\ trouble \in BOOLEAN

\* The listening socket is the first descriptor.
Init ==
  /\ srv = "accept" /\ queue = <<>> /\ accept_fd = NoClient
  /\ url = NoUrl
  /\ fds = 1 /\ opened = 0
  /\ conn = [c \in Client |-> "off"]
  /\ asked = [c \in Client |-> NoUrl]
  /\ got = [c \in Client |-> <<>>]
  /\ trouble = FALSE

-----------------------------------------------------------------------------
(* The server *)

Response(u) == IF u \in Page THEN <<<<"headers", u>>, <<"body", u>>>> ELSE <<<<"body", u>>>>

\* exit(), or the signal that ends the process, closes every connection.
Exit ==
  /\ srv' = "exited"
  /\ conn' = [c \in Client |-> IF conn[c] = "connected" THEN "reset" ELSE conn[c]]
  /\ queue' = <<>>
  /\ UNCHANGED <<accept_fd, url, fds, opened, asked, got>>

\* accept reserves the descriptor first.
Accept ==
  /\ srv = "accept" /\ fds < FdLimit /\ queue # <<>>
  /\ accept_fd' = Head(queue) /\ queue' = Tail(queue)
  /\ fds' = fds + 1 /\ srv' = "recv"
  /\ UNCHANGED <<url, opened, clientVars, trouble>>
\* Without a descriptor, or when the whole system has no more of them, it fails at once.
AcceptFails ==
  /\ srv = "accept"
  /\ Exit
  /\ trouble' = (trouble \/ fds < FdLimit)

\* What recv and sscanf may leave in url: what c has sent, though it be gone since;
\* after a close with nothing sent sscanf stores nothing, and any URL may be there.
Received(c) ==
  IF asked[c] # NoUrl THEN {asked[c]} ELSE IF conn[c] = "closed" THEN Url ELSE {}

Compared_Early == url   \* Mutant: url is compared before the request is parsed.

\* What strcmp compares with the pages.
Compared == url'

Recv ==
  /\ srv = "recv"
  /\ url' \in Received(accept_fd)
  /\ srv' = IF Compared \in Page THEN "open" ELSE "hello"
  /\ UNCHANGED <<accept_fd, fds, opened, clientVars, queue, trouble>>
RecvFails ==
  /\ srv = "recv" /\ conn[accept_fd] = "reset" /\ asked[accept_fd] = NoUrl
  /\ Exit /\ UNCHANGED trouble

OpenFile ==
  /\ srv = "open" /\ fds < FdLimit
  /\ fds' = fds + 1 /\ opened' = opened + 1 /\ srv' = "stat"
  /\ UNCHANGED <<accept_fd, url, clientVars, queue, trouble>>
\* Without a descriptor open fails; it or stat also may because of the file.
FileFails ==
  /\ srv \in {"open", "stat"}
  /\ Exit
  /\ trouble' = (trouble \/ ~(srv = "open" /\ fds = FdLimit))
StatFile ==
  /\ srv = "stat"
  /\ srv' = "headers"
  /\ UNCHANGED <<accept_fd, url, fds, opened, clientVars, queue, trouble>>

\* send or sendfile: the client receives the part, if it still is there.
Send(here, part, there) ==
  /\ srv = here /\ srv' = there
  /\ got' = IF conn[accept_fd] = "connected" THEN [got EXCEPT ![accept_fd] = Append(@, <<part, url>>)] ELSE got
  /\ UNCHANGED <<accept_fd, url, fds, opened, conn, asked, queue, trouble>>
SendHeaders == Send("headers", "headers", "sendfile")
SendFile    == Send("sendfile", "body", "close")
SendHello   == Send("hello", "body", "close")

\* A client that is gone answers the headers with a reset; if that has come back,
\* the next write raises SIGPIPE, which nothing handles.
BrokenPipe ==
  /\ srv = "sendfile" /\ conn[accept_fd] \in Gone
  /\ Exit /\ UNCHANGED trouble

\* The descriptors after close(accpet_fd); the file Handle_Http opened stays open.
Closed == fds - 1

\* Mutant: only the branches that send a file close the connection; the last branch
\* leaves it to the program's end, so the client waits for the end of its response.
AfterClose_PagesOnly(c) ==
  IF conn[c] = "connected" /\ url \in Page THEN "answered" ELSE conn[c]

\* What close(accpet_fd) makes of the connection of c.
AfterClose(c) == IF conn[c] = "connected" THEN "answered" ELSE conn[c]

Close ==
  /\ srv = "close"
  /\ conn' = [conn EXCEPT ![accept_fd] = AfterClose(accept_fd)]
  /\ fds' = Closed
  /\ accept_fd' = NoClient /\ url' = NoUrl /\ srv' = "accept"
  /\ UNCHANGED <<opened, asked, got, queue, trouble>>

Handle_Http == Recv \/ RecvFails \/ OpenFile \/ StatFile \/ FileFails
               \/ SendHeaders \/ SendFile \/ SendHello \/ BrokenPipe
Server == Accept \/ AcceptFails \/ Handle_Http \/ Close

-----------------------------------------------------------------------------
(* The clients, which are not code of the repository *)

\* A new connection of c, when the server is done with the last one.
Connect(c) ==
  /\ Running /\ conn[c] # "connected"
  /\ c # accept_fd /\ c \notin {queue[i] : i \in DOMAIN queue}
  /\ Len(queue) < Backlog
  /\ queue' = Append(queue, c)
  /\ conn' = [conn EXCEPT ![c] = "connected"]
  /\ asked' = [asked EXCEPT ![c] = NoUrl]
  /\ got' = [got EXCEPT ![c] = <<>>]
  /\ UNCHANGED <<serverVars, trouble>>
Ask(c) ==
  /\ conn[c] = "connected" /\ asked[c] = NoUrl
  /\ \E u \in Url : asked' = [asked EXCEPT ![c] = u]
  /\ UNCHANGED <<serverVars, conn, got, queue, trouble>>
Leave(c) ==
  /\ conn[c] = "connected"
  /\ \E how \in Gone : conn' = [conn EXCEPT ![c] = how]
  /\ trouble' = TRUE
  /\ UNCHANGED <<serverVars, asked, got, queue>>

Next == Server \/ \E c \in Client : Connect(c) \/ Ask(c) \/ Leave(c)
Spec == Init /\ [][Next]_vars

\* The server is scheduled, and a client that has connected sends its request; nobody
\* has to connect.
Fairness == WF_vars(Accept \/ Handle_Http \/ Close) /\ \A c \in Client : WF_vars(Ask(c))
FairSpec == Spec /\ Fairness

-----------------------------------------------------------------------------
\* Handle_Http answers the request it has read: every client that is answered has
\* received the whole response to its own request and nothing else.
OwnResponse == \A c \in Client : conn[c] = "answered" => got[c] = Response(asked[c])

\* The server stops only after a client has left unanswered, a file has failed or the
\* system has run out of descriptors, or when the files it has opened and never closed
\* leave no descriptor for a connection and its file.
StopsOnlyInTrouble == Running \/ trouble \/ opened >= FdLimit - 2

\* A request is answered and its connection closed, unless its client leaves or the
\* server stops: every branch of Handle_Http comes back to the close in main.
EveryRequestAnswered ==
  \A c \in Client :
    (conn[c] = "connected" /\ asked[c] # NoUrl) ~> (conn[c] # "connected")

\* What holds of every state: the types (the descriptors stay within the limit), the
\* answers, and the reasons to stop.
ServerSound == TypeOK /\ OwnResponse /\ StopsOnlyInTrouble
=============================================================================
