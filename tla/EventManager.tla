---------------------------- MODULE EventManager ----------------------------
(***************************************************************************)
(* mongoose's event manager (net.c) on its socket interface                *)
(* (net_if_socket.c). One thread, the I/O thread, calls mg_mgr_poll in a   *)
(* loop: select, the message of a mg_broadcast, every connection of the    *)
(* active list in turn (connect, read, write, poll, timer), then a sweep   *)
(* that frees the connections flagged for closing. The kernel, the peers   *)
(* and the threads that broadcast move between any two of these steps, so  *)
(* what select saw is stale when it is used.                               *)
(***************************************************************************)
EXTENDS Naturals, Sequences, FiniteSets, SequencesExt, Mbuf

CONSTANTS Conn,      \* the blocks of memory malloc has left for connections
          Peer,      \* the addresses datagrams come from
          Caller,    \* the other threads, which may call mg_broadcast
          Programs,  \* what may run: the calls an application makes between polls, what
                     \* its handler may do on each event, bounds on the peers that connect and
                     \* on the bytes in each direction, and the datagrams that may come
          Room,      \* what the kernel buffers for a peer that does not read
          MaxTime,   \* bound on the clock
          None       \* NULL and INVALID_SOCKET

Events == {"ACCEPT", "CONNECT", "CONNECT_FAILED", "RECV", "SEND", "POLL", "TIMER"}

\* _MG_CALLBACK_MODIFIABLE_FLAGS_MASK: what a user's handler may change.
Modifiable == {"SEND_AND_CLOSE", "CLOSE_IMMEDIATELY"}

\* What a handler does on one event: consume what was received, send so many bytes, set and
\* clear flags, set the timer
Response == [take : BOOLEAN, send : Nat, raise : SUBSET Modifiable, clear : SUBSET Modifiable,
             arm : BOOLEAN]

Calls == {"bind_tcp", "bind_udp", "connect_tcp", "connect_udp", "broadcast", "free"}

\* A datagram has bytes, or none, or recvfrom fails to read it (it was damaged).
Kinds == {"bytes", "empty", "failing"}

ASSUME ManagerConstants ==
  /\ None \notin Conn \cup Peer /\ Room \in Nat /\ MaxTime \in Nat
  /\ Programs \subseteq [calls : SUBSET Calls, handler : [Events -> SUBSET Response],
                        conns : Nat, in : Nat, out : Nat, kinds : SUBSET Kinds]

VARIABLES conn,      \* the connections
          list,      \* mgr->active_connections, newest first
          sock,      \* the kernel's side, per connection that opened a socket
          holder,    \* whose socket the descriptor of each connection stands for: its own,
                     \* or when that was closed, one opened since under the same number
          pc, cur, next,   \* where the I/O thread is in mg_mgr_poll
          fds,       \* what select returned, and when
          got,       \* a datagram on its way to a connection
          todo,      \* the calls the application has not made yet
          prog,       \* the program that runs
          now,       \* the clock
          ctl,       \* the messages and the answers in the control sockets
          caller,    \* where each broadcasting thread is
          \* history
          seen,      \* the milestones among the events delivered
          took, put, \* what the application consumed and sent
          cause      \* why a connection was closed early

vars == <<conn, list, sock, holder, pc, cur, next, fds, got, todo, prog, now, ctl, caller,
          seen, took, put, cause>>

Kernel == <<prog, now, ctl, caller>>
History == <<seen, took, put, cause>>
-----------------------------------------------------------------------------
(* Connections. *)

Flags == {"LISTENING", "UDP", "CONNECTING", "SEND_AND_CLOSE", "CLOSE_IMMEDIATELY"}

\* mg_create_connection_base, and what mg_if_accept_new_conn copies; buf tells whether the
\* memory behind recv_mbuf is the connection's or was freed.
NewConn(s, flags, lc, sa) ==
  [st |-> "live", sock |-> s, flags |-> flags, listener |-> lc, sa |-> sa, err |-> FALSE,
   recv |-> <<>>, buf |-> "own", send |-> <<>>, timer |-> 0]

Freed == [NewConn(None, {}, None, None) EXCEPT !.st = "freed"]

NoSocket == [st |-> "none", rx |-> <<>>, in |-> 0, eof |-> FALSE, tx |-> <<>>, alien |-> {},
             room |-> Room, backlog |-> 0]

Is(c, f) == f \in conn[c].flags

Blank == {c \in Conn : conn[c].st = "blank"}

Init == /\ conn = [c \in Conn |-> [NewConn(None, {}, None, None) EXCEPT !.st = "blank"]]
        /\ list = <<>> /\ pc = "app" /\ cur = None /\ next = None
        /\ sock = [c \in Conn |-> NoSocket] /\ holder = [c \in Conn |-> c]
        /\ fds = [r |-> {}, w |-> {}, ctl |-> FALSE, at |-> 0] /\ got = None
        /\ prog \in Programs /\ todo = prog.calls /\ now = 1
        /\ ctl = [msgs |-> <<>>, acks |-> 0]
        /\ caller = [b \in Caller |-> "idle"]
        /\ seen = [c \in Conn |-> <<>>]
        /\ took = [c \in Conn |-> <<>>] /\ put = [c \in Conn |-> 0]
        /\ cause = [c \in Conn |-> {}]

\* Behind c in the active list: c->next
After(c) == LET i == CHOOSE i \in DOMAIN list : list[i] = c
            IN  IF i < Len(list) THEN list[i + 1] ELSE None

First == IF list = <<>> THEN None ELSE Head(list)
-----------------------------------------------------------------------------
(* Calling the handler. *)

Milestone(ev) == IF ev \in {"ACCEPT", "CONNECT", "CONNECT_FAILED", "CLOSE"} THEN <<ev>>
                 ELSE IF ev \in {"RECV", "SEND"} THEN <<"IO">> ELSE <<>>

\* The history of a connection after one more event, runs of I/O collapsed.
Noted(h, ev) == IF Milestone(ev) = <<"IO">> /\ h # <<>> /\ Last(h) = "IO" THEN h
                ELSE h \o Milestone(ev)

\* Who asks for a close without regard to what is still buffered
UserCause(resp) == IF "CLOSE_IMMEDIATELY" \in resp.raise THEN {"user"} ELSE {}
NewCause(c, r) == IF "CLOSE_IMMEDIATELY" \in r.flags \ conn[c].flags THEN {"network"} ELSE {}

\* mg_call: the handler may consume what was received, mg_send bytes, set and
\* clear the two closing flags and set the timer; other flags are restored.
\* r is the connection as the caller of mg_call left it. Nobody sends on a listener.
Called(c, r, ev, resp) ==
  LET n == IF "LISTENING" \in r.flags THEN 0
           ELSE IF put[c] + resp.send <= prog.out THEN resp.send ELSE prog.out - put[c]
  IN  /\ conn' = [conn EXCEPT ![c] =
           [r EXCEPT !.recv = IF resp.take THEN DropBytes(@, Len(@)) ELSE @,
                     !.send = AppendTo(@, [i \in 1..n |-> put[c] + i]),
                     !.flags = (@ \ Modifiable) \cup
                               (((@ \cap Modifiable) \cup resp.raise) \ resp.clear),
                     !.timer = IF resp.arm /\ now < MaxTime THEN now + 1
                               ELSE IF ev = "TIMER" THEN 0 ELSE @]]
      /\ took' = [took EXCEPT ![c] = IF resp.take THEN @ \o r.recv ELSE @]
      /\ put' = [put EXCEPT ![c] = @ + n]
      /\ seen' = [seen EXCEPT ![c] = Noted(@, ev)]
      /\ cause' = [cause EXCEPT ![c] = @ \cup NewCause(c, r) \cup UserCause(resp)]

Call(c, r, ev) == \E resp \in prog.handler[ev] : Called(c, r, ev, resp)

\* The connection with a flag the interface set because of an error
Broken(r) == [r EXCEPT !.flags = @ \cup {"CLOSE_IMMEDIATELY"}]
-----------------------------------------------------------------------------
(* Opening connections, between two polls. *)

\* The socket behind the descriptor of a connection
SockOf(c) == holder[conn[c].sock]

\* A connection that stands for the source of datagrams on a listener's socket
IsFake(c) == Is(c, "UDP") /\ conn[c].listener # None

\* The closed sockets whose descriptor a connection still holds
Dangling == {SockOf(e) : e \in {d \in ToSet(list) : IsFake(d) /\ sock[SockOf(d)].st = "closed"}}

\* The kernel gives the new socket of c a number that nobody holds, or that was closed.
Numbers(c) ==
  \E s \in Dangling \cup {c} :
    holder' = [n \in Conn |-> IF holder[n] = s THEN c ELSE holder[n]]

Opened(c, r, s) == /\ conn' = [conn EXCEPT ![c] = r]
                   /\ sock' = [sock EXCEPT ![c] = s]
                   /\ IF s.st = "none" THEN UNCHANGED holder ELSE Numbers(c)
                   /\ list' = <<c>> \o list
                   /\ UNCHANGED <<pc, cur, next, fds, got, Kernel, History>>

\* mg_bind_opt with an address that parses and a port that is free
Bind(c, udp) ==
  Opened(c, NewConn(c, {"LISTENING"} \cup IF udp THEN {"UDP"} ELSE {}, None, None),
         [NoSocket EXCEPT !.st = IF udp THEN "up" ELSE "listening"])

\* mg_connect_opt with an IP address, mg_do_connect, mg_socket_if_connect_tcp:
\* there may be no descriptor left, connect may fail at once, or it is under way.
ConnectTcp(c) ==
  \/ Opened(c, [NewConn(None, {"CONNECTING"}, None, None) EXCEPT !.err = TRUE], NoSocket)
  \/ Opened(c, [NewConn(c, {"CONNECTING"}, None, None) EXCEPT !.err = TRUE],
            [NoSocket EXCEPT !.st = "unconnected"])
  \/ Opened(c, NewConn(c, {"CONNECTING"}, None, None), [NoSocket EXCEPT !.st = "connecting"])

\* The same for a datagram socket: mg_socket_if_connect_udp
ConnectUdp(c, p) ==
  \/ Opened(c, [NewConn(None, {"CONNECTING", "UDP"}, None, p) EXCEPT !.err = TRUE], NoSocket)
  \/ Opened(c, NewConn(c, {"CONNECTING", "UDP"}, None, p), [NoSocket EXCEPT !.st = "up"])

\* The application makes one of its calls.
AppCalls ==
  /\ pc = "app"
  /\ \E call \in todo, c \in Blank :
       /\ todo' = todo \ {call}
       /\ \/ call = "bind_tcp" /\ Bind(c, FALSE)
          \/ call = "bind_udp" /\ Bind(c, TRUE)
          \/ call = "connect_tcp" /\ ConnectTcp(c)
          \/ call = "connect_udp" /\ \E p \in Peer : ConnectUdp(c, p)

\* mg_mgr_free begins with a last poll.
AppFrees == /\ pc = "app" /\ "free" \in todo
            /\ todo' = {"freeing"}
            /\ UNCHANGED <<conn, list, sock, holder, pc, cur, next, fds, got, Kernel, History>>
-----------------------------------------------------------------------------
(* One round of mg_socket_if_poll. *)

IsDatagram(s) == conn[s].st = "live" /\ Is(s, "UDP")

\* A stream that is over, with the error it kept still to be told, or told ("spent")
Failed == {"refused", "reset", "unconnected", "spent"}

Readable(s) == \/ sock[s].rx # <<>> \/ sock[s].eof \/ sock[s].backlog > 0
               \/ sock[s].st \in Failed

Writable(s) == \/ sock[s].st \in Failed
               \/ sock[s].st = "up" /\ sock[s].room > 0

HasSock(c) == conn[c].sock # None

\* Mutant: the descriptors with output are forgotten.
WriteSet_OnlyConnecting ==
  {SockOf(c) : c \in {d \in ToSet(list) : HasSock(d) /\ Is(d, "CONNECTING")}}

ReadSet == {SockOf(c) : c \in {d \in ToSet(list) : HasSock(d) /\ ~IsFake(d)}}

WriteSet == {SockOf(c) : c \in {d \in ToSet(list) :
               HasSock(d) /\ (Is(d, "CONNECTING") \/ conn[d].send # <<>>)}}

\* select: what is ready now; with a descriptor that is closed it fails and
\* nothing at all is reported.
Select ==
  /\ pc = "app"
  /\ LET fails == \E s \in ReadSet \cup WriteSet : sock[s].st = "closed"
     IN  fds' = [r   |-> {s \in ReadSet : ~fails /\ Readable(s)},
                 w   |-> {s \in WriteSet : ~fails /\ Writable(s)},
                 ctl |-> ~fails /\ ctl.msgs # <<>>,
                 at  |-> now]
  /\ pc' = IF fds'.ctl THEN "ctl" ELSE "conn"
  /\ cur' = First
  /\ UNCHANGED <<conn, list, sock, holder, next, got, todo, Kernel, History>>

\* One byte back for the message that was read
CtlAnswered == [msgs |-> Tail(ctl.msgs), acks |-> ctl.acks + 1]

\* mg_mgr_handle_ctl_sock: the answer that lets mg_broadcast return is sent
\* first, then its callback runs on every connection; here it sends a byte to
\* those that are no listeners.
HandleCtlSock ==
  LET told == {c \in ToSet(list) : ~Is(c, "LISTENING") /\ put[c] < prog.out}
  IN  /\ pc = "ctl"
      /\ pc' = "conn"
      /\ ctl' = CtlAnswered
      /\ conn' = [c \in Conn |-> IF c \in told
                    THEN [conn[c] EXCEPT !.send = AppendTo(@, <<put[c] + 1>>)] ELSE conn[c]]
      /\ put' = [c \in Conn |-> IF c \in told THEN put[c] + 1 ELSE put[c]]
      /\ UNCHANGED <<list, sock, holder, cur, next, fds, got, todo, prog, now, caller, seen, took, cause>>

FdRead(c) == HasSock(c) /\ SockOf(c) \in fds.r /\ ~IsFake(c)
FdWrite(c) == HasSock(c) /\ SockOf(c) \in fds.w

\* Mutant: the connection stays marked as connecting.
Connected_KeepsFlag(c, err) ==
  Call(c, IF err THEN Broken(conn[c]) ELSE conn[c], IF err THEN "CONNECT_FAILED" ELSE "CONNECT")

\* mg_if_connect_cb
Connected(c, err) ==
  LET r == [conn[c] EXCEPT !.flags = @ \ {"CONNECTING"}]
  IN  Call(c, IF err THEN Broken(r) ELSE r, IF err THEN "CONNECT_FAILED" ELSE "CONNECT")

\* The first part of mg_mgr_handle_conn: SO_ERROR tells how a connection
\* attempt ended; nc->err is looked at only when select reports nothing.
HandleConnecting ==
  /\ pc = "conn" /\ cur # None
  /\ pc' = "read" /\ next' = After(cur)
  /\ IF Is(cur, "CONNECTING") /\ (FdRead(cur) \/ FdWrite(cur))
     THEN Connected(cur, ~Is(cur, "UDP") /\ sock[cur].st \in {"refused", "reset"})
     ELSE IF Is(cur, "CONNECTING") /\ conn[cur].err THEN Connected(cur, TRUE)
     ELSE UNCHANGED <<conn, History>>
  /\ UNCHANGED <<list, sock, holder, cur, fds, got, todo, Kernel>>

\* Mutant: a buffer that was moved into an empty recv_mbuf is freed as one that was copied.
Received_FreesMoved(c, bytes) ==
  IF Is(c, "CLOSE_IMMEDIATELY") THEN UNCHANGED <<conn, History>>
  ELSE Call(c, [conn[c] EXCEPT !.recv = AppendTo(@, bytes),
                               !.buf = IF conn[c].recv = <<>> THEN "freed" ELSE @], "RECV")

\* mg_recv_common; a buffer without bytes was freed before, and is taken over all the same.
Received(c, bytes) ==
  IF Is(c, "CLOSE_IMMEDIATELY") THEN UNCHANGED <<conn, History>>
  ELSE Call(c, [conn[c] EXCEPT !.recv = AppendTo(@, bytes),
                               !.buf = IF bytes = <<>> THEN "freed" ELSE @], "RECV")

Flagged(c, f) == /\ conn' = [conn EXCEPT ![c].flags = @ \cup {f}]
                 /\ cause' = [cause EXCEPT ![c] = @ \cup NewCause(c, conn'[c])]
                 /\ UNCHANGED <<seen, took, put>>

\* mg_handle_tcp_read: one recv, of as much as the kernel has up to a limit
TcpRead(c) ==
  /\ IF sock[c].rx # <<>>
     THEN \E n \in DOMAIN sock[c].rx :
            /\ sock' = [sock EXCEPT ![c].rx = DropBytes(@, n)]
            /\ Received(c, SubSeq(sock[c].rx, 1, n))
     ELSE /\ UNCHANGED sock
          /\ Flagged(c, IF sock[c].st \in {"reset", "unconnected"} THEN "CLOSE_IMMEDIATELY"
                        ELSE "SEND_AND_CLOSE")
  /\ UNCHANGED <<list, holder, got>> /\ pc' = "write"

\* mg_accept_conn: one connection at a time; without memory it is refused.
Accept(l) ==
  /\ sock[l].backlog > 0
  /\ UNCHANGED got /\ pc' = "write"
  /\ \/ /\ Blank = {}
        /\ sock' = [sock EXCEPT ![l].backlog = @ - 1]
        /\ UNCHANGED <<list, conn, holder, History>>
     \/ \E c \in Blank :
          /\ Numbers(c)
          /\ sock' = [sock EXCEPT ![l].backlog = @ - 1, ![c] = [NoSocket EXCEPT !.st = "up"]]
          /\ list' = <<c>> \o list
          /\ Call(c, NewConn(c, {}, l, None), "ACCEPT")

\* mg_handle_udp_read and mg_if_recv_udp_cb: the connection that stands for
\* the source of the datagram is found, or made, flagged to close after its
\* answer; without memory for it the datagram is dropped through a NULL pointer.
\* What select saw is still there, nobody else reads from the socket. When recvfrom fails,
\* the address is whatever the stack held.
UdpRead(c) ==
  LET d == Head(sock[c].rx)
      known == {e \in ToSet(list) : conn[e].sa = d.from /\ conn[e].listener = c}
  IN  /\ sock[c].rx # <<>>
      /\ sock' = [sock EXCEPT ![c].rx = Tail(@)] /\ UNCHANGED holder
      /\ \/ /\ ~Is(c, "LISTENING") \/ known # {}
            /\ \E e \in IF Is(c, "LISTENING") THEN known ELSE {c} :
                 got' = [to |-> e, kind |-> d.kind, data |-> d.data]
            /\ pc' = "datagram" /\ UNCHANGED <<list, conn, History>>
         \/ /\ Is(c, "LISTENING") /\ known = {}
            /\ \E e \in Blank :
                 /\ got' = [to |-> e, kind |-> d.kind, data |-> d.data]
                 /\ list' = <<e>> \o list
                 /\ Call(e, NewConn(c, {"UDP", "SEND_AND_CLOSE"}, c, d.from), "ACCEPT")
            /\ pc' = "datagram"
         \/ /\ Is(c, "LISTENING") /\ known = {} /\ Blank = {}
            /\ pc' = "crashed" /\ UNCHANGED <<list, conn, got, History>>

HandleRead ==
  /\ pc = "read"
  /\ IF ~FdRead(cur) THEN pc' = "write" /\ UNCHANGED <<conn, list, sock, holder, got, History>>
     ELSE IF Is(cur, "UDP") THEN UdpRead(cur)
     ELSE IF Is(cur, "LISTENING") THEN Accept(cur)
     ELSE TcpRead(cur)
  /\ UNCHANGED <<cur, next, fds, todo, Kernel>>

\* mg_recvfrom frees the buffer of a datagram without bytes, and mg_recv_common is given it all
\* the same: it frees it again, or has it replace an empty recv_mbuf, which is freed again
\* when the next one replaces it. After a failure the length of recv_mbuf becomes -1.
FreesTwice(c) ==
  \/ got.kind = "failing"
  \/ got.kind = "empty" /\ (Is(c, "CLOSE_IMMEDIATELY") \/ conn[c].recv # <<>>)
  \/ conn[c].buf = "freed" /\ ~Is(c, "CLOSE_IMMEDIATELY")

HandleDatagram ==
  /\ pc = "datagram"
  /\ IF FreesTwice(got.to) THEN pc' = "crashed" /\ UNCHANGED <<conn, History>>
     ELSE pc' = "write" /\ Received(got.to, got.data)
  /\ got' = None
  /\ UNCHANGED <<list, sock, holder, cur, next, fds, todo, Kernel>>

\* One send or sendto; what the kernel took leaves the buffer. Of what goes out on a socket
\* tx has what its own connection wrote, alien who else wrote.
Wrote(c, s, n) ==
  /\ sock' = [sock EXCEPT ![s].tx = IF s = c THEN @ \o SubSeq(conn[c].send, 1, n) ELSE @,
                          ![s].alien = IF s = c THEN @ ELSE @ \cup {c},
                          ![s].room = IF IsDatagram(s) THEN @ ELSE @ - n]
  /\ Call(c, [conn[c] EXCEPT !.send = DropBytes(@, n)], "SEND")

\* A sendto that fails is forgotten, and takes with it the error that the kernel kept.
SendtoFails(s) ==
  /\ sock' = IF sock[s].st \in {"refused", "reset"} THEN [sock EXCEPT ![s].st = "spent"] ELSE sock
  /\ UNCHANGED <<conn, History>>

\* mg_write_to_socket; on a stream a sendto is a send.
WriteToSocket(c) ==
  LET s == SockOf(c)
      len == Len(conn[c].send)
  IN  \/ IsDatagram(s) /\ Wrote(c, s, len)
      \/ /\ ~IsDatagram(s) /\ sock[s].st = "up"
         /\ \/ \E n \in 1 .. (IF len < sock[s].room THEN len ELSE sock[s].room) : Wrote(c, s, n)
            \/ sock[s].room = 0 /\ UNCHANGED <<conn, sock, History>>
      \/ Is(c, "UDP") /\ (IsDatagram(s) \/ sock[s].st # "up") /\ SendtoFails(s)
      \/ ~Is(c, "UDP") /\ sock[s].st # "up" /\ Flagged(c, "CLOSE_IMMEDIATELY") /\ UNCHANGED sock

Advance == cur' = next /\ pc' = "conn"

\* The rest of mg_mgr_handle_conn, skipped by a connection that is to close.
HandleWrite ==
  /\ pc = "write"
  /\ IF Is(cur, "CLOSE_IMMEDIATELY") THEN Advance /\ UNCHANGED <<conn, sock, History>>
     ELSE /\ pc' = "poll" /\ UNCHANGED cur
          /\ IF FdWrite(cur) /\ conn[cur].send # <<>> THEN WriteToSocket(cur)
             ELSE UNCHANGED <<conn, sock, History>>
  /\ UNCHANGED <<list, holder, next, fds, got, todo, Kernel>>

\* Mutant: a timer fires when its time is over.
TimerDue_Late(r) == r.timer > 0 /\ fds.at > r.timer

TimerDue(r) == r.timer > 0 /\ fds.at >= r.timer

\* mg_if_poll
HandlePoll == /\ pc = "poll"
              /\ Call(cur, conn[cur], "POLL")
              /\ IF TimerDue(conn'[cur]) THEN pc' = "timer" /\ UNCHANGED cur ELSE Advance
              /\ UNCHANGED <<list, sock, holder, next, fds, got, todo, Kernel>>

\* mg_if_timer: a timer that fired is reset unless the handler set it anew.
HandleTimer == /\ pc = "timer"
               /\ Call(cur, conn[cur], "TIMER")
               /\ Advance
               /\ UNCHANGED <<list, sock, holder, next, fds, got, todo, Kernel>>

\* Mutant: the connection of a datagram's source closes its listener's socket.
OwnsSocket_Any(c) == HasSock(c)

\* mg_socket_if_destroy_conn
OwnsSocket(c) == HasSock(c) /\ ~IsFake(c)

\* mg_close_conn and mg_socket_if_destroy_conn, for the connection at place i of the list:
\* the socket is closed unless it belongs to a listener of datagrams, the handler is told,
\* recv_mbuf and the block are freed, and the thread goes on there.
CloseConn(i, there) ==
  LET c == list[i]
  IN  /\ list' = RemoveAt(list, i)
      /\ sock' = IF OwnsSocket(c) THEN [sock EXCEPT ![conn[c].sock].st = "closed",
                                                   ![conn[c].sock].rx = <<>>]
                 ELSE sock
      /\ pc' = IF conn[c].buf = "freed" THEN "crashed" ELSE there
      /\ seen' = [seen EXCEPT ![c] = Noted(@, "CLOSE")]
      /\ conn' = [conn EXCEPT ![c] = Freed]
      /\ UNCHANGED <<took, put>>

\* Mutant: what is still to be sent is not looked at.
Doomed_Unsent(c) == conn[c].flags \cap Modifiable # {}

Doomed(c) == \/ Is(c, "CLOSE_IMMEDIATELY")
             \/ conn[c].send = <<>> /\ Is(c, "SEND_AND_CLOSE")

\* The second loop of mg_socket_if_poll, a connection at a time
Sweep ==
  LET doomed == {i \in DOMAIN list : Doomed(list[i])}
  IN  /\ pc = "sweep" \/ (pc = "conn" /\ cur = None)
      /\ \/ /\ doomed = {}
            /\ pc' = IF "freeing" \in todo THEN "freeing" ELSE "app"
            /\ UNCHANGED <<conn, list, sock, seen, took, put>>
         \/ \E i \in doomed : /\ \A j \in doomed : i <= j
                              /\ CloseConn(i, "sweep")
      /\ UNCHANGED <<holder, cur, next, fds, got, todo, Kernel, cause>>

\* mg_mgr_free behind its last poll: the control sockets, then every connection
Free == /\ pc = "freeing"
        /\ \/ /\ list = <<>> /\ pc' = "freed"
              /\ UNCHANGED <<conn, list, sock, History>>
           \/ /\ list # <<>> /\ CloseConn(1, pc)
              /\ cause' = [cause EXCEPT ![Head(list)] = @ \cup {"mgr_free"}]
        /\ UNCHANGED <<holder, cur, next, fds, got, todo, Kernel>>

IoThread == \/ Select \/ HandleCtlSock \/ HandleConnecting \/ HandleRead \/ HandleDatagram
            \/ HandleWrite \/ HandlePoll \/ HandleTimer \/ Sweep \/ Free
-----------------------------------------------------------------------------
(* The other threads, the kernel and the peers. *)

\* mg_broadcast: send the message, then block until a byte comes back.
Broadcast(b) == /\ "broadcast" \in todo /\ caller[b] = "idle"
                /\ caller' = [caller EXCEPT ![b] = "blocked"]
                /\ ctl' = [ctl EXCEPT !.msgs = Append(@, b)]
                /\ UNCHANGED <<prog, now>>

BroadcastReturns(b) == /\ caller[b] = "blocked" /\ ctl.acks > 0
                       /\ caller' = [caller EXCEPT ![b] = "returned"]
                       /\ ctl' = [ctl EXCEPT !.acks = @ - 1]
                       /\ UNCHANGED <<prog, now>>

\* The clock matters while a timer is set.
Tick == now < MaxTime /\ (\E c \in Conn : conn[c].timer > 0) /\ now' = now + 1 /\ UNCHANGED <<prog, ctl, caller>>

\* A connection attempt ends.
Establish(s) == /\ sock[s].st = "connecting"
                /\ \E st \in {"up", "refused"} : sock' = [sock EXCEPT ![s].st = st]

PeerConnects(s) == /\ sock[s].st = "listening" /\ sock[s].in < prog.conns
                   /\ sock' = [sock EXCEPT ![s].in = @ + 1, ![s].backlog = @ + 1]

PeerSends(s) ==
  /\ sock[s].st = "up" /\ ~sock[s].eof /\ sock[s].in < prog.in
  /\ IF IsDatagram(s)
     THEN \E p \in (IF Is(s, "LISTENING") THEN Peer ELSE {conn[s].sa}), k \in prog.kinds :
            LET data == IF k = "bytes" THEN <<sock[s].in + 1>> ELSE <<>>
            IN  sock' = [sock EXCEPT ![s].in = @ + 1,
                                     ![s].rx = Append(@, [from |-> p, kind |-> k, data |-> data])]
     ELSE sock' = [sock EXCEPT ![s].in = @ + 1, ![s].rx = Append(@, sock[s].in + 1)]

PeerReads(s) == sock[s].room < Room /\ sock' = [sock EXCEPT ![s].room = Room]

PeerCloses(s) == /\ sock[s].st = "up" /\ ~IsDatagram(s) /\ ~sock[s].eof
                 /\ sock' = [sock EXCEPT ![s].eof = TRUE]

PeerResets(s) == /\ sock[s].st = "up" /\ ~IsDatagram(s)
                 /\ sock' = [sock EXCEPT ![s].st = "reset", ![s].rx = <<>>]

IoState == <<conn, list, holder, pc, cur, next, fds, got, todo, History>>

\* What happens while a connection is handled might as well have happened before
\* or after, except between its read and its write.
World == /\ pc \in {"app", "conn", "write"}
         /\ \/ /\ UNCHANGED <<IoState, sock>>
               /\ Tick \/ \E b \in Caller : Broadcast(b) \/ BroadcastReturns(b)
            \/ /\ UNCHANGED <<IoState, Kernel>>
               /\ \E s \in Conn : \/ Establish(s) \/ PeerConnects(s) \/ PeerSends(s)
                                  \/ PeerReads(s) \/ PeerCloses(s) \/ PeerResets(s)

Next == AppCalls \/ AppFrees \/ IoThread \/ World

Spec == Init /\ [][Next]_vars

\* The loop around mg_mgr_poll goes on and the clock with it, connection attempts end, peers
\* go on reading and a thread whose recv has an answer returns.
FairSpec ==
  /\ Spec /\ WF_vars(IoThread) /\ WF_vars(Tick /\ UNCHANGED <<IoState, sock>>)
  /\ \A s \in Conn : WF_vars((Establish(s) \/ PeerReads(s)) /\ UNCHANGED <<IoState, Kernel>>)
  /\ \A b \in Caller : WF_vars(BroadcastReturns(b) /\ UNCHANGED <<IoState, sock>>)
-----------------------------------------------------------------------------
(* Properties. *)

Live == {c \in Conn : conn[c].st = "live"}

UpTo(n) == [i \in 1 .. n |-> i]

\* The descriptor of c is its own, or its listener's, and open.
InPlace(c) == /\ SockOf(c) \in {c, conn[c].listener}
              /\ sock[SockOf(c)].st # "closed"

\* The active list holds every connection in use once, whatever the handlers
\* flagged meanwhile; the pointers the loops of mg_socket_if_poll saved before
\* they called a handler point to connections that are not freed yet; only the
\* connection of a datagram's source can hold a descriptor that is closed or has become
\* another's, when its listener is gone; and one source of datagrams has one connection.
ListConsistent ==
  /\ IsInjective(list) /\ ToSet(list) = Live
  /\ cur \in Live \cup {None}
  /\ pc \in {"read", "datagram", "write", "poll", "timer"} => cur # None /\ next \in Live \cup {None}
  /\ pc = "datagram" => got.to \in Live
  /\ \A c \in Live : HasSock(c) /\ ~InPlace(c) => IsFake(c) /\ conn[conn[c].listener].st = "freed"
  /\ \A c, d \in Live : conn[c].listener # None /\ conn[c].listener = conn[d].listener
                        /\ IsFake(c) /\ conn[c].sa = conn[d].sa => c = d

\* Nothing but a datagram without bytes, or one from a new source without memory for it,
\* makes the manager free what is not its own or follow no pointer.
BreaksOnDatagrams == pc = "crashed" => Blank = {} \/ ~(prog.kinds \subseteq {"bytes"})

Ends(h) == {h, h \o <<"CLOSE">>}

\* The life of a connection as its handler sees it (mg_call): accepted or
\* connected once and first, then input and output, closed once and last;
\* nothing is read or written on one whose connect failed, and no block is
\* freed without the handler being told.
EventProtocol ==
  \A c \in Conn :
    /\ seen[c] \in Ends(<<>>) \cup Ends(<<"CONNECT_FAILED">>)
                   \cup UNION {Ends(<<o>>) \cup Ends(<<o, "IO">>) : o \in {"ACCEPT", "CONNECT"}}
    /\ conn[c].st = "freed" <=> seen[c] # <<>> /\ Last(seen[c]) = "CLOSE"

\* On a stream that works, the bytes the peer sent are those the handler
\* consumed, those in the receive buffer and those in the kernel, in order; the
\* bytes the application sent are those the peer got and those in the send buffer. Between
\* them the peer may get others, but only from a datagram connection that outlived its
\* listener and whose descriptor has become this one's.
StreamsIntact ==
  \A c \in Live : sock[c].st = "up" /\ ~Is(c, "UDP") /\ ~Is(c, "CLOSE_IMMEDIATELY") =>
    /\ took[c] \o conn[c].recv \o sock[c].rx = UpTo(sock[c].in)
    /\ sock[c].tx \o conn[c].send = UpTo(put[c])
    /\ \A e \in sock[c].alien \cap Live : IsFake(e) /\ conn[conn[e].listener].st = "freed"

\* A connection is closed before all it was to send is sent only because its
\* user asked for that, because the network failed or because the manager is
\* freed; a peer that shuts down its side still gets everything.
ClosedComplete ==
  \A c \in Conn :
    conn[c].st = "freed" /\ cause[c] = {} /\ sock[c].st = "closed" => sock[c].tx = UpTo(put[c])

\* The memory behind the receive buffer of a connection is its own: ownership of what the
\* interface received is transferred to the core (mongoose.h).
BuffersOwned == \A c \in Live : conn[c].buf = "own"

\* A datagram listener was closed before one of its connections: what that one
\* still has to send makes every later select fail.
Deaf == \E c \in Live : IsFake(c) /\ conn[c].send # <<>> /\ sock[SockOf(c)].st = "closed"

\* A TCP connection that is to be closed is closed, once what it has to say is said, unless
\* the manager has become deaf or broke down before (BreaksOnDatagrams).
FlaggedIsClosed ==
  \A c \in Conn :
    conn[c].st = "live" /\ ~Is(c, "UDP") /\ conn[c].flags \cap Modifiable # {}
      ~> conn[c].st = "freed" \/ conn[c].flags \cap Modifiable = {} \/ pc = "crashed" \/ Deaf

\* A timer that is set (behind now, which begins at 1) fires, is set anew or dies
\* with its connection, unless the manager breaks down before.
TimerFires ==
  \A c \in Conn, t \in 2 .. MaxTime : conn[c].timer = t ~> conn[c].timer # t \/ pc = "crashed"

\* A thread in mg_broadcast gets its answer, unless the manager is freed under it,
\* has become deaf or breaks down.
BroadcasterReturns ==
  \A b \in Caller : caller[b] = "blocked" ~> caller[b] = "returned" \/ pc \in {"freed", "crashed"} \/ Deaf

\* The loop comes round to whoever waits for it: the owner of a timer and the thread in
\* mg_broadcast.
WaitersServed == TimerFires /\ BroadcasterReturns
=============================================================================
