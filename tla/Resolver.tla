------------------------------ MODULE Resolver ------------------------------
(***************************************************************************)
(* mongoose's asynchronous resolver (resolv.c) under mg_connect_opt        *)
(* (net.c), for a user that connects to a host by name: an SNTP client.    *)
(* The connection the user holds waits outside the active list while a     *)
(* second one asks the name server; the answer, the last time-out or       *)
(* mg_mgr_free end the request, and its callback lets the first connection *)
(* go on or destroys it. Datagrams are lost, delayed and repeated, sendto  *)
(* fails, timers run out between any two steps of a round of the event     *)
(* manager, which is EventManager's for the one connection that is in the  *)
(* list.                                                                   *)
(***************************************************************************)
EXTENDS Sntp

CONSTANTS MaxRetries, Timeout,  \* what mg_resolve_async_opt defaults to
          DnsAnswers,           \* responses of the name server: the types of the
                                \* answers in them, none also when mg_parse_dns refuses it
          SntpReplies,          \* the datagrams of the time server
          Late,                 \* how many datagrams are on their way at once
          MaxTime               \* bound on the clock

ASSUME ResolverConstants ==
  MaxRetries \in Nat /\ Timeout \in Nat \ {0} /\ Late \in Nat /\ MaxTime \in Nat

VARIABLES dns,      \* the connection to the name server
          req,      \* the request: struct mg_resolve_async_request
          reached,  \* the servers that got a datagram
          pc, cur,  \* where the I/O thread is, and with which connection
          fds,      \* what select saw, and when
          calls,    \* what the application may still do
          outcomes  \* history: runs of resolve_cb

vars == <<nc, count, now, told, dns, req, reached, pc, cur, fds, calls, outcomes>>

\* Events without data
None == {}

NoReq == [st |-> "none", retries |-> 0, last |-> 0, err |-> "OK"]

Init == /\ nc = NoConn /\ dns = NoConn /\ req = NoReq
        /\ count = 0 /\ told = <<>> /\ outcomes = 0 /\ now = 10 * Timeout
        /\ reached = {} /\ pc = "app" /\ cur = "none"
        /\ fds = [r |-> FALSE, w |-> FALSE, at |-> 0]
        /\ calls = {"get_time", "set_timer", "give_up", "free"}
-----------------------------------------------------------------------------
(* The application, between two polls. *)

AppOnly == UNCHANGED <<now, told, count, reached, pc, cur, fds, outcomes>>

\* mg_sntp_get_time, mg_connect_opt: with an address the connection is under way at
\* once, with a name mg_resolve_async_opt connects to the name server first.
GetTime ==
  /\ "get_time" \in calls
  /\ calls' = calls \ {"get_time"}
  /\ \/ nc' \in Connecting(NewConn) /\ UNCHANGED <<dns, req>>
     \/ /\ nc' = [NewConn EXCEPT !.resolving = TRUE]
        /\ dns' \in Connecting(NewConn)
        /\ req' = [NoReq EXCEPT !.st = "live"]
  /\ AppOnly

\* mg_set_timer: a connection that is resolving has its timer on both.
SetTimer ==
  /\ "set_timer" \in calls /\ nc.st = "live"
  /\ calls' = calls \ {"set_timer"}
  /\ nc' = [nc EXCEPT !.timer = now + Timeout]
  /\ dns' = IF nc.resolving THEN [dns EXCEPT !.timer = now + Timeout] ELSE dns
  /\ UNCHANGED req /\ AppOnly

\* The user flags the connection it holds.
GiveUp == /\ "give_up" \in calls /\ nc.st = "live"
          /\ calls' = calls \ {"give_up"} /\ nc' = Closing(nc)
          /\ UNCHANGED <<dns, req>> /\ AppOnly

\* mg_mgr_free polls once more.
AppFrees == /\ "free" \in calls /\ nc.st # "none"
            /\ calls' = {"freeing"} /\ UNCHANGED <<nc, dns, req>> /\ AppOnly

App == pc = "app" /\ "freeing" \notin calls /\ (GetTime \/ SetTimer \/ GiveUp \/ AppFrees)
-----------------------------------------------------------------------------
(* The end of a request. *)

\* Mutant: resolve_cb forgets that the connection no longer resolves.
Proceed_StillResolving == nc' \in Connecting(nc)

\* mg_do_connect of the connection that waited
Proceed == nc' \in Connecting([nc EXCEPT !.resolving = FALSE])

\* resolve_cb: the first A record is the address to connect to. Without one the
\* user sees the timer it set, if that ended the request, then a failed connect and a
\* close, and the connection is destroyed.
ResolveCb(answers, err) ==
  /\ outcomes' = outcomes + 1
  /\ IF "A" \in answers THEN Proceed /\ UNCHANGED <<count, told>>
     ELSE /\ nc' = Freed
          /\ Tell("FAILED")
          /\ count' = IF err = "TIMEOUT" THEN count + 1 ELSE count

FreeReq == req' = [req EXCEPT !.st = "freed"]

KeepNc == UNCHANGED <<nc, count, told, outcomes>>

\* mg_send_dns_query
Query(r) == /\ dns' = [r EXCEPT !.send = @ + 1]
            /\ req' = [req EXCEPT !.last = now, !.retries = @ + 1]

\* mg_resolve_async_eh on MG_EV_CONNECT (first) and on MG_EV_POLL
AskOrGiveUp(r, first) ==
  /\ KeepNc
  /\ IF req.retries > MaxRetries
     THEN dns' = Closing(r) /\ req' = [req EXCEPT !.err = "EXCEEDED_RETRY_COUNT"]
     ELSE IF first \/ now - req.last >= Timeout THEN Query(r)
     ELSE dns' = r /\ UNCHANGED req

\* Mutant: the request survives its answer, and ends once more when the connection closes.
Answered_KeepsReq(r, answers) ==
  /\ dns' = Closing(r)
  /\ IF answers # {} THEN ResolveCb(answers, "OK") /\ UNCHANGED req
     ELSE req' = [req EXCEPT !.err = "NO_ANSWERS"] /\ KeepNc

\* ... on MG_EV_RECV; answers is empty when the response does not parse
Answered(r, answers) ==
  /\ dns' = Closing(r)
  /\ IF answers # {} THEN ResolveCb(answers, "OK") /\ FreeReq
     ELSE req' = [req EXCEPT !.err = "NO_ANSWERS"] /\ KeepNc

\* mg_resolve_async_eh for a connection whose request is over
Unclaimed(r, ev) ==
  /\ dns' = (IF ev = "CLOSE" THEN Freed ELSE r)
  /\ KeepNc /\ UNCHANGED req

\* mg_resolve_async_eh
ResolveEh(r, ev, answers) ==
  \/ req.st # "live" /\ Unclaimed(r, ev)
  \/ /\ req.st = "live"
     /\ \/ ev \in {"CONNECT", "POLL"} /\ AskOrGiveUp(r, ev = "CONNECT")
        \/ ev = "RECV" /\ Answered(r, answers)
        \/ /\ ev = "SEND" /\ dns' = [r EXCEPT !.closing = FALSE, !.send = 0]
           /\ KeepNc /\ UNCHANGED req
        \/ /\ ev = "TIMER" /\ dns' = Closing(r) /\ KeepNc
           /\ req' = [req EXCEPT !.err = "TIMEOUT"]
        \/ ev = "CLOSE" /\ dns' = Freed /\ ResolveCb({}, req.err) /\ FreeReq
-----------------------------------------------------------------------------
(* A round of mg_mgr_poll. *)

\* In the active list: resolve_cb puts the connection there.
Listed == {x \in {"dns", "nc"} : IF x = "dns" THEN dns.st = "live"
                                 ELSE nc.st = "live" /\ ~nc.resolving}

Of(x) == IF x = "dns" THEN dns ELSE nc

C == Of(cur)

\* The connection at hand, as the event manager leaves it, and its event
Call(r, ev, data) ==
  IF cur = "dns" THEN ResolveEh(r, ev, data)
  ELSE SntpHandler(r, ev, data) /\ UNCHANGED <<dns, req, outcomes>>

NoCall == UNCHANGED <<nc, count, told, dns, req, outcomes>>

Ready(r) == [r |-> r.sock /\ r.rx # <<>>, w |-> r.sock /\ (r.connecting \/ r.send > 0), at |-> now]

Select == /\ pc = "app"
          /\ \E x \in Listed : cur' = x /\ fds' = Ready(Of(x))
          /\ pc' = "connect"
          /\ UNCHANGED <<now, reached, calls>> /\ NoCall

HandleConnecting ==
  /\ pc = "connect" /\ pc' = "read"
  /\ LET r == [C EXCEPT !.connecting = FALSE]
     IN  IF C.connecting /\ (fds.r \/ fds.w) THEN Call(r, "CONNECT", None)
         ELSE IF C.connecting /\ C.err
         THEN Call(Closing(r), IF cur = "dns" THEN "CONNECT" ELSE "CONNECT_FAILED", None)
         ELSE NoCall
  /\ UNCHANGED <<now, reached, cur, fds, calls>>

\* A connection that is to close takes no more input (mg_recv_common).
HandleRead ==
  /\ pc = "read" /\ pc' = "write"
  /\ LET r == [C EXCEPT !.rx = Tail(@)]
     IN  IF ~fds.r \/ C.rx = <<>> THEN NoCall
         ELSE IF C.closing
         THEN /\ IF cur = "dns" THEN dns' = r /\ UNCHANGED nc ELSE nc' = r /\ UNCHANGED dns
              /\ UNCHANGED <<count, told, req, outcomes>>
         ELSE Call(r, "RECV", Head(C.rx))
  /\ UNCHANGED <<now, reached, cur, fds, calls>>

\* sendto takes all that is in the buffer as one datagram, or fails and leaves it there.
HandleWrite ==
  /\ pc = "write" /\ pc' = IF C.closing THEN "sweep" ELSE "poll"
  /\ IF C.closing \/ ~fds.w \/ C.send = 0 THEN NoCall /\ UNCHANGED reached
     ELSE \/ Call([C EXCEPT !.send = 0], "SEND", None) /\ reached' = reached \cup {cur}
          \/ NoCall /\ UNCHANGED reached
  /\ UNCHANGED <<now, cur, fds, calls>>

HandlePoll == /\ pc = "poll" /\ Call(C, "POLL", None)
              /\ pc' = IF C.timer > 0 /\ fds.at >= C.timer THEN "timer" ELSE "sweep"
              /\ UNCHANGED <<now, reached, cur, fds, calls>>

\* The timer is off unless the handler sets it anew (mg_if_timer).
HandleTimer == /\ pc = "timer" /\ pc' = "sweep"
               /\ Call([C EXCEPT !.timer = 0], "TIMER", None)
               /\ UNCHANGED <<now, reached, cur, fds, calls>>

\* The connections that are to close, and in mg_mgr_free all of them, are told and freed.
Doomed == {x \in Listed : pc = "freeing" \/ Of(x).closing}

Sweep ==
  /\ pc \in {"sweep", "freeing"}
  /\ IF Doomed # {}
     THEN /\ cur' = CHOOSE x \in Doomed : TRUE
          /\ pc' = IF pc = "sweep" THEN "close" ELSE "free"
     ELSE /\ UNCHANGED cur
          /\ pc' = IF pc = "freeing" THEN "freed"
                   ELSE IF "freeing" \in calls THEN "freeing" ELSE "app"
  /\ UNCHANGED <<now, reached, fds, calls>> /\ NoCall

Close == /\ pc \in {"close", "free"} /\ Call(C, "CLOSE", None)
         /\ pc' = IF pc = "close" THEN "sweep" ELSE "freeing"
         /\ UNCHANGED <<now, reached, cur, fds, calls>>

IoThread == \/ Select \/ HandleConnecting \/ HandleRead \/ HandleWrite \/ HandlePoll
            \/ HandleTimer \/ Sweep \/ Close
-----------------------------------------------------------------------------
(* The servers and the clock. A server that was reached may answer at any time, more *)
(* than once, or never.                                                              *)

Arrives(r, d) == [r EXCEPT !.rx = Append(@, d)]

ServerAnswers ==
  /\ \/ /\ "dns" \in reached /\ dns.st = "live" /\ Len(dns.rx) < Late
        /\ \E d \in DnsAnswers : dns' = Arrives(dns, d)
        /\ UNCHANGED nc
     \/ /\ "nc" \in reached /\ nc.st = "live" /\ Len(nc.rx) < Late
        /\ \E d \in SntpReplies : nc' = Arrives(nc, d)
        /\ UNCHANGED dns
  /\ UNCHANGED <<count, told, req, reached, now, pc, cur, fds, calls, outcomes>>

\* The application polls at least once a second: a round began in this second.
Polled == fds.at = now \/ Listed = {}

Tick == /\ now < MaxTime /\ pc \in {"app", "read", "poll"} /\ nc.st = "live" /\ Polled
        /\ now' = now + 1
        /\ UNCHANGED <<nc, count, told, dns, req, reached, pc, cur, fds, calls, outcomes>>

Next == App \/ IoThread \/ ServerAnswers \/ Tick

Spec == Init /\ [][Next]_vars

\* The application goes on polling, and the clock goes on (strongly fair, because Tick
\* leaves out the places where it would make no difference).
FairSpec == Spec /\ WF_vars(IoThread) /\ SF_vars(Tick)
-----------------------------------------------------------------------------
(* Properties. *)

\* Whoever holds the request, the connection it will tell is still there and waits, and
\* nothing waits for a request that is over: resolve_cb never runs on a freed
\* connection, and runs once (mg_resolve_async_eh, resolve_cb).
RequestOwned ==
  /\ req.st = "live" => dns.st = "live" /\ nc.st = "live" /\ nc.resolving /\ outcomes = 0
  /\ req.st # "live" => ~nc.resolving
  /\ outcomes <= 1

\* mg_sntp_get_time tells its handler the time or the failure once, whatever timers,
\* lost and repeated datagrams do, and no connection ends without that unless its
\* user flagged it or freed the manager.
OneAnswer ==
  /\ Len(told) <= 1
  /\ nc.st = "freed" /\ {"give_up", "free"} \subseteq calls => Len(told) = 1

\* Servers that stay silent, and a sendto that fails, do not keep the user waiting for
\* ever: a request for the time ends.
AnswerComes == nc.st = "live" ~> nc.st = "freed"
=============================================================================
