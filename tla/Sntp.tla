-------------------------------- MODULE Sntp --------------------------------
(***************************************************************************)
(* mongoose's SNTP client (sntp.c): a datagram connection that sends a     *)
(* request, repeats it on a timer and tells its user the time or that it   *)
(* failed. Here are its connection and its handlers; who delivers the      *)
(* events is in Resolver.                                                  *)
(***************************************************************************)
EXTENDS Naturals, Sequences

CONSTANTS SntpAttempts,  \* SNTP_ATTEMPTS
          SntpTimeout    \* SNTP_TIMEOUT

ASSUME SntpConstants == SntpAttempts \in Nat /\ SntpTimeout \in Nat \ {0}

VARIABLES nc,     \* the connection to the time server
          count,  \* sntp_data.count
          now,    \* the clock, in seconds
          told    \* history: what the user's handler got

\* A connection of the event manager, as far as one that sends datagrams needs it:
\* sock is whether it has one, send the datagrams' worth of bytes in send_mbuf.
NewConn == [st |-> "live", sock |-> FALSE, connecting |-> FALSE, resolving |-> FALSE,
            err |-> FALSE, closing |-> FALSE, send |-> 0, timer |-> 0, rx |-> <<>>]

NoConn == [NewConn EXCEPT !.st = "none"]
Freed == [NewConn EXCEPT !.st = "freed"]

Closing(r) == [r EXCEPT !.closing = TRUE]

\* mg_do_connect and mg_socket_if_connect_udp: there may be no descriptor left.
Connecting(r) == {[r EXCEPT !.connecting = TRUE, !.sock = TRUE],
                  [r EXCEPT !.connecting = TRUE, !.err = TRUE]}

\* mg_sntp_parse_reply
IsReply(d) == d.len >= 48 /\ d.version = 4 /\ d.mode \in {4, 5}

Tell(what) == told' = Append(told, what)

\* Mutant: the request is repeated for ever.
SendRequest_Uncounted(r) ==
  /\ nc' = [r EXCEPT !.send = @ + 1, !.timer = now + SntpTimeout]
  /\ UNCHANGED <<count, told>>

\* mg_sntp_send_request and the timer behind it
SendRequest(r) ==
  /\ nc' = [r EXCEPT !.send = @ + 1, !.timer = now + SntpTimeout]
  /\ count' = count + 1
  /\ UNCHANGED told

\* mg_sntp_util_ev_handler on MG_EV_CONNECT and MG_EV_TIMER; r is the connection as the
\* caller of the handler left it.
Attempt(r) ==
  IF count <= SntpAttempts THEN SendRequest(r)
  ELSE Tell("FAILED") /\ nc' = Closing(r) /\ UNCHANGED count

\* ... when the connection could not be made
CannotConnect(r) == Tell("FAILED") /\ nc' = r /\ UNCHANGED count

\* mg_sntp_handler, with mg_sntp_util_ev_handler under it: the reply is parsed,
\* the user told, and the connection is over either way.
Reply(r, d) ==
  /\ Tell(IF IsReply(d) THEN "REPLY" ELSE "FAILED")
  /\ nc' = Closing(r)
  /\ UNCHANGED count

SntpHandler(r, ev, d) ==
  \/ ev \in {"CONNECT", "TIMER"} /\ Attempt(r)
  \/ ev = "CONNECT_FAILED" /\ CannotConnect(r)
  \/ ev = "RECV" /\ Reply(r, d)
  \/ ev = "CLOSE" /\ nc' = Freed /\ UNCHANGED <<count, told>>
  \/ ev \in {"SEND", "POLL"} /\ nc' = r /\ UNCHANGED <<count, told>>
=============================================================================
