--------------------------- MODULE MCEventManager ---------------------------
(* Finite instances of EventManager. *)
EXTENDS EventManager

Quiet == [take |-> FALSE, send |-> 0, raise |-> {}, clear |-> {}, arm |-> FALSE]
Answer == [Quiet EXCEPT !.take = TRUE, !.send = 2]
Finish == [Quiet EXCEPT !.raise = {"SEND_AND_CLOSE"}]
Drop   == [Quiet EXCEPT !.raise = {"CLOSE_IMMEDIATELY"}]
Keep   == [Quiet EXCEPT !.clear = {"SEND_AND_CLOSE"}]
Arm    == [Quiet EXCEPT !.arm = TRUE]

\* On the events of f what f says, on the others nothing
Handler(f) == [ev \in Events |-> IF ev \in DOMAIN f THEN f[ev] ELSE {Quiet}]

Server == Handler([RECV |-> {Quiet, Answer, [Answer EXCEPT !.raise = {"SEND_AND_CLOSE"}]}])

Hurried == Handler([ACCEPT |-> {Finish}, POLL |-> {Drop}])

OneShot == Handler([RECV |-> {Finish}])

Client == Handler([CONNECT |-> {[Arm EXCEPT !.send = 1]}, RECV |-> {Answer, Finish},
                   TIMER |-> {Drop, Arm, Quiet}])

Datagrams == Handler([ACCEPT |-> {Quiet, Keep}, RECV |-> {Answer},
                      POLL |-> {Quiet, Drop, Finish}])

\* The listener goes first, the connection of its source when its output is gone.
Outlive == Handler([CONNECT |-> {[Quiet EXCEPT !.send = 1]}, RECV |-> {[Answer EXCEPT !.send = 1]},
                    POLL |-> {Finish}])

Run(calls, handler, conns, in, out) ==
  [calls |-> calls, handler |-> handler, conns |-> conns, in |-> in, out |-> out, kinds |-> {"bytes"}]

AnyDatagram(run) == [run EXCEPT !.kinds = Kinds]

\* A server with one busy client, with two clients, and with one more than there is
\* memory for; a client whose manager is freed; a datagram listener with two
\* sources, with broadcasts, and beside a stream that may get its descriptor; a
\* datagram client; and a listener and a client with datagrams that are empty or damaged
MCPrograms == {Run({"bind_tcp", "broadcast"}, Server, 1, 1, 2),
               Run({"bind_tcp"}, OneShot, 2, 1, 0),
               Run({"bind_tcp"}, Hurried, 3, 0, 0),
               Run({"connect_tcp", "free"}, Client, 0, 1, 2),
               Run({"bind_udp"}, Datagrams, 0, 2, 1),
               Run({"bind_udp", "broadcast"}, Datagrams, 0, 1, 1),
               Run({"bind_udp", "connect_tcp"}, Outlive, 0, 1, 2),
               Run({"connect_udp", "broadcast"}, Client, 0, 1, 1),
               AnyDatagram(Run({"bind_udp"}, OneShot, 0, 2, 0)),
               AnyDatagram(Run({"connect_udp", "broadcast"}, Client, 0, 1, 1))}
=============================================================================
