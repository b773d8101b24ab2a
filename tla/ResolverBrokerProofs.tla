------------------------ MODULE ResolverBrokerProofs ------------------------
(***************************************************************************)
(* What is proved of mongoose's resolver with its SNTP client, and of its  *)
(* MQTT broker; neither calls the other. Of the resolver, for every number *)
(* of attempts and retries, time-out, clock and number of datagrams under  *)
(* way, whatever the servers send: the request and the connection that     *)
(* waits for it are never without one another, its callback runs once, and *)
(* the user of mg_sntp_get_time is told once. Of the broker, for any       *)
(* clients, topics, expressions and number of messages, and wherever the   *)
(* streams are cut: each message is handled in order, once when it is      *)
(* whole and at most once before, what stays behind of that in the list of *)
(* sessions does no harm, and what was handled is delivered as handled.    *)
(***************************************************************************)
EXTENDS Resolver, MqttBroker, FiniteSetTheorems, SequenceTheorems, WellFoundedInduction, TLAPS

(* The resolver: types *)

State == {"none", "live", "freed"}
Conn == [st : State, sock : BOOLEAN, connecting : BOOLEAN, resolving : BOOLEAN, err : BOOLEAN,
         closing : BOOLEAN, send : Nat, timer : Nat, rx : Seq(DnsAnswers \cup SntpReplies)]
Error == {"OK", "EXCEEDED_RETRY_COUNT", "NO_ANSWERS", "TIMEOUT"}
Req == [st : State, retries : Nat, last : Nat, err : Error]
Outcome == {"REPLY", "FAILED"}

\* Where the thread is in a round: with a connection at hand, or sweeping.
AtConn == {"connect", "read", "write", "poll", "timer", "close", "free"}
Place == {"app", "sweep", "freeing", "freed"} \cup AtConn

TypeOK ==
  /\ nc \in Conn /\ dns \in Conn /\ req \in Req
  /\ count \in Nat /\ now \in Nat /\ outcomes \in Nat /\ told \in Seq(Outcome)
  /\ pc \in Place /\ cur \in {"none", "dns", "nc"}
  /\ calls \subseteq {"get_time", "set_timer", "give_up", "free", "freeing"}

(* The connections *)

LEMMA ConnConstants == NewConn \in Conn /\ NoConn \in Conn /\ Freed \in Conn /\ NoReq \in Req
<1>1. <<>> \in Seq(DnsAnswers \cup SntpReplies)
  OBVIOUS
<1>2. NewConn \in Conn
  BY <1>1 DEF NewConn, Conn, State
<1>3. \A r \in Conn : [r EXCEPT !.st = "none"] \in Conn /\ [r EXCEPT !.st = "freed"] \in Conn
  BY DEF Conn, State
<1>4. NoConn \in Conn /\ Freed \in Conn
  BY <1>2, <1>3 DEF NoConn, Freed
<1>5. NoReq \in Req
  BY DEF NoReq, Req, State, Error
<1> QED BY <1>2, <1>4, <1>5

LEMMA Constants ==
  /\ NewConn.st = "live" /\ ~NewConn.resolving /\ ~NewConn.closing
  /\ NoConn.st = "none" /\ ~NoConn.resolving
  /\ Freed.st = "freed" /\ ~Freed.resolving
  /\ NoReq.st = "none"
BY DEF NewConn, NoConn, Freed, NoReq

\* What a field of a connection is set to leaves the others alone.
LEMMA ClosingKeeps ==
  ASSUME NEW r \in Conn
  PROVE  /\ Closing(r) \in Conn /\ Closing(r).closing
         /\ Closing(r).st = r.st /\ Closing(r).resolving = r.resolving
BY DEF Conn, Closing

LEMMA Sends ==
  ASSUME NEW r \in Conn, NEW n \in Nat, NEW q, q = [r EXCEPT !.send = n]
  PROVE  q \in Conn /\ q.st = r.st /\ q.resolving = r.resolving /\ q.closing = r.closing
BY DEF Conn

LEMMA ConnectingKeeps ==
  ASSUME NEW r \in Conn, NEW q \in Connecting(r)
  PROVE  q \in Conn /\ q.st = r.st /\ q.resolving = r.resolving /\ q.closing = r.closing
BY DEF Conn, Connecting

LEMMA Telling ==
  ASSUME told \in Seq(Outcome), NEW what \in Outcome, Tell(what)
  PROVE  told' \in Seq(Outcome) /\ Len(told') = Len(told) + 1
BY DEF Tell

-----------------------------------------------------------------------------
(* The handlers *)

\* What the handler of the time server's connection does to it and to its user.
SameToUser(r) ==
  /\ nc'.st = r.st /\ nc'.resolving = r.resolving /\ nc'.closing = r.closing /\ told' = told
ToldUser(r) ==
  /\ nc'.st = r.st /\ nc'.resolving = r.resolving /\ nc'.closing /\ Len(told') = Len(told) + 1

LEMMA SntpSteps ==
  ASSUME TypeOK, NEW r \in Conn, NEW ev, NEW d, SntpHandler(r, ev, d),
         ev = "CONNECT_FAILED" => r.closing
  PROVE  /\ nc' \in Conn /\ count' \in Nat /\ told' \in Seq(Outcome)
         /\ \/ ev = "CLOSE" /\ nc' = Freed /\ told' = told
            \/ ev \notin {"CLOSE", "CONNECT_FAILED"} /\ SameToUser(r)
            \/ ev \in {"CONNECT", "CONNECT_FAILED", "TIMER", "RECV"} /\ ToldUser(r)
<1>0. count \in Nat /\ told \in Seq(Outcome) /\ now + SntpTimeout \in Nat /\ r.send + 1 \in Nat
  BY SntpConstants DEF TypeOK, Conn
<1>1. CASE ev \in {"CONNECT", "TIMER"} /\ Attempt(r)
  <2>1. CASE SendRequest(r)
    <3>1. nc' = [r EXCEPT !.send = r.send + 1, !.timer = now + SntpTimeout]
      BY <2>1 DEF SendRequest
    <3>2. nc' \in Conn /\ nc'.st = r.st /\ nc'.resolving = r.resolving /\ nc'.closing = r.closing
      BY <1>0, <3>1 DEF Conn
    <3> QED BY <1>0, <1>1, <2>1, <3>2 DEF SendRequest, SameToUser
  <2>2. CASE Tell("FAILED") /\ nc' = Closing(r) /\ UNCHANGED count
    BY <1>0, <1>1, <2>2, Telling, ClosingKeeps DEF ToldUser, Outcome
  <2> QED BY <1>1, <2>1, <2>2 DEF Attempt
<1>2. CASE ev = "CONNECT_FAILED" /\ CannotConnect(r)
  BY <1>0, <1>2, Telling DEF CannotConnect, ToldUser, Outcome
<1>3. CASE ev = "RECV" /\ Reply(r, d)
  BY <1>0, <1>3, Telling, ClosingKeeps DEF Reply, ToldUser, Outcome
<1>4. CASE ev = "CLOSE" /\ nc' = Freed /\ UNCHANGED <<count, told>>
  BY <1>0, <1>4, ConnConstants
<1>5. CASE ev \in {"SEND", "POLL"} /\ nc' = r /\ UNCHANGED <<count, told>>
  BY <1>0, <1>5 DEF SameToUser
<1> QED BY <1>1, <1>2, <1>3, <1>4, <1>5 DEF SntpHandler

\* What the handler of the name server's connection does: it goes on, it ends the
\* request and with it the wait of the other connection, or it closes after the end.
GoesOn(ev) ==
  /\ ev # "CLOSE" /\ dns'.st = "live" /\ req'.st = req.st
  /\ UNCHANGED <<nc, told, outcomes>>
Ends ==
  /\ req.st = "live" /\ req'.st = "freed" /\ outcomes' = outcomes + 1
  /\ \/ /\ nc'.st = nc.st /\ ~nc'.resolving /\ nc'.closing = nc.closing /\ told' = told
     \/ nc' = Freed /\ Len(told') = Len(told) + 1
ClosesLate(ev) ==
  /\ ev = "CLOSE" /\ req.st # "live" /\ dns' = Freed /\ UNCHANGED <<nc, told, req, outcomes>>

LEMMA ResolveCbSteps ==
  ASSUME TypeOK, NEW answers, NEW err, ResolveCb(answers, err)
  PROVE  /\ nc' \in Conn /\ count' \in Nat /\ told' \in Seq(Outcome)
         /\ outcomes' = outcomes + 1
         /\ \/ /\ nc'.st = nc.st /\ ~nc'.resolving /\ nc'.closing = nc.closing /\ told' = told
            \/ nc' = Freed /\ Len(told') = Len(told) + 1
<1>0. nc \in Conn /\ count \in Nat /\ told \in Seq(Outcome)
  BY DEF TypeOK
<1>1. CASE "A" \in answers
  <2>1. Proceed /\ UNCHANGED <<count, told>> /\ outcomes' = outcomes + 1
    BY <1>1 DEF ResolveCb
  <2> DEFINE r == [nc EXCEPT !.resolving = FALSE]
  <2>2. r \in Conn /\ r.st = nc.st /\ ~r.resolving /\ r.closing = nc.closing
    BY <1>0 DEF Conn
  <2>3. nc' \in Connecting(r)
    BY <2>1 DEF Proceed
  <2> HIDE DEF r
  <2> QED BY <1>0, <2>1, <2>2, <2>3, ConnectingKeeps
<1>2. CASE "A" \notin answers
  BY <1>0, <1>2, ConnConstants, Telling DEF ResolveCb, Outcome
<1> QED BY <1>1, <1>2

LEMMA ResolveSteps ==
  ASSUME TypeOK, NEW r \in Conn, r.st = "live", NEW ev, NEW answers, ResolveEh(r, ev, answers)
  PROVE  /\ nc' \in Conn /\ dns' \in Conn /\ req' \in Req
         /\ count' \in Nat /\ told' \in Seq(Outcome) /\ outcomes' \in Nat
         /\ \/ GoesOn(ev)
            \/ Ends /\ ev = "CLOSE" /\ dns' = Freed
            \/ Ends /\ ev # "CLOSE" /\ dns'.st = "live"
            \/ ClosesLate(ev)
<1>0. /\ nc \in Conn /\ req \in Req /\ count \in Nat /\ told \in Seq(Outcome) /\ outcomes \in Nat
      /\ now \in Nat
  BY DEF TypeOK
<1>b. KeepNc => nc' \in Conn /\ count' \in Nat /\ told' \in Seq(Outcome) /\ outcomes' \in Nat
                /\ nc' = nc /\ told' = told /\ outcomes' = outcomes
  BY <1>0 DEF KeepNc
<1>c. ASSUME FreeReq PROVE req' \in Req /\ req'.st = "freed"
  BY <1>0, <1>c DEF FreeReq, Req, State
<1>d. Closing(r) \in Conn /\ Closing(r).st = "live"
  BY ClosingKeeps
<1>1. CASE req.st # "live" /\ Unclaimed(r, ev)
  <2>1. CASE ev = "CLOSE"
    BY <1>0, <1>1, <1>b, <2>1, ConnConstants DEF Unclaimed, ClosesLate
  <2>2. CASE ev # "CLOSE"
    BY <1>0, <1>1, <1>b, <2>2 DEF Unclaimed, GoesOn
  <2> QED BY <2>1, <2>2
<1>2. CASE req.st = "live" /\ ev \in {"CONNECT", "POLL"} /\ AskOrGiveUp(r, ev = "CONNECT")
  <2>0. KeepNc
    BY <1>2 DEF AskOrGiveUp
  <2>1. CASE dns' = Closing(r) /\ req' = [req EXCEPT !.err = "EXCEEDED_RETRY_COUNT"]
    <3>1. req' = [req EXCEPT !.err = "EXCEEDED_RETRY_COUNT"]
      BY <2>1
    <3>2. req' \in Req /\ req'.st = req.st
      BY <1>0, <3>1 DEF Req, Error
    <3> QED BY <1>2, <3>2, <1>b, <1>d, <2>0, <2>1 DEF GoesOn
  <2>2. CASE Query(r)
    <3>1. r.send + 1 \in Nat /\ req.retries + 1 \in Nat
      BY <1>0 DEF Conn, Req
    <3>2. /\ dns' = [r EXCEPT !.send = r.send + 1]
          /\ req' = [req EXCEPT !.last = now, !.retries = req.retries + 1]
      BY <2>2 DEF Query
    <3>3. dns' \in Conn /\ dns'.st = "live"
      BY <1>0, <3>1, <3>2, Sends
    <3>5. req' \in Req /\ req'.st = req.st
      BY <1>0, <3>1, <3>2 DEF Req
    <3> QED BY <1>2, <1>b, <2>0, <3>3, <3>5 DEF GoesOn
  <2>3. CASE dns' = r /\ UNCHANGED req
    BY <1>0, <1>2, <1>b, <2>0, <2>3 DEF GoesOn
  <2> QED BY <1>2, <2>1, <2>2, <2>3 DEF AskOrGiveUp
<1>3. CASE req.st = "live" /\ ev = "RECV" /\ Answered(r, answers)
  <2>1. CASE answers # {}
    <3>1. ResolveCb(answers, "OK") /\ FreeReq /\ dns' = Closing(r)
      BY <1>3, <2>1 DEF Answered
    <3>2. Ends /\ outcomes' \in Nat
      BY <1>0, <1>3, <1>c, <3>1, ResolveCbSteps DEF Ends
    <3> QED BY <1>3, <1>c, <1>d, <3>1, <3>2, ResolveCbSteps
  <2>2. CASE answers = {}
    <3>1. req' = [req EXCEPT !.err = "NO_ANSWERS"]
      BY <1>3, <2>2 DEF Answered
    <3>2. req' \in Req /\ req'.st = req.st
      BY <1>0, <3>1 DEF Req, Error
    <3> QED BY <1>3, <3>2, <1>b, <1>d, <2>2 DEF Answered, GoesOn
  <2> QED BY <2>1, <2>2
<1>4. CASE req.st = "live" /\ ev = "SEND" /\ dns' = [r EXCEPT !.closing = FALSE, !.send = 0]
           /\ KeepNc /\ UNCHANGED req
  <2>1. dns' \in Conn /\ dns'.st = "live"
    BY <1>4 DEF Conn
  <2> QED BY <1>0, <1>4, <1>b, <2>1 DEF GoesOn
<1>5. CASE req.st = "live" /\ ev = "TIMER" /\ dns' = Closing(r) /\ KeepNc
           /\ req' = [req EXCEPT !.err = "TIMEOUT"]
  <2>1. req' = [req EXCEPT !.err = "TIMEOUT"]
    BY <1>5
  <2>2. req' \in Req /\ req'.st = req.st
    BY <1>0, <2>1 DEF Req, Error
  <2> QED BY <1>5, <2>2, <1>b, <1>d DEF GoesOn
<1>6. CASE req.st = "live" /\ ev = "CLOSE" /\ dns' = Freed /\ ResolveCb({}, req.err) /\ FreeReq
  <2>1. Ends /\ outcomes' \in Nat
    BY <1>0, <1>6, <1>c, ResolveCbSteps DEF Ends
  <2> QED BY <1>6, <1>c, <2>1, ResolveCbSteps, ConnConstants
<1> QED BY <1>1, <1>2, <1>3, <1>4, <1>5, <1>6 DEF ResolveEh
-----------------------------------------------------------------------------
(* The invariant *)

\* The connection at hand is one of the active list.
AtHand == \/ cur = "dns" /\ dns.st = "live"
          \/ cur = "nc" /\ nc.st = "live" /\ ~nc.resolving

ControlOK ==
  /\ pc \in AtConn => AtHand
  /\ pc = "close" /\ cur = "nc" => nc.closing
  /\ pc \in {"freeing", "free", "freed"} => "freeing" \in calls
  /\ "freeing" \in calls => "free" \notin calls
  /\ "get_time" \in calls => /\ nc = NoConn /\ dns = NoConn /\ req = NoReq
                             /\ outcomes = 0 /\ told = <<>> /\ pc = "app"

\* Once the user was told, its connection is on the way to the sweep of this very round.
Leaving == \/ pc \in {"read", "write"} /\ cur = "nc"
           \/ pc \in {"sweep", "close", "freeing", "free"}

ToldOK ==
  /\ Len(told) <= 1
  /\ Len(told) = 1 /\ nc.st = "live" => nc.closing /\ ~nc.resolving /\ Leaving
  /\ nc.st = "live" /\ nc.closing /\ "give_up" \in calls => Len(told) = 1
  /\ nc.st = "freed" /\ {"give_up", "free"} \subseteq calls => Len(told) = 1

ResolverInv == TypeOK /\ ControlOK /\ ToldOK /\ RequestOwned

\* What a handler may have done to the user's connection: nothing the user could see;
\* destroyed it, because the name could not be resolved; told the user and flagged it;
\* or freed it, its last event.
Unseen(r, ev) ==
  /\ told' = told /\ nc'.st = nc.st /\ (nc'.resolving => nc.resolving)
  /\ \/ cur = "dns" /\ nc'.closing = nc.closing
     \/ cur = "nc" /\ nc'.closing = r.closing /\ ev \notin {"CLOSE", "CONNECT_FAILED"}
Unresolved == /\ cur = "dns" /\ nc.st = "live" /\ nc.resolving
              /\ nc' = Freed /\ Len(told') = Len(told) + 1
Notified(ev) == /\ cur = "nc" /\ ev \in {"CONNECT", "CONNECT_FAILED", "TIMER", "RECV"}
                /\ nc'.st = "live" /\ ~nc'.resolving /\ nc'.closing
                /\ Len(told') = Len(told) + 1
Gone(ev) == cur = "nc" /\ ev = "CLOSE" /\ nc' = Freed /\ told' = told

Typed == /\ nc' \in Conn /\ dns' \in Conn /\ req' \in Req
         /\ count' \in Nat /\ told' \in Seq(Outcome) /\ outcomes' \in Nat

LEMMA CallSteps ==
  ASSUME TypeOK, RequestOwned, AtHand, NEW r \in Conn, r.st = "live",
         r.resolving = C.resolving, NEW ev, NEW data, Call(r, ev, data),
         ev = "CONNECT_FAILED" => r.closing
  PROVE  /\ Typed /\ RequestOwned'
         /\ ev # "CLOSE" /\ cur = "dns" => dns'.st = "live"
         /\ ev # "CLOSE" /\ cur = "nc" => nc'.st = "live" /\ ~nc'.resolving
         /\ Unseen(r, ev) \/ Unresolved \/ Notified(ev) \/ Gone(ev)
<1>0. nc \in Conn /\ dns \in Conn /\ req \in Req /\ outcomes \in Nat /\ told \in Seq(Outcome)
  BY DEF TypeOK
<1>1. CASE cur = "dns"
  <2>0. ResolveEh(r, ev, data)
    BY <1>1 DEF Call
  <2>1. Typed
    BY <2>0, ResolveSteps DEF Typed
  <2>2. CASE GoesOn(ev)
    <3>1. nc' = nc /\ told' = told /\ outcomes' = outcomes /\ req'.st = req.st
          /\ dns'.st = "live" /\ ev # "CLOSE"
      BY <2>2 DEF GoesOn
    <3>2. Unseen(r, ev)
      BY <1>1, <3>1 DEF Unseen
    <3>3. RequestOwned'
      BY <3>1 DEF RequestOwned
    <3> QED BY <1>1, <2>1, <3>1, <3>2, <3>3
  <2>3. CASE Ends /\ (ev = "CLOSE" \/ dns'.st = "live")
    <3>1. nc.st = "live" /\ nc.resolving /\ outcomes = 0
      BY <2>3 DEF Ends, RequestOwned
    <3>2. req'.st = "freed" /\ outcomes' = 1 /\ ~nc'.resolving
      BY <2>3, <3>1, Constants DEF Ends
    <3>3. RequestOwned'
      BY <3>2 DEF RequestOwned
    <3>4. Unseen(r, ev) \/ Unresolved
      BY <1>1, <2>3, <3>1 DEF Ends, Unseen, Unresolved
    <3> QED BY <1>1, <2>1, <2>3, <3>3, <3>4
  <2>4. CASE ClosesLate(ev)
    <3>1. nc' = nc /\ told' = told /\ outcomes' = outcomes /\ req' = req /\ req.st # "live"
          /\ ev = "CLOSE"
      BY <2>4 DEF ClosesLate
    <3>2. Unseen(r, ev)
      BY <1>1, <3>1 DEF Unseen
    <3>3. RequestOwned'
      BY <3>1 DEF RequestOwned
    <3> QED BY <1>1, <2>1, <3>1, <3>2, <3>3
  <2> QED BY <2>0, <2>2, <2>3, <2>4, ResolveSteps
<1>2. CASE cur = "nc"
  <2>0. SntpHandler(r, ev, data) /\ dns' = dns /\ req' = req /\ outcomes' = outcomes
    BY <1>2 DEF Call
  <2>1. nc.st = "live" /\ ~nc.resolving /\ ~r.resolving /\ req.st # "live"
    BY <1>2 DEF AtHand, C, Of, RequestOwned
  <2>2. Typed
    BY <1>0, <2>0, SntpSteps DEF Typed
  <2>3. CASE ev = "CLOSE" /\ nc' = Freed /\ told' = told
    <3>1. RequestOwned'
      BY <2>0, <2>1, <2>3, Constants DEF RequestOwned
    <3> QED BY <1>2, <2>2, <2>3, <3>1 DEF Gone
  <2>4. CASE ev \notin {"CLOSE", "CONNECT_FAILED"} /\ SameToUser(r)
    <3>1. nc'.st = "live" /\ ~nc'.resolving /\ nc'.closing = r.closing /\ told' = told
      BY <2>1, <2>4 DEF SameToUser
    <3>2. RequestOwned'
      BY <2>0, <2>1, <3>1 DEF RequestOwned
    <3> QED BY <1>2, <2>1, <2>2, <2>4, <3>1, <3>2 DEF Unseen
  <2>5. CASE ev \in {"CONNECT", "CONNECT_FAILED", "TIMER", "RECV"} /\ ToldUser(r)
    <3>1. nc'.st = "live" /\ ~nc'.resolving /\ nc'.closing /\ Len(told') = Len(told) + 1
      BY <2>1, <2>5 DEF ToldUser
    <3>2. RequestOwned'
      BY <2>0, <2>1, <3>1 DEF RequestOwned
    <3> QED BY <1>2, <2>2, <2>5, <3>1, <3>2 DEF Notified
  <2> QED BY <2>0, <2>3, <2>4, <2>5, SntpSteps
<1> QED BY <1>1, <1>2 DEF AtHand

\* Where the thread goes on when it has called a handler.
Moves(ev) ==
  \/ pc = "connect" /\ pc' = "read" /\ ev \in {"CONNECT", "CONNECT_FAILED"}
  \/ pc = "read" /\ pc' = "write" /\ ev = "RECV" /\ ~C.closing
  \/ pc = "write" /\ pc' = "poll" /\ ev = "SEND" /\ ~C.closing
  \/ pc = "poll" /\ pc' \in {"timer", "sweep"} /\ ev = "POLL"
  \/ pc = "timer" /\ pc' = "sweep" /\ ev = "TIMER"
  \/ pc = "close" /\ pc' = "sweep" /\ ev = "CLOSE"
  \/ pc = "free" /\ pc' = "freeing" /\ ev = "CLOSE"

LEMMA HandlerKeepsInv ==
  ASSUME ResolverInv, NEW r \in Conn, r.st = "live", r.resolving = C.resolving,
         NEW ev, NEW data, Call(r, ev, data), Moves(ev), ev = "CONNECT_FAILED" => r.closing,
         cur = "nc" /\ ev # "CONNECT_FAILED" => r.closing = nc.closing,
         now' = now, cur' = cur, calls' = calls
  PROVE  ResolverInv'
<1>0. told \in Seq(Outcome) /\ Len(told) \in Nat /\ pc \in Place /\ cur \in {"none", "dns", "nc"}
  BY DEF ResolverInv, TypeOK
<1>1. pc \in AtConn /\ AtHand
  BY DEF Moves, AtConn, ResolverInv, ControlOK
<1>2. /\ Typed /\ RequestOwned'
      /\ ev # "CLOSE" /\ cur = "dns" => dns'.st = "live"
      /\ ev # "CLOSE" /\ cur = "nc" => nc'.st = "live" /\ ~nc'.resolving
      /\ Unseen(r, ev) \/ Unresolved \/ Notified(ev) \/ Gone(ev)
  BY <1>1, CallSteps DEF ResolverInv
<1>3. pc' \in Place \ {"app", "close", "free", "freed"}
  BY DEF Moves, Place, AtConn
<1>4. TypeOK'
  BY <1>2, <1>3 DEF Typed, ResolverInv, TypeOK
<1>5. ControlOK'
  <2>1. pc' \in AtConn => AtHand'
    BY <1>1, <1>2 DEF Moves, AtConn, AtHand
  <2>2. pc' = "freeing" => "freeing" \in calls
    BY DEF Moves, ResolverInv, ControlOK
  <2>3. "get_time" \notin calls
    BY <1>1 DEF ResolverInv, ControlOK, AtConn
  <2> QED BY <1>3, <2>1, <2>2, <2>3 DEF ResolverInv, ControlOK
<1>6. ToldOK'
  <2>0. /\ Len(told) <= 1
        /\ Len(told) = 1 /\ nc.st = "live" => nc.closing /\ ~nc.resolving /\ Leaving
        /\ nc.st = "live" /\ nc.closing /\ "give_up" \in calls => Len(told) = 1
        /\ nc.st = "freed" /\ {"give_up", "free"} \subseteq calls => Len(told) = 1
    BY DEF ResolverInv, ToldOK
  <2>z. Len(told) # 1 => Len(told) = 0
    <3>1. Len(told) \in Nat /\ Len(told) <= 1
      BY <1>0, <2>0
    <3>2. \A n \in Nat : n <= 1 => n = 0 \/ n = 1
      OBVIOUS
    <3> QED BY <3>1, <3>2
  <2>1. ev # "CLOSE" => ~(Len(told) = 1 /\ nc.st = "live")
    BY <2>0 DEF Moves, Leaving, C, Of
  <2>2. CASE Unseen(r, ev)
    <3>1. /\ Len(told') = Len(told) /\ nc'.st = nc.st /\ (nc'.resolving => nc.resolving)
          /\ nc'.closing = nc.closing
      BY <2>2 DEF Unseen, C, Of
    <3>2. ev = "CLOSE" => Leaving'
      BY DEF Moves, Leaving
    <3> QED BY <2>0, <2>1, <3>1, <3>2 DEF ToldOK
  <2>3. CASE Unresolved
    <3>1. Len(told) # 1 /\ Len(told') = Len(told) + 1 /\ nc'.st = "freed"
      BY <2>0, <2>3, Constants DEF Unresolved
    <3>2. Len(told') = 1 /\ Len(told') <= 1
      BY <2>z, <3>1
    <3> QED BY <3>1, <3>2 DEF ToldOK
  <2>4. CASE Notified(ev)
    <3>1. /\ nc.st = "live" /\ ev # "CLOSE" /\ Len(told') = Len(told) + 1
          /\ nc'.st = "live" /\ ~nc'.resolving /\ nc'.closing
      BY <1>1, <2>4 DEF Notified, AtHand
    <3>2. Len(told') = 1 /\ Len(told') <= 1
      BY <2>1, <2>z, <3>1
    <3>3. Leaving'
      BY <2>4 DEF Moves, Leaving, Notified
    <3> QED BY <3>1, <3>2, <3>3 DEF ToldOK
  <2>5. CASE Gone(ev)
    <3>1. nc.st = "live" /\ pc \in {"close", "free"}
      BY <1>1, <2>5 DEF Gone, AtHand, Moves
    <3>2. {"give_up", "free"} \subseteq calls => Len(told) = 1
      BY <2>0, <2>5, <3>1 DEF Gone, ResolverInv, ControlOK
    <3> QED BY <2>0, <2>5, <3>2, Constants DEF Gone, ToldOK
  <2> QED BY <1>2, <2>2, <2>3, <2>4, <2>5
<1> QED BY <1>2, <1>4, <1>5, <1>6 DEF ResolverInv

\* A round goes on without a call: no more than a datagram is taken from the queue.
LEMMA ReadingKeepsInv ==
  ASSUME ResolverInv, now' = now, cur' = cur, calls' = calls,
         nc'.st = nc.st, nc'.resolving = nc.resolving, nc'.closing = nc.closing,
         dns'.st = dns.st, nc' \in Conn, dns' \in Conn,
         count' = count, told' = told, req' = req, outcomes' = outcomes,
         \/ pc = "connect" /\ pc' = "read"
         \/ pc = "read" /\ pc' = "write"
         \/ pc = "write" /\ pc' = (IF C.closing THEN "sweep" ELSE "poll")
  PROVE  ResolverInv'
<1>1. pc \in {"connect", "read", "write"} /\ pc' \in {"read", "write", "sweep", "poll"}
  OBVIOUS
<1>2. TypeOK'
  BY <1>1 DEF ResolverInv, TypeOK, Place, AtConn
<1>3. AtHand /\ AtHand'
  BY <1>1 DEF ResolverInv, ControlOK, AtConn, AtHand
<1>4. ControlOK'
  BY <1>1, <1>3 DEF ResolverInv, ControlOK
<1>5. nc.closing /\ Leaving => Leaving'
  BY <1>1 DEF Leaving, C, Of
<1>6. ToldOK'
  BY <1>5 DEF ResolverInv, ToldOK
<1>7. RequestOwned'
  BY DEF ResolverInv, RequestOwned
<1> QED BY <1>2, <1>4, <1>6, <1>7 DEF ResolverInv

LEMMA QuietKeepsInv ==
  ASSUME ResolverInv, NoCall, now' = now, cur' = cur, calls' = calls,
         \/ pc = "connect" /\ pc' = "read"
         \/ pc = "read" /\ pc' = "write"
         \/ pc = "write" /\ pc' = (IF C.closing THEN "sweep" ELSE "poll")
  PROVE  ResolverInv'
<1>1. /\ nc' = nc /\ dns' = dns /\ req' = req /\ told' = told /\ outcomes' = outcomes
      /\ count' = count /\ nc \in Conn /\ dns \in Conn
  BY DEF NoCall, ResolverInv, TypeOK
<1> QED BY <1>1, ReadingKeepsInv
-----------------------------------------------------------------------------
(* The steps of a round *)

LEMMA AtConnection ==
  ASSUME ResolverInv, pc \in AtConn
  PROVE  C \in Conn /\ C.st = "live" /\ (cur = "dns" \/ cur = "nc")
BY DEF ResolverInv, TypeOK, ControlOK, AtHand, C, Of

LEMMA SelectKeepsInv == ASSUME ResolverInv, Select PROVE ResolverInv'
<1>0. /\ nc' = nc /\ dns' = dns /\ req' = req /\ told' = told /\ outcomes' = outcomes
      /\ count' = count /\ now' = now /\ calls' = calls /\ pc = "app" /\ pc' = "connect"
  BY DEF Select, NoCall
<1>1. PICK x \in Listed : cur' = x
  BY DEF Select
<1>2. cur' \in {"dns", "nc"} /\ AtHand'
  BY <1>0, <1>1 DEF Listed, AtHand
<1>3. TypeOK'
  BY <1>0, <1>2 DEF ResolverInv, TypeOK, Place, AtConn
<1>4. "get_time" \notin calls
  BY <1>1, Constants DEF Listed, ResolverInv, ControlOK
<1>5. ControlOK'
  BY <1>0, <1>2, <1>4 DEF ResolverInv, ControlOK
<1>6. ToldOK'
  BY <1>0 DEF ResolverInv, ToldOK, Leaving
<1>7. RequestOwned'
  BY <1>0 DEF ResolverInv, RequestOwned
<1> QED BY <1>3, <1>5, <1>6, <1>7 DEF ResolverInv

LEMMA HandleConnectingKeepsInv == ASSUME ResolverInv, HandleConnecting PROVE ResolverInv'
<1> DEFINE r == [C EXCEPT !.connecting = FALSE]
<1>0. pc = "connect" /\ pc' = "read" /\ now' = now /\ cur' = cur /\ calls' = calls
  BY DEF HandleConnecting
<1>1. C \in Conn /\ C.st = "live" /\ (cur = "dns" \/ cur = "nc")
  BY <1>0, AtConnection DEF AtConn
<1>2. r \in Conn /\ r.st = "live" /\ r.resolving = C.resolving /\ (cur = "nc" => r.closing = nc.closing)
  BY <1>1 DEF Conn, C, Of
<1>3. /\ Closing(r) \in Conn /\ Closing(r).st = "live" /\ Closing(r).resolving = C.resolving
      /\ Closing(r).closing
  BY <1>2, ClosingKeeps
<1>4. \/ Call(r, "CONNECT", None)
      \/ cur = "dns" /\ Call(Closing(r), "CONNECT", None)
      \/ cur = "nc" /\ Call(Closing(r), "CONNECT_FAILED", None)
      \/ NoCall
  BY <1>1 DEF HandleConnecting
<1> HIDE DEF r
<1>5. Moves("CONNECT") /\ Moves("CONNECT_FAILED")
  BY <1>0 DEF Moves
<1>6. CASE Call(r, "CONNECT", None)
  BY <1>0, <1>2, <1>5, <1>6, HandlerKeepsInv
<1>7. CASE cur = "dns" /\ Call(Closing(r), "CONNECT", None)
  BY <1>0, <1>3, <1>5, <1>7, HandlerKeepsInv
<1>8. CASE cur = "nc" /\ Call(Closing(r), "CONNECT_FAILED", None)
  BY <1>0, <1>3, <1>5, <1>8, HandlerKeepsInv
<1>9. CASE NoCall
  BY <1>0, <1>9, QuietKeepsInv
<1> QED BY <1>4, <1>6, <1>7, <1>8, <1>9

LEMMA HandleReadKeepsInv == ASSUME ResolverInv, HandleRead PROVE ResolverInv'
<1> DEFINE r == [C EXCEPT !.rx = Tail(C.rx)]
<1>0. pc = "read" /\ pc' = "write" /\ now' = now /\ cur' = cur /\ calls' = calls
  BY DEF HandleRead
<1>1. C \in Conn /\ C.st = "live" /\ (cur = "dns" \/ cur = "nc")
  BY <1>0, AtConnection DEF AtConn
<1>2. CASE NoCall
  BY <1>0, <1>2, QuietKeepsInv
<1>3. CASE C.rx # <<>> /\ ~NoCall
  <2>1. C.rx \in Seq(DnsAnswers \cup SntpReplies) /\ Tail(C.rx) \in Seq(DnsAnswers \cup SntpReplies)
    BY <1>1, <1>3 DEF Conn
  <2>2. /\ r \in Conn /\ r.st = C.st /\ r.resolving = C.resolving /\ r.closing = C.closing
    BY <1>1, <2>1 DEF Conn
  <2>3. \/ ~C.closing /\ Call(r, "RECV", Head(C.rx))
        \/ /\ \/ cur = "dns" /\ dns' = r /\ nc' = nc
              \/ cur = "nc" /\ nc' = r /\ dns' = dns
           /\ count' = count /\ told' = told /\ req' = req /\ outcomes' = outcomes
    BY <1>1, <1>3 DEF HandleRead
  <2> HIDE DEF r
  <2>4. CASE ~C.closing /\ Call(r, "RECV", Head(C.rx))
    <3>1. Moves("RECV") /\ (cur = "nc" => r.closing = nc.closing)
      BY <1>0, <2>2, <2>4 DEF Moves, C, Of
    <3> QED BY <1>0, <1>1, <2>2, <2>4, <3>1, HandlerKeepsInv
  <2>5. CASE /\ \/ cur = "dns" /\ dns' = r /\ nc' = nc
                \/ cur = "nc" /\ nc' = r /\ dns' = dns
             /\ count' = count /\ told' = told /\ req' = req /\ outcomes' = outcomes
    <3>1. /\ nc'.st = nc.st /\ nc'.resolving = nc.resolving /\ nc'.closing = nc.closing
          /\ dns'.st = dns.st /\ nc' \in Conn /\ dns' \in Conn
      BY <2>2, <2>5 DEF C, Of, ResolverInv, TypeOK
    <3> QED BY <1>0, <2>5, <3>1, ReadingKeepsInv
  <2> QED BY <2>3, <2>4, <2>5
<1> QED BY <1>2, <1>3 DEF HandleRead

LEMMA HandleWriteKeepsInv == ASSUME ResolverInv, HandleWrite PROVE ResolverInv'
<1> DEFINE r == [C EXCEPT !.send = 0]
<1>0. /\ pc = "write" /\ pc' = (IF C.closing THEN "sweep" ELSE "poll")
      /\ now' = now /\ cur' = cur /\ calls' = calls
  BY DEF HandleWrite
<1>1. C \in Conn /\ C.st = "live" /\ (cur = "dns" \/ cur = "nc")
  BY <1>0, AtConnection DEF AtConn
<1>2. r \in Conn /\ r.st = "live" /\ r.resolving = C.resolving /\ (cur = "nc" => r.closing = nc.closing)
  BY <1>1 DEF Conn, C, Of
<1>3. NoCall \/ (~C.closing /\ Call(r, "SEND", None))
  BY DEF HandleWrite
<1> HIDE DEF r
<1>4. CASE NoCall
  BY <1>0, <1>4, QuietKeepsInv
<1>5. CASE ~C.closing /\ Call(r, "SEND", None)
  <2>1. Moves("SEND")
    BY <1>0, <1>5 DEF Moves
  <2> QED BY <1>0, <1>2, <1>5, <2>1, HandlerKeepsInv
<1> QED BY <1>3, <1>4, <1>5

LEMMA HandlePollKeepsInv == ASSUME ResolverInv, HandlePoll PROVE ResolverInv'
<1>0. /\ pc = "poll" /\ pc' \in {"timer", "sweep"} /\ Call(C, "POLL", None)
      /\ now' = now /\ cur' = cur /\ calls' = calls
  BY DEF HandlePoll
<1>1. C \in Conn /\ C.st = "live" /\ (cur = "nc" => C.closing = nc.closing)
  BY <1>0, AtConnection DEF AtConn, C, Of
<1>2. Moves("POLL")
  BY <1>0 DEF Moves
<1> QED BY <1>0, <1>1, <1>2, HandlerKeepsInv

LEMMA HandleTimerKeepsInv == ASSUME ResolverInv, HandleTimer PROVE ResolverInv'
<1> DEFINE r == [C EXCEPT !.timer = 0]
<1>0. /\ pc = "timer" /\ pc' = "sweep" /\ Call(r, "TIMER", None)
      /\ now' = now /\ cur' = cur /\ calls' = calls
  BY DEF HandleTimer
<1>1. C \in Conn /\ C.st = "live" /\ (cur = "dns" \/ cur = "nc")
  BY <1>0, AtConnection DEF AtConn
<1>2. r \in Conn /\ r.st = "live" /\ r.resolving = C.resolving /\ (cur = "nc" => r.closing = nc.closing)
  BY <1>1 DEF Conn, C, Of
<1>3. Moves("TIMER")
  BY <1>0 DEF Moves
<1> HIDE DEF r
<1> QED BY <1>0, <1>2, <1>3, HandlerKeepsInv

LEMMA CloseKeepsInv == ASSUME ResolverInv, Close PROVE ResolverInv'
<1>0. /\ pc \in {"close", "free"} /\ pc' = (IF pc = "close" THEN "sweep" ELSE "freeing")
      /\ Call(C, "CLOSE", None) /\ now' = now /\ cur' = cur /\ calls' = calls
  BY DEF Close
<1>1. C \in Conn /\ C.st = "live" /\ (cur = "nc" => C.closing = nc.closing)
  BY <1>0, AtConnection DEF AtConn, C, Of
<1>2. Moves("CLOSE")
  BY <1>0 DEF Moves
<1> QED BY <1>0, <1>1, <1>2, HandlerKeepsInv

\* Nothing of the connections' state changes, the round goes on.
LEMMA SweepKeepsInv == ASSUME ResolverInv, Sweep PROVE ResolverInv'
<1>0. /\ nc' = nc /\ dns' = dns /\ req' = req /\ told' = told /\ outcomes' = outcomes
      /\ count' = count /\ now' = now /\ calls' = calls /\ pc \in {"sweep", "freeing"}
  BY DEF Sweep, NoCall
<1>1. "get_time" \notin calls
  BY <1>0 DEF ResolverInv, ControlOK
<1>2. RequestOwned'
  BY <1>0 DEF ResolverInv, RequestOwned
<1>3. CASE Doomed # {}
  <2>1. cur' \in Doomed /\ pc' = (IF pc = "sweep" THEN "close" ELSE "free")
    BY <1>3 DEF Sweep
  <2>2. cur' \in {"dns", "nc"} /\ AtHand'
    BY <1>0, <2>1 DEF Doomed, Listed, AtHand
  <2>3. pc' = "close" /\ cur' = "nc" => nc.closing
    BY <1>0, <2>1 DEF Doomed, Of
  <2>4. pc' \in {"close", "free"} /\ (pc' = "free" => "freeing" \in calls)
    BY <1>0, <2>1 DEF ResolverInv, ControlOK
  <2>5. TypeOK'
    BY <1>0, <2>2, <2>4 DEF ResolverInv, TypeOK, Place, AtConn
  <2>6. ControlOK'
    BY <1>0, <1>1, <2>2, <2>3, <2>4 DEF ResolverInv, ControlOK
  <2>7. Leaving'
    BY <2>4 DEF Leaving
  <2>8. ToldOK'
    BY <1>0, <2>7 DEF ResolverInv, ToldOK
  <2> QED BY <1>2, <2>5, <2>6, <2>8 DEF ResolverInv
<1>4. CASE Doomed = {}
  <2>1. /\ cur' = cur
        /\ pc' = (IF pc = "freeing" THEN "freed" ELSE IF "freeing" \in calls THEN "freeing" ELSE "app")
    BY <1>4 DEF Sweep
  <2>2. /\ pc' \in {"freed", "freeing", "app"}
        /\ pc' \in {"freed", "freeing"} => "freeing" \in calls
    BY <1>0, <2>1 DEF ResolverInv, ControlOK
  <2>3. TypeOK'
    BY <1>0, <2>1, <2>2 DEF ResolverInv, TypeOK, Place
  <2>4. ControlOK'
    BY <1>0, <1>1, <2>2 DEF ResolverInv, ControlOK, AtConn
  <2>5. ~(Len(told) = 1 /\ nc.st = "live")
    <3>1. "nc" \notin Doomed
      BY <1>4
    <3>2. ~(nc.st = "live" /\ ~nc.resolving /\ nc.closing)
      BY <3>1 DEF Doomed, Listed, Of
    <3> QED BY <3>2 DEF ResolverInv, ToldOK
  <2>6. ToldOK'
    BY <1>0, <2>5 DEF ResolverInv, ToldOK
  <2> QED BY <1>2, <2>3, <2>4, <2>6 DEF ResolverInv
<1> QED BY <1>3, <1>4

-----------------------------------------------------------------------------
(* The application, the servers and the clock *)
\* The user sets a timer or gives its connection up.
LEMMA AppStepKeepsInv ==
  ASSUME ResolverInv, pc = "app", pc' = pc, cur' = cur, now' = now, told' = told,
         count' = count, outcomes' = outcomes, req' = req, nc.st = "live",
         nc' \in Conn, nc'.st = nc.st, nc'.resolving = nc.resolving,
         dns' \in Conn, dns'.st = dns.st,
         \/ calls' = calls \ {"set_timer"} /\ nc'.closing = nc.closing
         \/ calls' = calls \ {"give_up"}
  PROVE  ResolverInv'
<1>1. "get_time" \notin calls
  BY Constants DEF ResolverInv, ControlOK
<1>2. TypeOK' /\ RequestOwned'
  BY DEF ResolverInv, TypeOK, RequestOwned
<1>3. ControlOK'
  BY <1>1 DEF ResolverInv, ControlOK, AtConn
<1>4. ~(Len(told) = 1)
  BY DEF ResolverInv, ToldOK, Leaving
<1>5. ToldOK'
  BY <1>4 DEF ResolverInv, ToldOK
<1> QED BY <1>2, <1>3, <1>5 DEF ResolverInv

LEMMA AppKeepsInv == ASSUME ResolverInv, App PROVE ResolverInv'
<1>0. /\ pc = "app" /\ pc' = pc /\ cur' = cur /\ now' = now /\ told' = told /\ count' = count
      /\ outcomes' = outcomes /\ "freeing" \notin calls
  BY DEF App, GetTime, SetTimer, GiveUp, AppFrees, AppOnly
<1>t. /\ nc \in Conn /\ dns \in Conn /\ req \in Req
      /\ calls \subseteq {"get_time", "set_timer", "give_up", "free", "freeing"}
  BY DEF ResolverInv, TypeOK
<1>1. CASE GetTime
  <2>1. /\ "get_time" \in calls /\ calls' = calls \ {"get_time"}
        /\ outcomes = 0 /\ told = <<>> /\ req = NoReq /\ dns = NoConn
    BY <1>1 DEF GetTime, ResolverInv, ControlOK
  <2>2. /\ nc' \in Conn /\ nc'.st = "live" /\ ~nc'.closing /\ dns' \in Conn /\ req' \in Req
        /\ \/ ~nc'.resolving /\ req'.st # "live"
           \/ nc'.resolving /\ req'.st = "live" /\ dns'.st = "live"
    <3>1. CASE nc' \in Connecting(NewConn) /\ UNCHANGED <<dns, req>>
      BY <1>t, <2>1, <3>1, Constants, ConnConstants, ConnectingKeeps
    <3>2. CASE /\ nc' = [NewConn EXCEPT !.resolving = TRUE]
               /\ dns' \in Connecting(NewConn)
               /\ req' = [NoReq EXCEPT !.st = "live"]
      <4>1. nc' \in Conn /\ nc'.st = "live" /\ ~nc'.closing /\ nc'.resolving
        BY <3>2, Constants, ConnConstants DEF Conn
      <4>2. dns' \in Conn /\ dns'.st = "live"
        BY <3>2, Constants, ConnConstants, ConnectingKeeps
      <4>3. req' \in Req /\ req'.st = "live"
        BY <3>2, Constants, ConnConstants DEF Req, State
      <4> QED BY <4>1, <4>2, <4>3
    <3> QED BY <1>1, <3>1, <3>2 DEF GetTime
  <2>3. TypeOK'
    BY <1>0, <2>1, <2>2 DEF ResolverInv, TypeOK
  <2>4. ControlOK'
    BY <1>0, <2>1 DEF ControlOK, AtConn
  <2>5. ToldOK'
    BY <1>0, <2>1, <2>2 DEF ResolverInv, ToldOK
  <2>6. RequestOwned'
    BY <1>0, <2>1, <2>2 DEF RequestOwned
  <2> QED BY <2>3, <2>4, <2>5, <2>6 DEF ResolverInv
<1>2. CASE SetTimer
  <2>0. now + Timeout \in Nat
    BY ResolverConstants DEF ResolverInv, TypeOK
  <2>1. /\ calls' = calls \ {"set_timer"} /\ nc.st = "live" /\ req' = req
        /\ nc' = [nc EXCEPT !.timer = now + Timeout]
        /\ dns' = [dns EXCEPT !.timer = now + Timeout] \/ dns' = dns
    BY <1>2 DEF SetTimer
  <2>2. /\ nc' \in Conn /\ nc'.st = nc.st /\ nc'.resolving = nc.resolving
        /\ nc'.closing = nc.closing
    BY <1>t, <2>0, <2>1 DEF Conn
  <2>3. dns' \in Conn /\ dns'.st = dns.st
    BY <1>t, <2>0, <2>1 DEF Conn
  <2> QED BY <1>0, <2>1, <2>2, <2>3, AppStepKeepsInv
<1>3. CASE GiveUp
  <2>1. /\ calls' = calls \ {"give_up"} /\ nc.st = "live" /\ req' = req /\ dns' = dns
        /\ nc' = Closing(nc)
    BY <1>3 DEF GiveUp
  <2>2. /\ nc' \in Conn /\ nc'.st = nc.st /\ nc'.resolving = nc.resolving
    BY <1>t, <2>1, ClosingKeeps
  <2> QED BY <1>0, <1>t, <2>1, <2>2, AppStepKeepsInv
<1>4. CASE AppFrees
  <2>1. calls' = {"freeing"} /\ nc.st # "none" /\ nc' = nc /\ req' = req /\ dns' = dns
    BY <1>4 DEF AppFrees
  <2>2. TypeOK' /\ RequestOwned'
    BY <1>0, <2>1 DEF ResolverInv, TypeOK, RequestOwned
  <2>3. ControlOK'
    BY <1>0, <2>1 DEF ControlOK, AtConn
  <2>4. ToldOK'
    BY <1>0, <2>1 DEF ResolverInv, ToldOK, Leaving
  <2> QED BY <2>2, <2>3, <2>4 DEF ResolverInv
<1> QED BY <1>1, <1>2, <1>3, <1>4 DEF App

LEMMA ServerKeepsInv == ASSUME ResolverInv, ServerAnswers PROVE ResolverInv'
<1>0. /\ count' = count /\ told' = told /\ req' = req /\ now' = now /\ pc' = pc /\ cur' = cur
      /\ calls' = calls /\ outcomes' = outcomes /\ nc \in Conn /\ dns \in Conn
  BY DEF ServerAnswers, ResolverInv, TypeOK
<1>1. \A r \in Conn, d \in DnsAnswers \cup SntpReplies : \A q :
        q = Arrives(r, d) => /\ q \in Conn /\ q.st = r.st /\ q.resolving = r.resolving
                             /\ q.closing = r.closing
  BY DEF Conn, Arrives
<1>2. /\ nc' \in Conn /\ nc'.st = nc.st /\ nc'.resolving = nc.resolving /\ nc'.closing = nc.closing
      /\ dns' \in Conn /\ dns'.st = dns.st /\ "get_time" \notin calls
  <2>1. CASE dns.st = "live" /\ nc' = nc /\ \E d \in DnsAnswers : dns' = Arrives(dns, d)
    <3>1. PICK d \in DnsAnswers : dns' = Arrives(dns, d)
      BY <2>1
    <3>2. dns' \in Conn /\ dns'.st = dns.st
      BY <1>0, <1>1, <3>1
    <3>3. "get_time" \notin calls
      BY <2>1, Constants DEF ResolverInv, ControlOK
    <3> QED BY <1>0, <2>1, <3>2, <3>3
  <2>2. CASE nc.st = "live" /\ dns' = dns /\ \E d \in SntpReplies : nc' = Arrives(nc, d)
    <3>1. PICK d \in SntpReplies : nc' = Arrives(nc, d)
      BY <2>2
    <3>2. /\ nc' \in Conn /\ nc'.st = nc.st /\ nc'.resolving = nc.resolving
          /\ nc'.closing = nc.closing
      BY <1>0, <1>1, <3>1
    <3>3. "get_time" \notin calls
      BY <2>2, Constants DEF ResolverInv, ControlOK
    <3> QED BY <1>0, <2>2, <3>2, <3>3
  <2> QED BY <2>1, <2>2 DEF ServerAnswers
<1>3. TypeOK' /\ RequestOwned'
  BY <1>0, <1>2 DEF ResolverInv, TypeOK, RequestOwned
<1>4. ControlOK'
  BY <1>0, <1>2 DEF ResolverInv, ControlOK, AtHand
<1>5. ToldOK'
  BY <1>0, <1>2 DEF ResolverInv, ToldOK, Leaving
<1> QED BY <1>3, <1>4, <1>5 DEF ResolverInv

LEMMA TickKeepsInv == ASSUME ResolverInv, Tick PROVE ResolverInv'
<1>1. /\ nc' = nc /\ dns' = dns /\ req' = req /\ told' = told /\ outcomes' = outcomes
      /\ count' = count /\ calls' = calls /\ pc' = pc /\ cur' = cur /\ now' = now + 1
  BY DEF Tick
<1>2. TypeOK' /\ RequestOwned'
  BY <1>1 DEF ResolverInv, TypeOK, RequestOwned
<1>3. ControlOK'
  BY <1>1 DEF ResolverInv, ControlOK, AtHand
<1>4. ToldOK'
  BY <1>1 DEF ResolverInv, ToldOK, Leaving
<1> QED BY <1>2, <1>3, <1>4 DEF ResolverInv

LEMMA InitGivesInv == ASSUME Init PROVE ResolverInv
<1>1. TypeOK
  BY ResolverConstants, ConnConstants DEF Init, TypeOK, Place
<1>2. ControlOK
  BY DEF Init, ControlOK, AtConn
<1>3. ToldOK
  BY Constants DEF Init, ToldOK
<1>4. RequestOwned
  BY Constants DEF Init, RequestOwned
<1> QED BY <1>1, <1>2, <1>3, <1>4 DEF ResolverInv

LEMMA NextKeepsInv == ASSUME ResolverInv, [Next]_vars PROVE ResolverInv'
<1>1. CASE App
  BY <1>1, AppKeepsInv
<1>2. CASE IoThread
  BY <1>2, SelectKeepsInv, HandleConnectingKeepsInv, HandleReadKeepsInv, HandleWriteKeepsInv,
     HandlePollKeepsInv, HandleTimerKeepsInv, SweepKeepsInv, CloseKeepsInv DEF IoThread
<1>3. CASE ServerAnswers
  BY <1>3, ServerKeepsInv
<1>4. CASE Tick
  BY <1>4, TickKeepsInv
<1>5. CASE UNCHANGED vars
  <2>1. /\ nc' = nc /\ dns' = dns /\ req' = req /\ told' = told /\ outcomes' = outcomes
        /\ count' = count /\ calls' = calls /\ pc' = pc /\ cur' = cur /\ now' = now
    BY <1>5 DEF vars
  <2>2. TypeOK' /\ RequestOwned'
    BY <2>1 DEF ResolverInv, TypeOK, RequestOwned
  <2>3. ControlOK'
    BY <2>1 DEF ResolverInv, ControlOK, AtHand
  <2>4. ToldOK'
    BY <2>1 DEF ResolverInv, ToldOK, Leaving
  <2> QED BY <2>2, <2>3, <2>4 DEF ResolverInv
<1> QED BY <1>1, <1>2, <1>3, <1>4, <1>5 DEF Next

-----------------------------------------------------------------------------

\* However timers, datagrams, the user and mg_mgr_free come together, the request of
\* mg_resolve_async_opt never outlives either connection, the connection that waits
\* never waits for nothing, and resolve_cb runs at most once.
THEOREM RequestIsOwned == Spec => []RequestOwned
<1>1. ResolverInv => RequestOwned
  BY DEF ResolverInv
<1> QED BY <1>1, InitGivesInv, NextKeepsInv, PTL DEF Spec

\* mg_sntp_get_time's handler hears of the time or the failure at most once, and always
\* before its connection ends, unless the user gave it up or freed the manager.
THEOREM UserIsToldOnce == Spec => []OneAnswer
<1>1. ResolverInv => OneAnswer
  BY DEF ResolverInv, ToldOK, OneAnswer
<1> QED BY <1>1, InitGivesInv, NextKeepsInv, PTL DEF Spec
-----------------------------------------------------------------------------
(* The broker: sequences of sequences *)

Below == {p \in Nat \X Nat : p[1] < p[2]}

\* Induction, for a set of numbers.
LEMMA AllNumbers ==
  ASSUME NEW T, 0 \in T, \A n \in Nat : n \in T => n + 1 \in T
  PROVE  \A n \in Nat : n \in T
<1> DEFINE Rest == Nat \ T
<1> SUFFICES ASSUME Rest # {} PROVE FALSE
  OBVIOUS
<1>1. Below = OpToRel(<, Nat)
  BY Zenon DEF Below, OpToRel
<1>2. IsWellFoundedOn(Below, Nat)
  BY <1>1, NatLessThanWellFounded, Zenon
<1>3. PICK n \in Rest : \A m \in Rest : <<m, n>> \notin Below
  BY <1>2, WFMin, Zenon
<1>4. n \in Nat /\ n \notin T /\ n # 0 /\ n - 1 \in Nat /\ (n - 1) + 1 = n
  BY <1>3
<1>5. <<n - 1, n>> \in Nat \X Nat /\ <<n - 1, n>>[1] = n - 1 /\ <<n - 1, n>>[2] = n
  BY <1>4
<1>6. <<n - 1, n>> \in Below
  BY <1>4, <1>5 DEF Below
<1>7. n - 1 \in T
  BY <1>3, <1>4, <1>6
<1> QED BY <1>4, <1>7

\* f lists what the first, the first two, ... members of ss put one behind the other give.
Unfolds(f, ss) ==
  f = [i \in 1..Len(ss) |-> IF i = 1 THEN ss[i] ELSE f[i - 1] \o ss[i]]

LEMMA UnfoldingExists ==
  ASSUME NEW S, NEW ss \in Seq(Seq(S))
  PROVE  \E f \in [1..Len(ss) -> Seq(S)] : Unfolds(f, ss)
<1> DEFINE Step(f, i) == f[i] = IF i = 1 THEN ss[i] ELSE f[i - 1] \o ss[i]
           Some(n) == n <= Len(ss) => \E f \in [1..n -> Seq(S)] : \A i \in 1..n : Step(f, i)
<1>1. Some(0)
  <2>1. [i \in 1..0 |-> <<>>] \in [1..0 -> Seq(S)] /\ 1..0 = {}
    OBVIOUS
  <2>2. \A i \in 1..0 : Step([j \in 1..0 |-> <<>>], i)
    BY <2>1
  <2> HIDE DEF Step
  <2> QED BY <2>1, <2>2
<1>2. ASSUME NEW n \in Nat, Some(n) PROVE Some(n + 1)
  <2> SUFFICES ASSUME n + 1 <= Len(ss)
               PROVE  \E g \in [1..n + 1 -> Seq(S)] : \A i \in 1..n + 1 : Step(g, i)
    OBVIOUS
  <2>1. n <= Len(ss) /\ n + 1 \in 1..Len(ss) /\ ss[n + 1] \in Seq(S)
    OBVIOUS
  <2>2. PICK f \in [1..n -> Seq(S)] : \A i \in 1..n : Step(f, i)
    BY <1>2, <2>1
  <2> DEFINE last == IF n + 1 = 1 THEN ss[n + 1] ELSE f[n] \o ss[n + 1]
             g == [i \in 1..n + 1 |-> IF i = n + 1 THEN last ELSE f[i]]
  <2>3. last \in Seq(S)
    <3>1. CASE n = 0
      BY <2>1, <3>1
    <3>2. CASE n # 0
      <4>1. f[n] \in Seq(S)
        BY <3>2
      <4> QED BY <2>1, <3>2, <4>1
    <3> QED BY <3>1, <3>2
  <2>4. \A i \in 1..n + 1 : Step(g, i)
    <3> SUFFICES ASSUME NEW i \in 1..n + 1 PROVE Step(g, i)
      OBVIOUS
    <3>1. CASE i = n + 1
      <4>1. g[i] = last
        BY <3>1
      <4>2. i # 1 => g[i - 1] = f[n]
        BY <3>1
      <4> QED BY <3>1, <4>1, <4>2
    <3>2. CASE i # n + 1
      <4>1. i \in 1..n /\ g[i] = f[i]
        BY <3>2
      <4>2. i # 1 => g[i - 1] = f[i - 1]
        BY <4>1
      <4>3. Step(f, i)
        BY <2>2, <4>1
      <4> QED BY <4>1, <4>2, <4>3
    <3> QED BY <3>1, <3>2
  <2>5. g \in [1..n + 1 -> Seq(S)]
    <3> HIDE DEF last
    <3> SUFFICES ASSUME NEW i \in 1..n + 1 PROVE (IF i = n + 1 THEN last ELSE f[i]) \in Seq(S)
      OBVIOUS
    <3> QED BY <2>3
  <2> HIDE DEF Step, g
  <2> QED BY <2>4, <2>5
<1>3. Some(Len(ss))
  <2> HIDE DEF Some
  <2> DEFINE T == {n \in Nat : Some(n)}
  <2>1. 0 \in T /\ \A n \in Nat : n \in T => n + 1 \in T
    BY <1>1, <1>2
  <2>2. \A n \in Nat : n \in T
    <3> HIDE DEF T
    <3> QED BY <2>1, AllNumbers
  <2> QED BY <2>2
<1>4. PICK f \in [1..Len(ss) -> Seq(S)] : \A i \in 1..Len(ss) : Step(f, i)
  BY <1>3
<1>5. f = [i \in 1..Len(ss) |-> IF i = 1 THEN ss[i] ELSE f[i - 1] \o ss[i]]
  BY <1>4
<1> QED BY <1>5 DEF Unfolds

Agree(s, t, n) == \A i \in 1..n : s[i] = t[i]

LEMMA UnfoldingUnique ==
  ASSUME NEW ss, NEW tt, NEW f, NEW g, NEW n \in Nat, Unfolds(f, ss), Unfolds(g, tt),
         Len(ss) \in Nat, Len(tt) \in Nat, n <= Len(ss), n <= Len(tt), Agree(ss, tt, n)
  PROVE  Agree(f, g, n)
<1> DEFINE T == {k \in Nat : 1 <= k /\ k <= n => f[k] = g[k]}
<1>1. 0 \in T
  OBVIOUS
<1>2. ASSUME NEW k \in Nat, k \in T PROVE k + 1 \in T
  <2> SUFFICES ASSUME k + 1 <= n PROVE f[k + 1] = g[k + 1]
    OBVIOUS
  <2>1. k + 1 \in 1..Len(ss) /\ k + 1 \in 1..Len(tt) /\ ss[k + 1] = tt[k + 1] /\ (k + 1) - 1 = k
    BY <1>2 DEF Agree
  <2>2. f[k + 1] = IF k + 1 = 1 THEN ss[k + 1] ELSE f[k] \o ss[k + 1]
    BY <2>1 DEF Unfolds
  <2>3. g[k + 1] = IF k + 1 = 1 THEN tt[k + 1] ELSE g[k] \o tt[k + 1]
    BY <2>1 DEF Unfolds
  <2> QED BY <1>2, <2>1, <2>2, <2>3
<1>3. \A k \in Nat : k \in T
  <2> HIDE DEF T
  <2> QED BY <1>1, <1>2, AllNumbers
<1> QED BY <1>3 DEF Agree

LEMMA FlattenValue ==
  ASSUME NEW S, NEW ss \in Seq(Seq(S)), ss # <<>>
  PROVE  \E f \in [1..Len(ss) -> Seq(S)] : Unfolds(f, ss) /\ FlattenSeq(ss) = f[Len(ss)]
<1> DEFINE F == CHOOSE f : Unfolds(f, ss)
<1>1. Unfolds(F, ss)
  BY UnfoldingExists
<1>2. FlattenSeq(ss) = F[Len(ss)]
  BY DEF FlattenSeq, Unfolds
<1>3. PICK g \in [1..Len(ss) -> Seq(S)] : Unfolds(g, ss)
  BY UnfoldingExists
<1>4. F = g
  <2>1. Len(ss) \in Nat /\ Len(ss) <= Len(ss) /\ Agree(ss, ss, Len(ss))
    BY DEF Agree
  <2>2. Agree(F, g, Len(ss))
    <3> HIDE DEF F
    <3> QED BY <1>1, <1>3, <2>1, UnfoldingUnique, Zenon
  <2>3. F = [i \in 1..Len(ss) |-> F[i]]
    <3> HIDE DEF F
    <3> QED BY <1>1 DEF Unfolds
  <2> HIDE DEF F
  <2> QED BY <1>3, <2>2, <2>3 DEF Agree
<1> QED BY <1>2, <1>3, <1>4

LEMMA FlattenEmpty == FlattenSeq(<<>>) = <<>>
BY DEF FlattenSeq

\* One more sequence goes behind the others.
LEMMA FlattenAppend ==
  ASSUME NEW S, NEW ss \in Seq(Seq(S)), NEW x \in Seq(S)
  PROVE  /\ FlattenSeq(ss) \in Seq(S)
         /\ FlattenSeq(Append(ss, x)) = FlattenSeq(ss) \o x
<1> DEFINE tt == Append(ss, x)
           n  == Len(ss)
<1>1. /\ tt \in Seq(Seq(S)) /\ tt # <<>> /\ Len(tt) = n + 1 /\ tt[n + 1] = x
      /\ \A i \in 1..n : tt[i] = ss[i]
      /\ n \in Nat /\ n <= Len(ss) /\ n <= Len(tt)
  <2>1. tt \in Seq(Seq(S)) /\ Len(tt) = n + 1
    OBVIOUS
  <2>2. tt[n + 1] = x /\ \A i \in 1..n : tt[i] = ss[i]
    OBVIOUS
  <2>3. n \in Nat /\ n <= n + 1 /\ n + 1 # 0
    OBVIOUS
  <2> HIDE DEF tt
  <2> QED BY <2>1, <2>2, <2>3
<1>2. PICK g \in [1..Len(tt) -> Seq(S)] : Unfolds(g, tt) /\ FlattenSeq(tt) = g[Len(tt)]
  <2> HIDE DEF tt
  <2> QED BY <1>1, FlattenValue
<1>3. g[n + 1] = IF n + 1 = 1 THEN tt[n + 1] ELSE g[n] \o tt[n + 1]
  <2>1. n + 1 \in 1..Len(tt) /\ (n + 1) - 1 = n
    BY <1>1
  <2> HIDE DEF tt, n
  <2> QED BY <1>2, <2>1 DEF Unfolds
<1>4. CASE ss = <<>>
  <2>1. n = 0 /\ FlattenSeq(ss) = <<>>
    BY <1>4, FlattenEmpty
  <2>2. FlattenSeq(tt) = x
    BY <1>1, <1>2, <1>3, <2>1
  <2> QED BY <2>1, <2>2
<1>5. CASE ss # <<>>
  <2>1. n # 0
    BY <1>5
  <2>2. PICK f \in [1..n -> Seq(S)] : Unfolds(f, ss) /\ FlattenSeq(ss) = f[n]
    BY <1>5, FlattenValue
  <2>3. Agree(f, g, n)
    <3>1. Len(ss) \in Nat /\ Len(tt) \in Nat /\ Agree(ss, tt, n)
      BY <1>1 DEF Agree
    <3>2. Unfolds(f, ss) /\ Unfolds(g, tt) /\ n \in Nat /\ n <= Len(ss) /\ n <= Len(tt)
      BY <1>1, <1>2, <2>2
    <3> HIDE DEF tt, n
    <3> QED BY <3>1, <3>2, UnfoldingUnique, Zenon
  <2>4. n \in 1..n /\ n + 1 # 1
    BY <1>1, <2>1
  <2>5. FlattenSeq(tt) = FlattenSeq(ss) \o x /\ FlattenSeq(ss) \in Seq(S)
    <3> HIDE DEF tt, n
    <3> QED BY <1>1, <1>2, <1>3, <2>2, <2>3, <2>4 DEF Agree
  <2> QED BY <2>5
<1> QED BY <1>4, <1>5

-----------------------------------------------------------------------------
(* The broker: its invariant *)

Filter == UNION {ToSet(exps) : exps \in Expression}
Id == Client \X Nat
Message ==
  {Connect, Ping} \cup [cmd : {"SUBSCRIBE"}, exps : Expression, id : Id]
                  \cup [cmd : {"PUBLISH"}, topic : Topic, payload : Id, last : BOOLEAN]
Answer ==
  Message \cup [cmd : {"CONNACK"}, code : Nat] \cup [cmd : {"SUBACK"}, id : Id, qoss : Nat]
Handling == [from : Client, m : Message, whole : BOOLEAN, ok : BOOLEAN]
Session == [nc : Client, subs : Seq(Filter), room : Nat, userdata : Nat]

BrokerTypeInv ==
  /\ conn \in [Client -> {"new", "open", "freed"}]
  /\ sent \in [Client -> Seq(Message)]
  /\ wire \in [Client -> Nat]
  /\ recv \in [Client -> Nat]
  /\ out \in [Client -> Seq(Answer)]
  /\ session \in Seq(Session)
  /\ sessions \subseteq DOMAIN session
  /\ userdata \in [Client -> 0..Len(session)]
  /\ undefined \in BOOLEAN
  /\ handled \in Seq(Handling)

\* How many messages of c are done with, and what of it was handled
Done(c) == Cardinality(WholeOf(c, Len(handled)))
Own(c) == MessagesOf(c, Len(handled))

\* The next message of c was handled before its last byte.
HeadTorn(c) == \E i \in Own(c) : ~handled[i].whole /\ Cardinality(WholeOf(c, i)) = Done(c)

\* What the kernel and the buffer hold is whole messages, those not yet done with; one that was
\* handled before its last byte is alone in the buffer.
FramingInv ==
  \A c \in Client :
    /\ Done(c) <= Len(sent[c]) /\ wire[c] + recv[c] = Whole * (Len(sent[c]) - Done(c))
    /\ HeadTorn(c) => recv[c] = Whole - 1

\* A client connects first and sends no other CONNECT, and goes on when it has been accepted; then
\* it has a session, as nobody has from whom nothing was handled.
ClientInv ==
  \A c \in Client :
    /\ sent[c] = <<>> <=> conn[c] = "new"
    /\ \A i \in DOMAIN sent[c] : sent[c][i].cmd = "CONNECT" <=> i = 1
    /\ Len(sent[c]) > 1 => Accepted(c)
    /\ Accepted(c) => userdata[c] # 0
    /\ userdata[c] # 0 => Own(c) # {}

\* Whose the sessions are.
SessionInv ==
  /\ \A c \in Client : userdata[c] # 0 =>
       session[userdata[c]].nc = c /\ (conn[c] = "open" => userdata[c] \in sessions)
  /\ \A s \in sessions :
       \/ conn[session[s].nc] = "open" /\ userdata[session[s].nc] = s
       \/ ConnectsTwice(session[s].nc) /\ session[s].subs = <<>>

\* Subscriptions come of SUBSCRIBEs, and the overrun of a second one.
SubscribedInv ==
  /\ \A s \in DOMAIN session : session[s].subs # <<>> =>
       \E i \in Own(session[s].nc) : handled[i].m.cmd = "SUBSCRIBE"
  /\ undefined => \E c \in Client : SubscribesTwice(c)

\* What c should have got so far
Dues(c) == [n \in DOMAIN handled |-> Due(c, n)]

\* The newest session has the subscriptions that were acknowledged, and a client what it is due.
DeliveryInv ==
  \A c \in Client : conn[c] # "freed" =>
    /\ userdata[c] = 0 => Subscriptions(c, Len(handled) + 1) = {}
    /\ userdata[c] # 0 => ToSet(session[userdata[c]].subs) = Subscriptions(c, Len(handled) + 1)
    /\ out[c] = FlattenSeq(Dues(c))

BrokerInv ==
  /\ BrokerTypeInv /\ FramingInv /\ ClientInv /\ HandledInOrder
  /\ SessionInv /\ SubscribedInv /\ DeliveryInv

LEMMA HandledType ==
  ASSUME BrokerTypeInv, NEW n \in DOMAIN handled
  PROVE  /\ handled[n].from \in Client /\ handled[n].m \in Message
         /\ handled[n].whole \in BOOLEAN /\ handled[n].ok \in BOOLEAN
<1>1. handled \in Seq(Handling)
  BY DEF BrokerTypeInv
<1>2. handled[n] \in Handling
  BY <1>1
<1> QED BY <1>2 DEF Handling

LEMMA SessionType ==
  ASSUME BrokerTypeInv, NEW s \in DOMAIN session
  PROVE  session[s].nc \in Client /\ session[s].subs \in Seq(Filter) /\ s # 0 /\ s \in 1..Len(session)
<1>1. session \in Seq(Session)
  BY DEF BrokerTypeInv
<1>2. session[s] \in Session /\ s # 0 /\ s \in 1..Len(session)
  BY <1>1
<1> QED BY <1>2 DEF Session

(* Counting *)

LEMMA CountType ==
  ASSUME BrokerTypeInv, NEW c \in Client
  PROVE  /\ Len(handled) \in Nat /\ DOMAIN handled = 1..Len(handled)
         /\ Done(c) \in Nat
         /\ \A n \in 0..Len(handled) : /\ IsFiniteSet(WholeOf(c, n)) /\ Cardinality(WholeOf(c, n)) \in Nat
                                       /\ Cardinality(WholeOf(c, n)) <= Done(c)
<1>1. Len(handled) \in Nat /\ DOMAIN handled = 1..Len(handled)
  BY DEF BrokerTypeInv
<1>2. ASSUME NEW n \in 0..Len(handled)
      PROVE  /\ IsFiniteSet(WholeOf(c, n)) /\ Cardinality(WholeOf(c, n)) \in Nat
             /\ WholeOf(c, n) \in SUBSET WholeOf(c, Len(handled))
  <2>1. IsFiniteSet(1..n) /\ WholeOf(c, n) \in SUBSET (1..n)
    BY <1>1, FS_Interval DEF WholeOf, MessagesOf
  <2>2. IsFiniteSet(WholeOf(c, n))
    BY <2>1, FS_Subset
  <2>3. 1..n \subseteq 1..Len(handled)
    BY <1>1
  <2> QED BY <2>2, <2>3, FS_CardinalityType DEF WholeOf, MessagesOf
<1>3. Done(c) \in Nat /\ IsFiniteSet(WholeOf(c, Len(handled)))
  BY <1>1, <1>2 DEF Done
<1>4. \A n \in 0..Len(handled) : Cardinality(WholeOf(c, n)) <= Done(c)
  BY <1>2, <1>3, FS_Subset DEF Done
<1> QED BY <1>1, <1>2, <1>3, <1>4

\* h is handled, the k-th.
LEMMA HandledNext ==
  ASSUME BrokerTypeInv, NEW h \in Handling, handled' = Append(handled, h), NEW k, k = Len(handled) + 1
  PROVE  /\ k \in Nat /\ k - 1 = Len(handled) /\ Len(handled') = k
         /\ DOMAIN handled' = DOMAIN handled \cup {k} /\ k \notin DOMAIN handled
         /\ handled'[k] = h
         /\ \A n \in DOMAIN handled : handled'[n] = handled[n]
         /\ \A d \in Client, n \in 0..Len(handled) : MessagesOf(d, n)' = MessagesOf(d, n) /\ WholeOf(d, n)' = WholeOf(d, n)
         /\ \A d \in Client : Own(d)' = Own(d) \cup (IF d = h.from THEN {k} ELSE {})
         /\ \A d \in Client : Done(d)' = IF d = h.from /\ h.whole THEN Done(d) + 1 ELSE Done(d)
         /\ \A d \in Client : Cardinality(WholeOf(d, k)') = Done(d)'
<1> DEFINE N == Len(handled)
<1>1. handled \in Seq(Handling) /\ N \in Nat
  BY DEF BrokerTypeInv
<1>2. /\ Len(handled') = N + 1 /\ DOMAIN handled' = DOMAIN handled \cup {N + 1}
      /\ handled'[N + 1] = h /\ \A n \in DOMAIN handled : handled'[n] = handled[n]
  BY <1>1
<1>3. DOMAIN handled = 1..N /\ k = N + 1 /\ k \in Nat /\ k \notin 1..N /\ 1..k = 1..N \cup {k} /\ k - 1 = N
  BY <1>1
<1>4. ASSUME NEW d \in Client, NEW n \in 0..N
      PROVE  MessagesOf(d, n)' = MessagesOf(d, n) /\ WholeOf(d, n)' = WholeOf(d, n)
  <2>1. 1..n \subseteq DOMAIN handled
    BY <1>1, <1>3
  <2> QED BY <1>2, <2>1 DEF MessagesOf, WholeOf
<1>5. ASSUME NEW d \in Client
      PROVE  /\ MessagesOf(d, k)' = MessagesOf(d, N) \cup (IF d = h.from THEN {k} ELSE {})
             /\ WholeOf(d, k)' = WholeOf(d, N) \cup (IF d = h.from /\ h.whole THEN {k} ELSE {})
  <2>1. handled'[k] = h
    BY <1>2, <1>3
  <2>2. \A i \in 1..N : handled'[i] = handled[i]
    BY <1>2, <1>3
  <2>3. MessagesOf(d, k)' = {i \in 1..N \cup {k} : handled'[i].from = d}
    BY <1>3 DEF MessagesOf
  <2>4. MessagesOf(d, k)' = MessagesOf(d, N) \cup (IF d = h.from THEN {k} ELSE {})
    <3> HIDE DEF N
    <3> QED BY <2>1, <2>2, <2>3 DEF MessagesOf
  <2>5. WholeOf(d, k)' = {i \in MessagesOf(d, k)' : handled'[i].whole}
    BY DEF WholeOf
  <2>6. \A i \in MessagesOf(d, N) : handled'[i] = handled[i]
    BY <2>2 DEF MessagesOf
  <2>7. WholeOf(d, k)' = WholeOf(d, N) \cup (IF d = h.from /\ h.whole THEN {k} ELSE {})
    <3> HIDE DEF N
    <3> QED BY <2>1, <2>4, <2>5, <2>6 DEF WholeOf
  <2> QED BY <2>4, <2>7
<1>6. ASSUME NEW d \in Client
      PROVE  Cardinality(WholeOf(d, k)') = IF d = h.from /\ h.whole THEN Done(d) + 1 ELSE Done(d)
  <2>1. IsFiniteSet(WholeOf(d, N))
    BY <1>1, CountType
  <2>2. k \notin WholeOf(d, N)
    BY <1>3 DEF WholeOf, MessagesOf
  <2>3. Cardinality(WholeOf(d, N) \cup {k}) = Cardinality(WholeOf(d, N)) + 1
    BY <2>1, <2>2, FS_AddElement
  <2>4. WholeOf(d, N) \cup {} = WholeOf(d, N)
    OBVIOUS
  <2> QED BY <1>5, <2>3, <2>4 DEF Done
<1>7. ASSUME NEW d \in Client PROVE Done(d)' = Cardinality(WholeOf(d, k)') /\ Own(d)' = MessagesOf(d, k)'
  BY <1>2, <1>3 DEF Done, Own, MessagesOf, WholeOf
<1> QED BY <1>2, <1>3, <1>4, <1>5, <1>6, <1>7 DEF Own

\* While no message of c is done with, what was handled of it is its CONNECT without its last byte.
LEMMA OnlyConnect ==
  ASSUME BrokerInv, NEW c \in Client, Done(c) = 0
  PROVE  \A i \in Own(c) : i \in DOMAIN handled /\ handled[i].m = Connect /\ ~handled[i].whole
<1> SUFFICES ASSUME NEW i \in Own(c)
             PROVE  i \in DOMAIN handled /\ handled[i].m = Connect /\ ~handled[i].whole
  OBVIOUS
<1>1. BrokerTypeInv /\ HandledInOrder /\ ClientInv
  BY DEF BrokerInv
<1>2. i \in DOMAIN handled /\ handled[i].from = c /\ i - 1 \in 0..Len(handled)
  BY <1>1, CountType DEF Own, MessagesOf
<1>3. Cardinality(WholeOf(c, i - 1)) = 0
  BY <1>1, <1>2, CountType
<1>4. 1 \in DOMAIN sent[c] /\ handled[i].m = sent[c][1]
  BY <1>1, <1>2, <1>3 DEF HandledInOrder
<1>5. handled[i].m = Connect
  <2>1. handled[i].m.cmd = "CONNECT" /\ handled[i].m \in Message
    BY <1>1, <1>2, <1>4, HandledType DEF ClientInv
  <2> QED BY <2>1 DEF Message, Ping
<1>6. ~handled[i].whole
  <2>1. IsFiniteSet(WholeOf(c, Len(handled))) /\ Cardinality(WholeOf(c, Len(handled))) = 0
    BY <1>1, CountType DEF Done
  <2>2. WholeOf(c, Len(handled)) = {}
    BY <2>1, FS_EmptySet
  <2> QED BY <2>2 DEF WholeOf, Own
<1> QED BY <1>2, <1>5, <1>6

(* Framing *)

LEMMA Thirds ==
  ASSUME NEW w \in Nat, NEW r \in Nat, NEW k \in Nat, w + r = Whole * k
  PROVE  (w + r + Whole - 1) \div Whole = k
BY DEF Whole

LEMMA OneMore ==
  ASSUME NEW w \in Nat, NEW r \in Nat, NEW l \in Nat, NEW g \in Nat, g <= l, w + r = Whole * (l - g)
  PROVE  g <= l + 1 /\ (w + Whole) + r = Whole * ((l + 1) - g)
BY DEF Whole

LEMMA OneLess ==
  ASSUME NEW w, NEW l \in Nat, NEW g \in Nat, w = Whole * (l - g)
  PROVE  w - Whole = Whole * (l - (g + 1))
BY DEF Whole

\* What a recv adds to belongs to the first message that is not done with.
LEMMA HeadOfBuffer ==
  ASSUME BrokerTypeInv, FramingInv, NEW c \in Client, NEW n \in 1..wire[c]
  PROVE  /\ wire[c] - n \in Nat /\ recv[c] + n \in Nat
         /\ Done(c) + 1 \in DOMAIN sent[c] /\ First(c) = sent[c][Done(c) + 1]
         /\ HeadTorn(c) => recv[c] + n >= Whole
<1>1. /\ wire[c] \in Nat /\ recv[c] \in Nat /\ n \in Nat /\ n >= 1 /\ n <= wire[c]
      /\ sent[c] \in Seq(Message) /\ Len(sent[c]) \in Nat
  BY DEF BrokerTypeInv
<1>2. Done(c) \in Nat
  BY CountType
<1> DEFINE k == Len(sent[c]) - Done(c)
<1>3. k \in Nat /\ wire[c] + recv[c] = Whole * k
  BY <1>1, <1>2 DEF FramingInv
<1>4. k >= 1
  <2> HIDE DEF k
  <2> QED BY <1>1, <1>3 DEF Whole
<1>5. (wire[c] + recv[c] + Whole - 1) \div Whole = k
  <2> HIDE DEF k
  <2> QED BY <1>1, <1>3, Thirds
<1>6. Len(sent[c]) - k + 1 = Done(c) + 1 /\ Done(c) + 1 \in 1..Len(sent[c])
  BY <1>1, <1>2, <1>4
<1>7. First(c) = sent[c][Len(sent[c]) - k + 1]
  <2> HIDE DEF k
  <2> QED BY <1>5 DEF First
<1>8. HeadTorn(c) => recv[c] + n >= Whole
  BY <1>1 DEF FramingInv, Whole
<1> QED BY <1>1, <1>6, <1>7, <1>8

(* The steps *)

\* h is handled, which becomes of the first message that is not done with.
Handles(c, h) ==
  /\ conn[c] = "open" /\ h \in Handling /\ h.from = c
  /\ Done(c) + 1 \in DOMAIN sent[c] /\ h.m = sent[c][Done(c) + 1]
  /\ ~h.whole => ~HeadTorn(c)
  /\ Handle(c, Read(h.m, h.whole), h.ok) /\ handled' = Append(handled, h)
  /\ UNCHANGED <<conn, sent>>

\* The wire and the buffer of c hold w and r parts from now on.
Holds(c, w, r) ==
  w \in Nat /\ r \in Nat /\ wire' = [wire EXCEPT ![c] = w] /\ recv' = [recv EXCEPT ![c] = r]

Waits(c) == ~HeadTorn(c) /\ UNCHANGED <<conn, sent, out, session, sessions, userdata, undefined, handled>>

LEMMA RecvCases ==
  ASSUME BrokerTypeInv, FramingInv, NEW c \in Client, Recv(c)
  PROVE  \/ \E h \in Handling, w \in Nat, r \in Nat :
              /\ Handles(c, h) /\ Holds(c, w, r)
              /\ IF h.whole THEN w + r = (wire[c] + recv[c]) - Whole
                            ELSE w + r = wire[c] + recv[c] /\ r = Whole - 1
         \/ \E w \in Nat, r \in Nat : Waits(c) /\ Holds(c, w, r) /\ w + r = wire[c] + recv[c]
<1>1. PICK n \in 1..wire[c] :
        /\ wire' = [wire EXCEPT ![c] = wire[c] - n]
        /\ IF Framed(First(c), recv[c] + n)
             THEN \E ok \in (IF First(c).cmd = "CONNECT" THEN BOOLEAN ELSE {TRUE}) :
                    /\ Handle(c, Read(First(c), recv[c] + n >= Whole), ok)
                    /\ recv' = [recv EXCEPT ![c] = Left(recv[c] + n)]
                    /\ handled' = Append(handled, [from |-> c, m |-> First(c), whole |-> recv[c] + n >= Whole, ok |-> ok])
             ELSE /\ recv' = [recv EXCEPT ![c] = recv[c] + n]
                  /\ UNCHANGED <<out, session, sessions, userdata, undefined, handled>>
  BY DEF Recv
<1>2. conn[c] = "open" /\ UNCHANGED <<conn, sent>>
  BY DEF Recv
<1> DEFINE w == wire[c] - n
           parts == recv[c] + n
<1>3. /\ w \in Nat /\ parts \in Nat
      /\ Done(c) + 1 \in DOMAIN sent[c] /\ First(c) = sent[c][Done(c) + 1]
      /\ HeadTorn(c) => parts >= Whole
  BY HeadOfBuffer
<1>4. wire[c] \in Nat /\ recv[c] \in Nat /\ n \in Nat /\ sent[c] \in Seq(Message) /\ w + parts = wire[c] + recv[c]
  BY DEF BrokerTypeInv
<1>5. First(c) \in Message
  BY <1>3, <1>4
<1>6. wire' = [wire EXCEPT ![c] = w]
  BY <1>1
<1>7. CASE Framed(First(c), parts)
  <2>1. PICK ok \in BOOLEAN :
          /\ Handle(c, Read(First(c), parts >= Whole), ok)
          /\ recv' = [recv EXCEPT ![c] = Left(parts)]
          /\ handled' = Append(handled, [from |-> c, m |-> First(c), whole |-> parts >= Whole, ok |-> ok])
    BY <1>1, <1>7
  <2> DEFINE h == [from |-> c, m |-> First(c), whole |-> parts >= Whole, ok |-> ok]
  <2>2. h \in Handling /\ h.from = c /\ h.m = First(c) /\ h.ok = ok /\ (h.whole <=> parts >= Whole)
    <3>1. PICK whole \in BOOLEAN : whole = (parts >= Whole)
      <4>1. (parts >= Whole) = TRUE \/ (parts >= Whole) = FALSE
        OBVIOUS
      <4> QED BY <4>1
    <3>2. h = [from |-> c, m |-> First(c), whole |-> whole, ok |-> ok]
      BY <3>1
    <3> HIDE DEF h, parts
    <3> QED BY <1>5, <3>1, <3>2 DEF Handling
  <2>3. Handles(c, h)
    <3>1. ~h.whole => ~HeadTorn(c)
      BY <1>3, <2>2
    <3>2. Handle(c, Read(h.m, h.whole), h.ok) /\ handled' = Append(handled, h)
      BY <2>1
    <3> HIDE DEF h, parts
    <3> QED BY <1>2, <1>3, <2>2, <3>1, <3>2 DEF Handles
  <2>4. Left(parts) \in Nat /\ Left(parts) = IF parts >= Whole THEN parts - Whole ELSE parts
    BY <1>3 DEF Left, Whole
  <2>5. Holds(c, w, Left(parts))
    <3> HIDE DEF w, parts
    <3> QED BY <1>3, <1>6, <2>1, <2>4 DEF Holds
  <2>6. IF h.whole THEN w + Left(parts) = (wire[c] + recv[c]) - Whole
                   ELSE w + Left(parts) = wire[c] + recv[c] /\ Left(parts) = Whole - 1
    <3>1. CASE h.whole
      <4>1. Left(parts) = parts - Whole
        BY <2>2, <2>4, <3>1
      <4> QED BY <1>3, <1>4, <3>1, <4>1 DEF Whole
    <3>2. CASE ~h.whole
      <4>1. Left(parts) = parts /\ parts = Whole - 1
        BY <1>7, <2>2, <2>4, <3>2 DEF Framed
      <4> QED BY <1>4, <3>2, <4>1
    <3> QED BY <3>1, <3>2
  <2> HIDE DEF h, w, parts
  <2> QED BY <1>3, <2>2, <2>3, <2>4, <2>5, <2>6
<1>8. CASE ~Framed(First(c), parts)
  <2>1. ~HeadTorn(c)
    BY <1>3, <1>8 DEF Framed
  <2>2. Waits(c) /\ recv' = [recv EXCEPT ![c] = parts]
    BY <1>1, <1>2, <1>8, <2>1 DEF Waits
  <2> HIDE DEF w, parts
  <2> QED BY <1>3, <1>4, <1>6, <2>2 DEF Holds
<1> QED BY <1>7, <1>8

\* What each message does, by its command; in each case what matters of the state before.
Connects(c, h) ==
  /\ h.m = Connect /\ Done(c) = 0
  /\ HandleConnect(c, h.ok)

Subscribes(c, h) ==
  /\ h.m \in [cmd : {"SUBSCRIBE"}, exps : Expression, id : Id] /\ h.m.exps \in Seq(Filter)
  /\ userdata[c] \in sessions /\ session[userdata[c]].nc = c
  /\ HandleSubscribe(c, h.m)

Publishes(h) ==
  /\ h.m \in [cmd : {"PUBLISH"}, topic : Topic, payload : Id, last : BOOLEAN]
  /\ Read(h.m, h.whole) \in Message
  /\ HandlePublish(Read(h.m, h.whole))

Pings(h) == h.m = Ping /\ UNCHANGED <<out, session, sessions, userdata, undefined>>

LEMMA HandleCases ==
  ASSUME BrokerInv, NEW c \in Client, NEW h \in Handling, Handles(c, h)
  PROVE  Connects(c, h) \/ Subscribes(c, h) \/ Publishes(h) \/ Pings(h)
<1> DEFINE m == h.m
<1>1. BrokerTypeInv /\ ClientInv /\ SessionInv
  BY DEF BrokerInv
<1>2. /\ conn[c] = "open" /\ Done(c) + 1 \in DOMAIN sent[c] /\ m = sent[c][Done(c) + 1]
      /\ Handle(c, Read(m, h.whole), h.ok)
      /\ Done(c) \in Nat /\ sent[c] \in Seq(Message) /\ m \in Message /\ h.whole \in BOOLEAN
  BY <1>1, CountType DEF Handles, BrokerTypeInv, Handling
<1>3. m.cmd = "CONNECT" <=> Done(c) = 0
  <2>1. m.cmd = "CONNECT" <=> Done(c) + 1 = 1
    BY <1>1, <1>2 DEF ClientInv
  <2> QED BY <1>2, <2>1
<1>4. m.cmd # "CONNECT" => userdata[c] \in sessions /\ session[userdata[c]].nc = c
  <2> SUFFICES ASSUME m.cmd # "CONNECT" PROVE userdata[c] \in sessions /\ session[userdata[c]].nc = c
    OBVIOUS
  <2>1. Len(sent[c]) > 1
    BY <1>2, <1>3
  <2>2. userdata[c] # 0
    BY <1>1, <2>1 DEF ClientInv
  <2> QED BY <1>1, <1>2, <2>2 DEF SessionInv
<1>5. CASE m = Connect
  <2>1. m.cmd = "CONNECT"
    BY <1>5 DEF Connect
  <2>2. Read(m, h.whole) = m
    BY <2>1 DEF Read
  <2> QED BY <1>2, <1>3, <1>5, <2>1, <2>2 DEF Handle, Connects
<1>6. CASE m = Ping
  <2>1. m.cmd = "PINGREQ"
    BY <1>6 DEF Ping
  <2>2. Read(m, h.whole) = m
    BY <2>1 DEF Read
  <2> QED BY <1>2, <1>6, <2>1, <2>2 DEF Handle, Pings
<1>7. CASE m \in [cmd : {"SUBSCRIBE"}, exps : Expression, id : Id]
  <2>1. m.cmd = "SUBSCRIBE" /\ m.exps \in Expression
    BY <1>7
  <2>2. m.exps \in Seq(Filter)
    BY <2>1, ExpressionAssumption DEF Filter
  <2>3. Read(m, h.whole) = m
    BY <2>1 DEF Read
  <2> QED BY <1>2, <1>4, <1>7, <2>1, <2>2, <2>3 DEF Handle, Subscribes
<1>8. CASE m \in [cmd : {"PUBLISH"}, topic : Topic, payload : Id, last : BOOLEAN]
  <2>1. m.cmd = "PUBLISH"
    BY <1>8
  <2>2. Read(m, h.whole) \in [cmd : {"PUBLISH"}, topic : Topic, payload : Id, last : BOOLEAN]
    BY <1>2, <1>8, <2>1 DEF Read
  <2>3. Read(m, h.whole).cmd = "PUBLISH" /\ Read(m, h.whole) \in Message
    BY <2>2 DEF Message
  <2> QED BY <1>2, <1>8, <2>3 DEF Handle, Publishes
<1> QED BY <1>2, <1>5, <1>6, <1>7, <1>8 DEF Message

LEMMA BrokerInitInv == BrokerInit => BrokerInv
<1> SUFFICES ASSUME BrokerInit PROVE BrokerInv
  OBVIOUS
<1> USE DEF BrokerInit
<1>1. BrokerTypeInv
  <2>1. conn \in [Client -> {"new", "open", "freed"}] /\ wire \in [Client -> Nat] /\ recv \in [Client -> Nat]
    OBVIOUS
  <2>2. \A S : <<>> \in Seq(S)
    OBVIOUS
  <2>3. sent \in [Client -> Seq(Message)] /\ out \in [Client -> Seq(Answer)]
    BY <2>2
  <2>4. Len(session) = 0 /\ 0 \in 0..0
    OBVIOUS
  <2> QED BY <2>1, <2>2, <2>3, <2>4 DEF BrokerTypeInv
<1>2. \A c \in Client : Own(c) = {} /\ WholeOf(c, Len(handled)) = {} /\ Done(c) = 0
  BY FS_EmptySet DEF MessagesOf, WholeOf, Own, Done
<1>3. FramingInv
  BY <1>2 DEF FramingInv, HeadTorn, Whole
<1>4. ClientInv
  BY DEF ClientInv, Accepted
<1>5. HandledInOrder
  BY DEF HandledInOrder
<1>6. SessionInv /\ SubscribedInv
  BY DEF SessionInv, SubscribedInv
<1>7. DeliveryInv
  <2> SUFFICES ASSUME NEW c \in Client
               PROVE  Subscriptions(c, Len(handled) + 1) = {} /\ FlattenSeq(Dues(c)) = <<>>
    BY DEF DeliveryInv
  <2>1. Dues(c) = <<>>
    BY DEF Dues
  <2>2. MessagesOf(c, (Len(handled) + 1) - 1) = {}
    BY DEF MessagesOf
  <2>3. Subscriptions(c, Len(handled) + 1) = {}
    BY <2>2 DEF Subscriptions
  <2> QED BY <2>1, <2>3, FlattenEmpty
<1> QED BY <1>1, <1>3, <1>4, <1>5, <1>6, <1>7 DEF BrokerInv

\* Most steps handle nothing.
Quiet == UNCHANGED <<out, session, userdata, undefined, handled>>

LEMMA QuietValues ==
  ASSUME Quiet, NEW c
  PROVE  /\ Done(c)' = Done(c) /\ Own(c)' = Own(c) /\ Accepted(c)' = Accepted(c) /\ HeadTorn(c)' = HeadTorn(c)
         /\ ConnectsTwice(c)' = ConnectsTwice(c) /\ SubscribesTwice(c)' = SubscribesTwice(c)
         /\ Subscriptions(c, Len(handled) + 1)' = Subscriptions(c, Len(handled) + 1)
         /\ FlattenSeq(Dues(c))' = FlattenSeq(Dues(c))
<1>1. Done(c)' = Done(c) /\ Own(c)' = Own(c) /\ HeadTorn(c)' = HeadTorn(c)
  BY DEF Quiet, Done, Own, HeadTorn, WholeOf, MessagesOf
<1>2. Accepted(c)' = Accepted(c) /\ ConnectsTwice(c)' = ConnectsTwice(c) /\ SubscribesTwice(c)' = SubscribesTwice(c)
  BY DEF Quiet, Accepted, ConnectsTwice, SubscribesTwice, MessagesOf
<1>3. /\ Subscriptions(c, Len(handled) + 1)' = Subscriptions(c, Len(handled) + 1)
      /\ FlattenSeq(Dues(c))' = FlattenSeq(Dues(c))
  BY DEF Quiet, Subscriptions, MessagesOf, Dues, Due
<1> QED BY <1>1, <1>2, <1>3

\* What the broker handled stays as it was, while clients only send more.
LEMMA QuietHandledInOrder ==
  ASSUME BrokerTypeInv, HandledInOrder, Quiet, sent' \in [Client -> Seq(Message)],
         \A c \in Client : Len(sent[c]) <= Len(sent'[c]) /\ Agree(sent'[c], sent[c], Len(sent[c]))
  PROVE  HandledInOrder'
<1>0. /\ handled' = handled
      /\ \A d, n : MessagesOf(d, n)' = MessagesOf(d, n) /\ WholeOf(d, n)' = WholeOf(d, n)
  BY DEF Quiet, MessagesOf, WholeOf
<1> SUFFICES ASSUME NEW n \in DOMAIN handled
             PROVE  LET c == handled[n].from
                        done == Cardinality(WholeOf(c, n - 1))
                    IN  /\ done + 1 \in DOMAIN sent'[c] /\ handled[n].m = sent'[c][done + 1]
                        /\ ~handled[n].whole =>
                             \A i \in MessagesOf(c, n - 1) : ~handled[i].whole => Cardinality(WholeOf(c, i)) # done
  BY <1>0 DEF HandledInOrder
<1> DEFINE c == handled[n].from
           k == Cardinality(WholeOf(c, n - 1)) + 1
<1>1. /\ k \in DOMAIN sent[c] /\ handled[n].m = sent[c][k]
      /\ ~handled[n].whole =>
           \A i \in MessagesOf(c, n - 1) : ~handled[i].whole => Cardinality(WholeOf(c, i)) # Cardinality(WholeOf(c, n - 1))
  BY DEF HandledInOrder
<1>2. c \in Client /\ sent[c] \in Seq(Message) /\ sent'[c] \in Seq(Message)
  <2>1. c \in Client
    BY HandledType
  <2> HIDE DEF c
  <2> QED BY <2>1 DEF BrokerTypeInv
<1> HIDE DEF k, c
<1>3. k \in 1..Len(sent[c]) /\ k \in DOMAIN sent'[c]
  BY <1>1, <1>2
<1>4. sent'[c][k] = sent[c][k]
  BY <1>2, <1>3 DEF Agree
<1> QED BY <1>1, <1>3, <1>4 DEF c, k

LEMMA SameHandledInOrder ==
  ASSUME HandledInOrder, UNCHANGED <<sent, handled>>
  PROVE  HandledInOrder'
<1>1. \A d, n : MessagesOf(d, n)' = MessagesOf(d, n) /\ WholeOf(d, n)' = WholeOf(d, n)
  BY DEF MessagesOf, WholeOf
<1> QED BY <1>1 DEF HandledInOrder

\* Nor do they change what a client should have got, and what was subscribed to.
LEMMA QuietDelivery ==
  ASSUME SubscribedInv, DeliveryInv, Quiet, \A d \in Client : conn'[d] # "freed" => conn[d] # "freed"
  PROVE  SubscribedInv' /\ DeliveryInv'
<1>1. SubscribedInv'
  BY DEF SubscribedInv, Quiet, Own, MessagesOf, SubscribesTwice
<1>2. DeliveryInv'
  <2> SUFFICES ASSUME NEW c \in Client, conn[c] # "freed"
               PROVE  /\ userdata[c] = 0 => Subscriptions(c, Len(handled) + 1) = {}
                      /\ userdata[c] # 0 => ToSet(session[userdata[c]].subs) = Subscriptions(c, Len(handled) + 1)
                      /\ out[c] = FlattenSeq(Dues(c))
    BY QuietValues DEF DeliveryInv, Quiet
  <2> QED BY DEF DeliveryInv
<1> QED BY <1>1, <1>2

\* A connection that is new has sent nothing, got nothing and has no session.
LEMMA NewClient ==
  ASSUME BrokerInv, NEW c \in Client, conn[c] = "new"
  PROVE  /\ sent[c] = <<>> /\ Done(c) = 0 /\ Own(c) = {} /\ userdata[c] = 0 /\ ~Accepted(c)
         /\ wire[c] + recv[c] = 0 /\ ~ConnectsTwice(c)
         /\ \A s \in sessions : session[s].nc # c
<1>1. BrokerTypeInv /\ FramingInv /\ HandledInOrder /\ ClientInv /\ SessionInv
  BY DEF BrokerInv
<1>2. sent[c] = <<>> /\ Len(sent[c]) = 0
  BY <1>1 DEF ClientInv
<1>3. Done(c) = 0 /\ wire[c] + recv[c] = 0
  <2>1. Done(c) <= Len(sent[c]) /\ wire[c] + recv[c] = Whole * (Len(sent[c]) - Done(c)) /\ Done(c) \in Nat
    BY <1>1, CountType DEF FramingInv
  <2>2. Done(c) = 0
    BY <1>2, <2>1
  <2> QED BY <1>2, <2>1, <2>2 DEF Whole
<1>4. Own(c) = {}
  <2> SUFFICES ASSUME NEW i \in Own(c) PROVE FALSE
    OBVIOUS
  <2>1. i \in DOMAIN handled /\ handled[i].from = c
    BY <1>1, CountType DEF Own, MessagesOf
  <2>2. Cardinality(WholeOf(c, i - 1)) + 1 \in DOMAIN sent[c]
    BY <1>1, <2>1 DEF HandledInOrder
  <2> QED BY <1>2, <2>2
<1>5. userdata[c] = 0 /\ ~Accepted(c) /\ ~ConnectsTwice(c)
  BY <1>1, <1>4 DEF ClientInv, ConnectsTwice, Own
<1>6. \A s \in sessions : session[s].nc # c
  BY <1>1, <1>5 DEF SessionInv
<1> QED BY <1>2, <1>3, <1>4, <1>5, <1>6

LEMMA OpenKeeps ==
  ASSUME BrokerInv, NEW c \in Client, Open(c)
  PROVE  BrokerInv'
<1>1. /\ conn[c] = "new" /\ conn' = [conn EXCEPT ![c] = "open"]
      /\ sent' = [sent EXCEPT ![c] = Append(sent[c], Connect)] /\ wire' = [wire EXCEPT ![c] = wire[c] + Whole]
      /\ UNCHANGED <<recv, sessions>>
  BY DEF Open, Send, Broker
<1>2. Quiet
  BY DEF Open, Send, Broker, Quiet
<1>3. BrokerTypeInv /\ FramingInv /\ ClientInv /\ HandledInOrder /\ SessionInv /\ SubscribedInv /\ DeliveryInv
  BY DEF BrokerInv
<1>4. /\ sent[c] = <<>> /\ Done(c) = 0 /\ Own(c) = {} /\ userdata[c] = 0 /\ ~Accepted(c)
      /\ wire[c] + recv[c] = 0
      /\ \A s \in sessions : session[s].nc # c
  BY <1>1, NewClient
<1>5. /\ conn \in [Client -> {"new", "open", "freed"}] /\ sent \in [Client -> Seq(Message)]
      /\ wire \in [Client -> Nat] /\ recv \in [Client -> Nat] /\ Connect \in Message
  BY <1>3 DEF BrokerTypeInv, Message
<1>6. \A d \in Client : d # c => conn'[d] = conn[d] /\ sent'[d] = sent[d] /\ wire'[d] = wire[d]
  BY <1>1, <1>5
<1>7. conn'[c] = "open" /\ sent'[c] = <<Connect>> /\ wire'[c] = wire[c] + Whole
  BY <1>1, <1>4, <1>5
<1>8. sent' \in [Client -> Seq(Message)]
  <2>1. Append(sent[c], Connect) \in Seq(Message)
    BY <1>5
  <2> QED BY <1>1, <1>5, <2>1
<1>9. BrokerTypeInv'
  <2>1. conn' \in [Client -> {"new", "open", "freed"}] /\ wire' \in [Client -> Nat] /\ recv' \in [Client -> Nat]
    BY <1>1, <1>5 DEF Whole
  <2> QED BY <1>1, <1>2, <1>3, <1>8, <2>1 DEF BrokerTypeInv, Quiet
<1>10. FramingInv'
  <2> SUFFICES ASSUME NEW d \in Client
               PROVE  /\ Done(d) <= Len(sent'[d]) /\ wire'[d] + recv[d] = Whole * (Len(sent'[d]) - Done(d))
                      /\ HeadTorn(d) => recv[d] = Whole - 1
    BY <1>1, <1>2, QuietValues DEF FramingInv
  <2>1. CASE d = c
    <3>1. Len(sent'[c]) = 1 /\ Done(c) = 0 /\ wire'[c] = wire[c] + Whole
      BY <1>4, <1>7
    <3>2. wire[c] \in Nat /\ recv[c] \in Nat /\ wire[c] + recv[c] = 0 /\ ~HeadTorn(c)
      BY <1>4, <1>5 DEF HeadTorn
    <3> QED BY <2>1, <3>1, <3>2 DEF Whole
  <2>2. CASE d # c
    BY <1>3, <1>6, <2>2 DEF FramingInv
  <2> QED BY <2>1, <2>2
<1>11. ClientInv'
  <2> SUFFICES ASSUME NEW d \in Client
               PROVE  /\ sent'[d] = <<>> <=> conn'[d] = "new"
                      /\ \A i \in DOMAIN sent'[d] : sent'[d][i].cmd = "CONNECT" <=> i = 1
                      /\ Len(sent'[d]) > 1 => Accepted(d)
                      /\ Accepted(d) => userdata[d] # 0
                      /\ userdata[d] # 0 => Own(d) # {}
    BY <1>2, QuietValues DEF ClientInv, Quiet
  <2>1. CASE d = c
    <3>1. Len(sent'[d]) = 1 /\ DOMAIN sent'[d] = {1} /\ sent'[d][1].cmd = "CONNECT"
      BY <1>7, <2>1 DEF Connect
    <3>2. sent'[d] # <<>>
      BY <1>7, <2>1
    <3>3. conn'[c] # "new" /\ ~(Len(sent'[c]) > 1)
      BY <1>7, <3>1
    <3>4. \A i \in DOMAIN sent'[c] : i = 1 /\ sent'[c][i].cmd = "CONNECT"
      BY <2>1, <3>1
    <3> QED BY <1>4, <2>1, <3>2, <3>3, <3>4
  <2>2. CASE d # c
    BY <1>3, <1>6, <2>2 DEF ClientInv
  <2> QED BY <2>1, <2>2
<1>12. HandledInOrder'
  <2>1. ASSUME NEW d \in Client PROVE Len(sent[d]) <= Len(sent'[d]) /\ Agree(sent'[d], sent[d], Len(sent[d]))
    <3>1. CASE d = c
      BY <1>4, <1>7, <3>1 DEF Agree
    <3>2. CASE d # c
      BY <1>5, <1>6, <3>2 DEF Agree
    <3> QED BY <3>1, <3>2
  <2> QED BY <1>2, <1>3, <1>8, <2>1, QuietHandledInOrder
<1>13. SessionInv'
  <2>1. ASSUME NEW s \in sessions
        PROVE  \/ conn'[session[s].nc] = "open" /\ userdata[session[s].nc] = s
               \/ ConnectsTwice(session[s].nc) /\ session[s].subs = <<>>
    <3>1. \/ conn[session[s].nc] = "open" /\ userdata[session[s].nc] = s
          \/ ConnectsTwice(session[s].nc) /\ session[s].subs = <<>>
      BY <1>3 DEF SessionInv
    <3>2. session[s].nc # c
      BY <1>4
    <3> QED BY <1>1, <1>5, <3>1, <3>2
  <2>2. \A d \in Client : userdata[d] # 0 =>
          session[userdata[d]].nc = d /\ (conn'[d] = "open" => userdata[d] \in sessions)
    BY <1>3, <1>4, <1>6 DEF SessionInv
  <2> QED BY <1>1, <1>2, <2>1, <2>2 DEF SessionInv, Quiet, ConnectsTwice, MessagesOf
<1>14. SubscribedInv' /\ DeliveryInv'
  <2>1. \A d \in Client : conn'[d] # "freed" => conn[d] # "freed"
    BY <1>1, <1>6
  <2> QED BY <1>2, <1>3, <2>1, QuietDelivery
<1> QED BY <1>9, <1>10, <1>11, <1>12, <1>13, <1>14 DEF BrokerInv

LEMMA SendKeeps ==
  ASSUME BrokerInv, NEW c \in Client, SendMore(c)
  PROVE  BrokerInv'
<1>1. conn[c] = "open" /\ Accepted(c) /\ UNCHANGED <<conn, recv, sessions>>
  BY DEF SendMore, Send, Broker
<1>2. Quiet
  BY DEF SendMore, Send, Broker, Quiet
<1>3. BrokerTypeInv /\ FramingInv /\ ClientInv /\ HandledInOrder /\ SessionInv /\ SubscribedInv /\ DeliveryInv
  BY DEF BrokerInv
<1>4. /\ sent \in [Client -> Seq(Message)] /\ wire \in [Client -> Nat] /\ recv \in [Client -> Nat]
  BY <1>3 DEF BrokerTypeInv
<1>5. PICK m \in Message : m.cmd # "CONNECT" /\ Send(c, m)
  <2>1. Number(c) \in Id
    BY <1>4 DEF Number, Id
  <2>2. CASE Send(c, Ping)
    <3>1. Ping \in Message /\ Ping.cmd # "CONNECT"
      BY DEF Ping, Message
    <3> QED BY <2>2, <3>1
  <2>3. CASE \E exps \in Expression : Send(c, Subscribe(exps, Number(c)))
    <3>1. PICK exps \in Expression : Send(c, Subscribe(exps, Number(c)))
      BY <2>3
    <3>2. Subscribe(exps, Number(c)) \in Message /\ Subscribe(exps, Number(c)).cmd # "CONNECT"
      BY <2>1 DEF Subscribe, Message
    <3> QED BY <3>1, <3>2
  <2>4. CASE \E topic \in Topic : Send(c, Publish(topic, Number(c)))
    <3>1. PICK topic \in Topic : Send(c, Publish(topic, Number(c)))
      BY <2>4
    <3>2. Publish(topic, Number(c)) \in Message /\ Publish(topic, Number(c)).cmd # "CONNECT"
      BY <2>1 DEF Publish, Message
    <3> QED BY <3>1, <3>2
  <2> QED BY <2>2, <2>3, <2>4 DEF SendMore
<1>15. sent' = [sent EXCEPT ![c] = Append(sent[c], m)] /\ wire' = [wire EXCEPT ![c] = wire[c] + Whole]
  BY <1>5 DEF Send
<1>6. \A d \in Client : d # c => sent'[d] = sent[d] /\ wire'[d] = wire[d]
  BY <1>4, <1>15
<1>7. /\ Len(sent'[c]) = Len(sent[c]) + 1 /\ sent'[c][Len(sent[c]) + 1] = m /\ wire'[c] = wire[c] + Whole
      /\ Len(sent[c]) \in Nat /\ sent'[c] \in Seq(Message) /\ Agree(sent'[c], sent[c], Len(sent[c]))
  <2>1. sent[c] \in Seq(Message) /\ sent'[c] = Append(sent[c], m) /\ wire'[c] = wire[c] + Whole
    BY <1>4, <1>15
  <2> QED BY <2>1 DEF Agree
<1>8. sent' \in [Client -> Seq(Message)]
  BY <1>4, <1>7, <1>15
<1>9. BrokerTypeInv'
  <2>1. wire' \in [Client -> Nat]
    BY <1>4, <1>15 DEF Whole
  <2> QED BY <1>1, <1>2, <1>3, <1>8, <2>1 DEF BrokerTypeInv, Quiet
<1>10. FramingInv'
  <2> SUFFICES ASSUME NEW d \in Client
               PROVE  /\ Done(d) <= Len(sent'[d]) /\ wire'[d] + recv[d] = Whole * (Len(sent'[d]) - Done(d))
                      /\ HeadTorn(d) => recv[d] = Whole - 1
    BY <1>1, <1>2, QuietValues DEF FramingInv
  <2>1. /\ Done(d) \in Nat /\ Done(d) <= Len(sent[d]) /\ wire[d] + recv[d] = Whole * (Len(sent[d]) - Done(d))
        /\ wire[d] \in Nat /\ recv[d] \in Nat /\ (HeadTorn(d) => recv[d] = Whole - 1)
    BY <1>3, <1>4, CountType DEF FramingInv
  <2>2. CASE d = c
    <3>1. Len(sent[c]) \in Nat /\ Len(sent'[c]) = Len(sent[c]) + 1 /\ wire'[c] = wire[c] + Whole
      BY <1>7
    <3>2. Done(d) <= Len(sent[d]) + 1 /\ (wire[d] + Whole) + recv[d] = Whole * ((Len(sent[d]) + 1) - Done(d))
      <4>1. Len(sent[d]) \in Nat
        BY <2>2, <3>1
      <4> DEFINE g == Done(d)  l == Len(sent[d])  w == wire[d]  r == recv[d]
      <4>2. w \in Nat /\ r \in Nat /\ l \in Nat /\ g \in Nat /\ g <= l /\ w + r = Whole * (l - g)
        BY <2>1, <4>1
      <4> HIDE DEF g, l, w, r
      <4>3. g <= l + 1 /\ (w + Whole) + r = Whole * ((l + 1) - g)
        BY <4>2, OneMore
      <4> QED BY <4>3 DEF g, l, w, r
    <3> QED BY <2>1, <2>2, <3>1, <3>2, Zenon
  <2>3. CASE d # c
    BY <1>6, <2>1, <2>3
  <2> QED BY <2>2, <2>3
<1>11. ClientInv'
  <2> SUFFICES ASSUME NEW d \in Client
               PROVE  /\ sent'[d] = <<>> <=> conn[d] = "new"
                      /\ \A i \in DOMAIN sent'[d] : sent'[d][i].cmd = "CONNECT" <=> i = 1
                      /\ Len(sent'[d]) > 1 => Accepted(d)
                      /\ Accepted(d) => userdata[d] # 0
                      /\ userdata[d] # 0 => Own(d) # {}
    BY <1>1, <1>2, QuietValues DEF ClientInv, Quiet
  <2>1. CASE d = c
    <3>1. sent[c] # <<>> /\ \A i \in DOMAIN sent[c] : sent[c][i].cmd = "CONNECT" <=> i = 1
      BY <1>1, <1>3 DEF ClientInv
    <3>2. Len(sent[c]) >= 1 /\ DOMAIN sent[c] = 1..Len(sent[c]) /\ DOMAIN sent'[c] = 1..(Len(sent[c]) + 1)
      BY <1>4, <1>7, <3>1
    <3>3. sent'[c] # <<>>
      BY <1>7
    <3>4. \A i \in DOMAIN sent'[c] : sent'[c][i].cmd = "CONNECT" <=> i = 1
      <4> SUFFICES ASSUME NEW i \in 1..(Len(sent[c]) + 1) PROVE sent'[c][i].cmd = "CONNECT" <=> i = 1
        BY <3>2
      <4>1. CASE i = Len(sent[c]) + 1
        BY <1>5, <1>7, <3>2, <4>1
      <4>2. CASE i # Len(sent[c]) + 1
        <5>1. i \in 1..Len(sent[c])
          BY <1>7, <4>2
        <5> QED BY <1>7, <3>1, <3>2, <5>1 DEF Agree
      <4> QED BY <4>1, <4>2
    <3> QED BY <1>1, <1>3, <2>1, <3>3, <3>4 DEF ClientInv
  <2>2. CASE d # c
    BY <1>3, <1>6, <2>2 DEF ClientInv
  <2> QED BY <2>1, <2>2
<1>12. HandledInOrder'
  <2>1. ASSUME NEW d \in Client PROVE Len(sent[d]) <= Len(sent'[d]) /\ Agree(sent'[d], sent[d], Len(sent[d]))
    <3>1. CASE d = c
      BY <1>7, <3>1
    <3>2. CASE d # c
      BY <1>4, <1>6, <3>2 DEF Agree
    <3> QED BY <3>1, <3>2
  <2> QED BY <1>2, <1>3, <1>8, <2>1, QuietHandledInOrder
<1>13. SessionInv'
  BY <1>1, <1>2, <1>3 DEF SessionInv, Quiet, ConnectsTwice, MessagesOf
<1>14. SubscribedInv' /\ DeliveryInv'
  BY <1>1, <1>2, <1>3, QuietDelivery
<1> QED BY <1>9, <1>10, <1>11, <1>12, <1>13, <1>14 DEF BrokerInv

\* A recv that completes no message only moves parts to the buffer.
LEMMA WaitKeeps ==
  ASSUME BrokerInv, NEW c \in Client, Waits(c), NEW w \in Nat, NEW r \in Nat, Holds(c, w, r),
         w + r = wire[c] + recv[c]
  PROVE  BrokerInv'
<1>1. Quiet /\ UNCHANGED <<conn, sent, sessions>> /\ ~HeadTorn(c)
  BY DEF Waits, Quiet
<1>2. BrokerTypeInv /\ FramingInv /\ ClientInv /\ HandledInOrder /\ SessionInv /\ SubscribedInv /\ DeliveryInv
  BY DEF BrokerInv
<1>3. /\ sent \in [Client -> Seq(Message)] /\ wire \in [Client -> Nat] /\ recv \in [Client -> Nat]
      /\ wire' = [wire EXCEPT ![c] = w] /\ recv' = [recv EXCEPT ![c] = r]
  BY <1>2 DEF BrokerTypeInv, Holds
<1>4. BrokerTypeInv'
  <2>1. wire' \in [Client -> Nat] /\ recv' \in [Client -> Nat]
    BY <1>3
  <2> QED BY <1>1, <1>2, <2>1 DEF BrokerTypeInv, Quiet
<1>5. FramingInv'
  <2> SUFFICES ASSUME NEW d \in Client
               PROVE  /\ Done(d) <= Len(sent[d]) /\ wire'[d] + recv'[d] = Whole * (Len(sent[d]) - Done(d))
                      /\ HeadTorn(d) => recv'[d] = Whole - 1
    BY <1>1, QuietValues DEF FramingInv
  <2>1. CASE d = c
    <3>1. wire'[d] = w /\ recv'[d] = r
      BY <1>3, <2>1
    <3> QED BY <1>1, <1>2, <2>1, <3>1 DEF FramingInv
  <2>2. CASE d # c
    <3>1. wire'[d] = wire[d] /\ recv'[d] = recv[d]
      BY <1>3, <2>2
    <3> QED BY <1>2, <3>1 DEF FramingInv
  <2> QED BY <2>1, <2>2
<1>6. ClientInv'
  BY <1>1, <1>2, QuietValues DEF ClientInv, Quiet
<1>7. HandledInOrder'
  BY <1>1, <1>2, SameHandledInOrder DEF Quiet
<1>8. SessionInv'
  BY <1>1, <1>2 DEF SessionInv, Quiet, ConnectsTwice, MessagesOf
<1>9. SubscribedInv' /\ DeliveryInv'
  BY <1>1, <1>2, QuietDelivery
<1> QED BY <1>4, <1>5, <1>6, <1>7, <1>8, <1>9 DEF BrokerInv

LEMMA CloseKeeps ==
  ASSUME BrokerInv, NEW c \in Client, HandleClose(c)
  PROVE  BrokerInv'
<1>1. /\ Quiet /\ UNCHANGED <<sent, wire, recv>>
      /\ conn[c] = "open" /\ conn' = [conn EXCEPT ![c] = "freed"]
      /\ sessions' = IF userdata[c] # 0 THEN CloseSession(userdata[c]) ELSE sessions
  BY DEF HandleClose, Quiet
<1>2. BrokerTypeInv /\ FramingInv /\ ClientInv /\ HandledInOrder /\ SessionInv /\ SubscribedInv /\ DeliveryInv
  BY DEF BrokerInv
<1>3. conn \in [Client -> {"new", "open", "freed"}] /\ sessions \subseteq DOMAIN session /\ 0 \notin DOMAIN session
  BY <1>2 DEF BrokerTypeInv
<1>4. conn'[c] = "freed" /\ \A d \in Client : d # c => conn'[d] = conn[d]
  BY <1>1, <1>3
<1>5. sessions' = sessions \ {userdata[c]}
  <2>1. 0 \notin sessions
    BY <1>3
  <2> QED BY <1>1, <2>1 DEF CloseSession
<1>6. BrokerTypeInv'
  <2>1. conn' \in [Client -> {"new", "open", "freed"}]
    BY <1>1, <1>3
  <2>2. sessions' \subseteq DOMAIN session
    BY <1>3, <1>5
  <2> QED BY <1>1, <1>2, <2>1, <2>2 DEF BrokerTypeInv, Quiet
<1>7. FramingInv'
  BY <1>1, <1>2, QuietValues DEF FramingInv
<1>8. ClientInv'
  <2> SUFFICES ASSUME NEW d \in Client PROVE conn'[d] = "new" <=> conn[d] = "new"
    BY <1>1, <1>2, QuietValues DEF ClientInv, Quiet
  <2> QED BY <1>1, <1>4
<1>9. HandledInOrder'
  BY <1>1, <1>2, SameHandledInOrder DEF Quiet
<1>10. SessionInv'
  <2>1. ASSUME NEW s \in sessions'
        PROVE  \/ conn'[session[s].nc] = "open" /\ userdata[session[s].nc] = s
               \/ ConnectsTwice(session[s].nc) /\ session[s].subs = <<>>
    <3>1. CASE conn[session[s].nc] = "open" /\ userdata[session[s].nc] = s
      <4>1. session[s].nc # c
        BY <1>5, <3>1
      <4> QED BY <1>1, <1>3, <3>1, <4>1
    <3> QED BY <1>2, <1>5, <3>1 DEF SessionInv
  <2>2. ASSUME NEW d \in Client, userdata[d] # 0
        PROVE  session[userdata[d]].nc = d /\ (conn'[d] = "open" => userdata[d] \in sessions')
    <3>1. session[userdata[d]].nc = d
      BY <1>2, <2>2 DEF SessionInv
    <3>2. ASSUME conn'[d] = "open" PROVE userdata[d] \in sessions'
      <4>1. d # c
        BY <1>4, <3>2
      <4>2. userdata[d] \in sessions
        BY <1>2, <1>4, <2>2, <3>2, <4>1 DEF SessionInv
      <4>3. userdata[d] # userdata[c]
        BY <1>1, <1>2, <2>2, <3>1, <4>1 DEF SessionInv
      <4> QED BY <1>5, <4>2, <4>3
    <3> QED BY <3>1, <3>2
  <2> QED BY <1>1, <2>1, <2>2 DEF SessionInv, Quiet, ConnectsTwice, MessagesOf
<1>11. SubscribedInv' /\ DeliveryInv'
  <2>1. \A d \in Client : conn'[d] # "freed" => conn[d] # "freed"
    BY <1>1, <1>4
  <2> QED BY <1>1, <1>2, <2>1, QuietDelivery
<1> QED BY <1>6, <1>7, <1>8, <1>9, <1>10, <1>11 DEF BrokerInv

(* A message is handled. *)

LEMMA HandlesFraming ==
  ASSUME BrokerInv, NEW c \in Client, NEW h \in Handling, Handles(c, h),
         NEW w \in Nat, NEW r \in Nat, Holds(c, w, r),
         IF h.whole THEN w + r = (wire[c] + recv[c]) - Whole ELSE w + r = wire[c] + recv[c] /\ r = Whole - 1
  PROVE  FramingInv' /\ HandledInOrder'
<1>1. BrokerTypeInv /\ FramingInv /\ HandledInOrder
  BY DEF BrokerInv
<1>2. /\ handled' = Append(handled, h) /\ UNCHANGED sent /\ h.from = c /\ h.whole \in BOOLEAN
      /\ Done(c) + 1 \in DOMAIN sent[c] /\ h.m = sent[c][Done(c) + 1]
      /\ ~h.whole => ~HeadTorn(c)
  BY DEF Handles, Handling
<1>3. PICK k : k = Len(handled) + 1
  OBVIOUS
<1>4. /\ k \in Nat /\ k - 1 = Len(handled) /\ Len(handled') = k
      /\ DOMAIN handled' = DOMAIN handled \cup {k} /\ k \notin DOMAIN handled
      /\ handled'[k] = h
      /\ \A n \in DOMAIN handled : handled'[n] = handled[n]
      /\ \A d \in Client, n \in 0..Len(handled) : MessagesOf(d, n)' = MessagesOf(d, n) /\ WholeOf(d, n)' = WholeOf(d, n)
      /\ \A d \in Client : Own(d)' = Own(d) \cup (IF d = c THEN {k} ELSE {})
      /\ \A d \in Client : Done(d)' = IF d = c /\ h.whole THEN Done(d) + 1 ELSE Done(d)
      /\ \A d \in Client : Cardinality(WholeOf(d, k)') = Done(d)'
  BY <1>1, <1>2, <1>3, HandledNext
<1>5. /\ wire \in [Client -> Nat] /\ recv \in [Client -> Nat] /\ sent \in [Client -> Seq(Message)]
      /\ wire' = [wire EXCEPT ![c] = w] /\ recv' = [recv EXCEPT ![c] = r]
      /\ Len(handled) \in Nat /\ DOMAIN handled = 1..Len(handled)
  BY <1>1 DEF BrokerTypeInv, Holds
<1>6. ASSUME NEW d \in Client
      PROVE  \A i \in Own(d) : /\ i \in DOMAIN handled /\ handled'[i] = handled[i]
                               /\ WholeOf(d, i)' = WholeOf(d, i) /\ Cardinality(WholeOf(d, i)) <= Done(d)
                               /\ Cardinality(WholeOf(d, i)) \in Nat
  <2> SUFFICES ASSUME NEW i \in Own(d)
               PROVE  /\ i \in DOMAIN handled /\ handled'[i] = handled[i]
                      /\ WholeOf(d, i)' = WholeOf(d, i) /\ Cardinality(WholeOf(d, i)) <= Done(d)
                      /\ Cardinality(WholeOf(d, i)) \in Nat
    OBVIOUS
  <2>1. i \in DOMAIN handled /\ i \in 0..Len(handled)
    BY <1>5 DEF Own, MessagesOf
  <2> QED BY <1>1, <1>4, <2>1, CountType
<1>7. FramingInv'
  <2> SUFFICES ASSUME NEW d \in Client
               PROVE  /\ Done(d)' <= Len(sent[d]) /\ wire'[d] + recv'[d] = Whole * (Len(sent[d]) - Done(d)')
                      /\ HeadTorn(d)' => recv'[d] = Whole - 1
    BY <1>2 DEF FramingInv
  <2>1. /\ Done(d) \in Nat /\ Done(d) <= Len(sent[d]) /\ wire[d] + recv[d] = Whole * (Len(sent[d]) - Done(d))
        /\ Len(sent[d]) \in Nat /\ (HeadTorn(d) => recv[d] = Whole - 1)
    BY <1>1, <1>5, CountType DEF FramingInv
  <2>2. CASE d = c /\ h.whole
    <3>1. wire'[d] = w /\ recv'[d] = r /\ Done(d)' = Done(d) + 1
      BY <1>4, <1>5, <2>2
    <3>2. Done(d) + 1 <= Len(sent[d]) /\ w + r = (wire[d] + recv[d]) - Whole
      BY <1>2, <1>5, <2>1, <2>2
    <3>3. w + r = Whole * (Len(sent[d]) - (Done(d) + 1))
      BY <2>1, <3>2, OneLess
    <3>4. ~HeadTorn(d)'
      <4> SUFFICES ASSUME NEW i \in Own(d)', ~handled'[i].whole, Cardinality(WholeOf(d, i)') = Done(d)' PROVE FALSE
        BY DEF HeadTorn
      <4>1. i \in Own(d)
        BY <1>4, <2>2
      <4>2. Cardinality(WholeOf(d, i)) <= Done(d) /\ Cardinality(WholeOf(d, i)) = Done(d) + 1
        BY <1>6, <3>1, <4>1
      <4> QED BY <1>6, <2>1, <4>1, <4>2
    <3> QED BY <3>1, <3>2, <3>3, <3>4
  <2>3. CASE d = c /\ ~h.whole
    <3>1. wire'[d] = w /\ recv'[d] = r /\ Done(d)' = Done(d) /\ r = Whole - 1 /\ w + r = wire[d] + recv[d]
      BY <1>4, <1>5, <2>3
    <3> QED BY <2>1, <3>1
  <2>4. CASE d # c
    <3>1. wire'[d] = wire[d] /\ recv'[d] = recv[d] /\ Done(d)' = Done(d) /\ Own(d)' = Own(d)
      BY <1>4, <1>5, <2>4
    <3>2. HeadTorn(d)' => HeadTorn(d)
      <4> SUFFICES ASSUME NEW i \in Own(d)', ~handled'[i].whole, Cardinality(WholeOf(d, i)') = Done(d)'
                   PROVE  HeadTorn(d)
        BY DEF HeadTorn
      <4>1. i \in Own(d)
        BY <3>1
      <4>2. ~handled[i].whole /\ Cardinality(WholeOf(d, i)) = Done(d)
        BY <1>6, <3>1, <4>1
      <4> QED BY <4>1, <4>2 DEF HeadTorn
    <3> QED BY <2>1, <3>1, <3>2
  <2> QED BY <1>2, <2>2, <2>3, <2>4
<1>8. HandledInOrder'
  <2> SUFFICES ASSUME NEW n \in DOMAIN handled', NEW d, d = handled'[n].from
               PROVE  /\ Cardinality(WholeOf(d, n - 1)') + 1 \in DOMAIN sent[d]
                      /\ handled'[n].m = sent[d][Cardinality(WholeOf(d, n - 1)') + 1]
                      /\ ~handled'[n].whole =>
                           \A i \in MessagesOf(d, n - 1)' :
                             ~handled'[i].whole => Cardinality(WholeOf(d, i)') # Cardinality(WholeOf(d, n - 1)')
    BY <1>2 DEF HandledInOrder
  <2>1. CASE n \in DOMAIN handled
    <3>2. d \in Client /\ d = handled[n].from /\ handled'[n] = handled[n] /\ n - 1 \in 0..Len(handled)
      BY <1>1, <1>4, <1>5, <2>1, HandledType
    <3>3. MessagesOf(d, n - 1)' = MessagesOf(d, n - 1) /\ WholeOf(d, n - 1)' = WholeOf(d, n - 1)
      BY <1>4, <3>2
    <3>4. \A i \in MessagesOf(d, n - 1) : handled'[i] = handled[i] /\ WholeOf(d, i)' = WholeOf(d, i)
      <4> SUFFICES ASSUME NEW i \in MessagesOf(d, n - 1) PROVE handled'[i] = handled[i] /\ WholeOf(d, i)' = WholeOf(d, i)
        OBVIOUS
      <4>1. i \in DOMAIN handled /\ i \in 0..Len(handled)
        BY <1>5, <2>1 DEF MessagesOf
      <4> QED BY <1>4, <3>2, <4>1
    <3>5. /\ Cardinality(WholeOf(d, n - 1)) + 1 \in DOMAIN sent[d]
          /\ handled[n].m = sent[d][Cardinality(WholeOf(d, n - 1)) + 1]
          /\ ~handled[n].whole =>
               \A i \in MessagesOf(d, n - 1) :
                 ~handled[i].whole => Cardinality(WholeOf(d, i)) # Cardinality(WholeOf(d, n - 1))
      BY <1>1, <2>1, <3>2 DEF HandledInOrder
    <3> QED BY <3>2, <3>3, <3>4, <3>5
  <2>2. CASE n = k
    <3>1. WholeOf(c, k - 1)' = WholeOf(c, Len(handled)) /\ MessagesOf(c, k - 1)' = Own(c)
      <4>1. Len(handled) \in 0..Len(handled)
        BY <1>5
      <4> QED BY <1>4, <4>1 DEF Own
    <3>2. Cardinality(WholeOf(c, k - 1)') = Done(c)
      BY <3>1 DEF Done
    <3>3. handled'[n] = h /\ d = c
      BY <1>2, <1>4, <2>2
    <3>4. ASSUME ~h.whole, NEW i \in Own(c), ~handled'[i].whole PROVE Cardinality(WholeOf(c, i)') # Done(c)
      BY <1>2, <1>6, <3>4 DEF HeadTorn
    <3> QED BY <1>2, <2>2, <3>1, <3>2, <3>3, <3>4
  <2> QED BY <1>4, <2>1, <2>2
<1> QED BY <1>7, <1>8

\* What a client is due because of the k-th message handled, h
News(d, h, k) ==
  IF h.m.cmd = "CONNECT" /\ h.from = d THEN <<Connack(IF h.ok THEN 0 ELSE 3)>>
  ELSE IF h.m.cmd = "SUBSCRIBE" /\ h.from = d THEN <<Suback(h.m)>>
  ELSE IF h.m.cmd = "PUBLISH" /\ \E e \in Subscriptions(d, k) : Matches(e, h.m.topic)
  THEN <<Read(h.m, h.whole)>> ELSE <<>>

\* How what a client subscribed to and what it should have got grow by that message
Grows(d, h, k) ==
  /\ Subscriptions(d, Len(handled) + 1)'
       = Subscriptions(d, k) \cup (IF d = h.from /\ h.m.cmd = "SUBSCRIBE" THEN ToSet(h.m.exps) ELSE {})
  /\ FlattenSeq(Dues(d))' = FlattenSeq(Dues(d)) \o News(d, h, k)
  /\ FlattenSeq(Dues(d)) \in Seq(Answer) /\ News(d, h, k) \in Seq(Answer)

LEMMA AnswerType ==
  ASSUME NEW m \in Message, NEW whole \in BOOLEAN, NEW ok \in BOOLEAN
  PROVE  /\ m.cmd = "SUBSCRIBE" => Suback(m) \in Answer /\ m.exps \in Seq(Filter)
         /\ Read(m, whole) \in Answer /\ Connack(IF ok THEN 0 ELSE 3) \in Answer
<1>1. ASSUME m.cmd = "SUBSCRIBE" PROVE Suback(m) \in Answer /\ m.exps \in Seq(Filter)
  <2>1. m \in [cmd : {"SUBSCRIBE"}, exps : Expression, id : Id]
    BY <1>1 DEF Message, Connect, Ping
  <2>2. m.exps \in Seq(Filter)
    BY <2>1, ExpressionAssumption DEF Filter
  <2>3. Suback(m) \in [cmd : {"SUBACK"}, id : Id, qoss : Nat]
    BY <2>1, <2>2 DEF Suback
  <2> QED BY <2>2, <2>3 DEF Answer
<1>2. Read(m, whole) \in Answer
  <2>1. CASE m.cmd = "PUBLISH"
    <3>1. m \in [cmd : {"PUBLISH"}, topic : Topic, payload : Id, last : BOOLEAN]
      BY <2>1 DEF Message, Connect, Ping
    <3>2. Read(m, whole) \in [cmd : {"PUBLISH"}, topic : Topic, payload : Id, last : BOOLEAN]
      BY <2>1, <3>1 DEF Read
    <3> QED BY <3>2 DEF Answer, Message
  <2> QED BY <2>1 DEF Read, Answer
<1>3. Connack(IF ok THEN 0 ELSE 3) \in Answer
  BY DEF Connack, Answer
<1> QED BY <1>1, <1>2, <1>3

LEMMA DueType ==
  ASSUME BrokerTypeInv, NEW d \in Client
  PROVE  Dues(d) \in Seq(Seq(Answer))
<1>1. ASSUME NEW n \in DOMAIN handled PROVE Due(d, n) \in Seq(Answer)
  <2>1. handled[n].m \in Message /\ handled[n].whole \in BOOLEAN /\ handled[n].ok \in BOOLEAN
    BY HandledType
  <2>2. /\ handled[n].m.cmd = "SUBSCRIBE" => Suback(handled[n].m) \in Answer
        /\ Read(handled[n].m, handled[n].whole) \in Answer /\ Connack(IF handled[n].ok THEN 0 ELSE 3) \in Answer
    BY <2>1, AnswerType
  <2> QED BY <2>2 DEF Due
<1>2. Len(handled) \in Nat /\ DOMAIN handled = 1..Len(handled)
  BY DEF BrokerTypeInv
<1> QED BY <1>1, <1>2 DEF Dues

LEMMA DueNext ==
  ASSUME BrokerTypeInv, NEW h \in Handling, handled' = Append(handled, h),
         NEW k, k = Len(handled) + 1, NEW d \in Client
  PROVE  Grows(d, h, k)
<1>1. /\ k \in Nat /\ Len(handled') = k /\ DOMAIN handled' = DOMAIN handled \cup {k} /\ k \notin DOMAIN handled
      /\ handled'[k] = h
      /\ \A n \in DOMAIN handled : handled'[n] = handled[n]
      /\ \A n \in 0..Len(handled) : MessagesOf(d, n)' = MessagesOf(d, n)
      /\ Own(d)' = Own(d) \cup (IF d = h.from THEN {k} ELSE {})
  BY HandledNext
<1>2. Len(handled) \in Nat /\ DOMAIN handled = 1..Len(handled) /\ k - 1 = Len(handled) /\ (k + 1) - 1 = k
  BY DEF BrokerTypeInv
<1> DEFINE Subs(set) == {j \in set : handled[j].m.cmd = "SUBSCRIBE"}
           All(set) == UNION {ToSet(handled[i].m.exps) : i \in Subs(set)}
<1>3. ASSUME NEW n \in 0..Len(handled) PROVE All(MessagesOf(d, n))' = All(MessagesOf(d, n))
  <2>1. MessagesOf(d, n)' = MessagesOf(d, n)
    BY <1>1
  <2>2. \A i \in MessagesOf(d, n) : handled'[i] = handled[i]
    BY <1>1, <1>2 DEF MessagesOf
  <2> QED BY <2>1, <2>2
<1>4. ASSUME NEW n \in 1..k PROVE Subscriptions(d, n)' = Subscriptions(d, n)
  <2>1. n - 1 \in 0..Len(handled)
    BY <1>1, <1>2
  <2>2. All(MessagesOf(d, n - 1))' = All(MessagesOf(d, n - 1))
    BY <1>3, <2>1
  <2> QED BY <2>2 DEF Subscriptions
<1>5. ASSUME NEW n \in DOMAIN handled PROVE Due(d, n)' = Due(d, n)
  <2>1. n \in 1..k
    BY <1>1, <1>2
  <2> QED BY <1>1, <1>4, <2>1 DEF Due
<1>6. Due(d, k)' = News(d, h, k)
  <2>1. k \in 1..k
    BY <1>1, <1>2
  <2>2. Subscriptions(d, k)' = Subscriptions(d, k)
    BY <1>4, <2>1
  <2> QED BY <1>1, <2>2 DEF Due, News
<1>7. Dues(d)' = Append(Dues(d), News(d, h, k))
  <2>1. Len(Dues(d)) = Len(handled) /\ DOMAIN Dues(d) = DOMAIN handled
    BY <1>2 DEF Dues
  <2>2. Dues(d)' = [n \in 1..k |-> IF n \in DOMAIN handled THEN Due(d, n) ELSE News(d, h, k)]
    <3>1. 1..k = DOMAIN handled'
      BY <1>1, <1>2
    <3> QED BY <1>1, <1>5, <1>6, <3>1 DEF Dues
  <2> QED BY <1>1, <1>2, <2>1, <2>2 DEF Dues
<1>8. News(d, h, k) \in Seq(Answer)
  <2>1. h.m \in Message /\ h.whole \in BOOLEAN /\ h.ok \in BOOLEAN
    BY DEF Handling
  <2>2. /\ h.m.cmd = "SUBSCRIBE" => Suback(h.m) \in Answer
        /\ Read(h.m, h.whole) \in Answer /\ Connack(IF h.ok THEN 0 ELSE 3) \in Answer
    BY <2>1, AnswerType
  <2> QED BY <2>2 DEF News
<1>9. FlattenSeq(Dues(d)') = FlattenSeq(Dues(d)) \o News(d, h, k) /\ FlattenSeq(Dues(d)) \in Seq(Answer)
  BY <1>7, <1>8, DueType, FlattenAppend
<1>10. Subscriptions(d, Len(handled) + 1)' = All(Own(d))'
  BY <1>1, <1>2 DEF Subscriptions, MessagesOf, Own
<1>11. All(Own(d))' = Subscriptions(d, k) \cup (IF d = h.from /\ h.m.cmd = "SUBSCRIBE" THEN ToSet(h.m.exps) ELSE {})
  <2> DEFINE old == Own(d)
  <2>1. All(Own(d))'
          = UNION {ToSet(handled'[i].m.exps) :
                     i \in {j \in old \cup (IF d = h.from THEN {k} ELSE {}) : handled'[j].m.cmd = "SUBSCRIBE"}}
    BY <1>1
  <2>2. \A i \in old : handled'[i] = handled[i]
    BY <1>1, <1>2 DEF MessagesOf, Own
  <2>3. Subscriptions(d, k) = UNION {ToSet(handled[i].m.exps) : i \in {j \in old : handled[j].m.cmd = "SUBSCRIBE"}}
    BY <1>2 DEF Subscriptions, Own
  <2>4. handled'[k].m = h.m
    BY <1>1
  <2> HIDE DEF old
  <2>5. CASE d = h.from /\ h.m.cmd = "SUBSCRIBE"
    <3>1. {j \in old \cup {k} : handled'[j].m.cmd = "SUBSCRIBE"} = {j \in old : handled[j].m.cmd = "SUBSCRIBE"} \cup {k}
      BY <2>2, <2>4, <2>5
    <3>2. UNION {ToSet(handled'[i].m.exps) : i \in {j \in old : handled[j].m.cmd = "SUBSCRIBE"} \cup {k}}
            = Subscriptions(d, k) \cup ToSet(handled'[k].m.exps)
      BY <2>2, <2>3
    <3> QED BY <2>1, <2>4, <2>5, <3>1, <3>2
  <2>6. CASE ~(d = h.from /\ h.m.cmd = "SUBSCRIBE")
    <3>1. {j \in old \cup (IF d = h.from THEN {k} ELSE {}) : handled'[j].m.cmd = "SUBSCRIBE"}
            = {j \in old : handled[j].m.cmd = "SUBSCRIBE"}
      BY <2>2, <2>4, <2>6
    <3>2. UNION {ToSet(handled'[i].m.exps) : i \in {j \in old : handled[j].m.cmd = "SUBSCRIBE"}} = Subscriptions(d, k)
      BY <2>2, <2>3
    <3> QED BY <2>1, <2>6, <3>1, <3>2
  <2> QED BY <2>5, <2>6
<1> QED BY <1>8, <1>9, <1>10, <1>11 DEF Grows

(* What each kind of message changes *)

LEMMA NoneInEmpty == ToSet(<<>>) = {}
BY DEF ToSet

LEMMA HandlesType ==
  ASSUME BrokerInv, NEW c \in Client, NEW h \in Handling, Handles(c, h), NEW w \in Nat, NEW r \in Nat, Holds(c, w, r),
         out' \in [Client -> Seq(Answer)], session' \in Seq(Session), sessions' \subseteq DOMAIN session',
         userdata' \in [Client -> 0..Len(session')], undefined' \in BOOLEAN
  PROVE  BrokerTypeInv'
<1>1. BrokerTypeInv
  BY DEF BrokerInv
<1>2. wire' \in [Client -> Nat] /\ recv' \in [Client -> Nat]
  BY <1>1 DEF BrokerTypeInv, Holds
<1>3. UNCHANGED <<conn, sent>> /\ handled' = Append(handled, h)
  BY DEF Handles
<1>4. handled' \in Seq(Handling)
  BY <1>1, <1>3 DEF BrokerTypeInv
<1> QED BY <1>1, <1>2, <1>3, <1>4 DEF BrokerTypeInv

\* Whoever is accepted has a session, and whoever has one, something was handled from.
LEMMA HandlesClient ==
  ASSUME BrokerInv, NEW c \in Client, NEW h \in Handling, Handles(c, h),
         \A d \in Client : Accepted(d) => Accepted(d)',
         \A d \in Client : Accepted(d)' => userdata'[d] # 0,
         \A d \in Client : d # c => userdata'[d] = userdata[d]
  PROVE  ClientInv'
<1>1. BrokerTypeInv /\ ClientInv /\ UNCHANGED <<conn, sent>> /\ handled' = Append(handled, h) /\ h.from = c
  BY DEF BrokerInv, Handles
<1>2. PICK k : k = Len(handled) + 1
  OBVIOUS
<1>3. \A d \in Client : Own(d)' = Own(d) \cup (IF d = c THEN {k} ELSE {})
  BY <1>1, <1>2, HandledNext
<1>4. ASSUME NEW d \in Client, userdata'[d] # 0 PROVE Own(d)' # {}
  <2>1. CASE d = c
    BY <1>3, <2>1
  <2>2. CASE d # c
    BY <1>1, <1>3, <1>4, <2>2 DEF ClientInv
  <2> QED BY <2>1, <2>2
<1> QED BY <1>1, <1>4 DEF ClientInv

\* What else a CONNECT handled once more, and a second SUBSCRIBE, remain.
LEMMA HandlesHistory ==
  ASSUME BrokerInv, NEW c \in Client, NEW h \in Handling, Handles(c, h)
  PROVE  /\ \A d \in Client : /\ ConnectsTwice(d) => ConnectsTwice(d)'
                              /\ SubscribesTwice(d) => SubscribesTwice(d)'
         /\ \A d \in Client : (\E i \in Own(d) : handled[i].m.cmd = "SUBSCRIBE")
                                 => \E i \in Own(d)' : handled'[i].m.cmd = "SUBSCRIBE"
<1>1. BrokerTypeInv /\ handled' = Append(handled, h)
  BY DEF BrokerInv, Handles
<1>2. PICK k : k = Len(handled) + 1
  OBVIOUS
<1>3. /\ \A n \in DOMAIN handled : handled'[n] = handled[n]
      /\ \A d \in Client : Own(d) \subseteq Own(d)'
  BY <1>1, <1>2, HandledNext
<1>4. \A d \in Client : Own(d) \subseteq DOMAIN handled
  BY <1>1, CountType DEF Own, MessagesOf
<1>5. \A d \in Client : \A i \in Own(d) : i \in Own(d)' /\ handled'[i] = handled[i]
  BY <1>3, <1>4
<1>6. \A d \in Client : ConnectsTwice(d) => ConnectsTwice(d)'
  BY <1>5 DEF ConnectsTwice, Own
<1>7. \A d \in Client : SubscribesTwice(d) => SubscribesTwice(d)'
  BY <1>5 DEF SubscribesTwice, Own
<1>8. \A d \in Client : (\E i \in Own(d) : handled[i].m.cmd = "SUBSCRIBE")
                           => \E i \in Own(d)' : handled'[i].m.cmd = "SUBSCRIBE"
  BY <1>5
<1> QED BY <1>6, <1>7, <1>8

\* A client gets what the message handled brings him, and his newest session what he subscribes to with it.
Delivers(c, h, k) ==
  \A d \in Client : conn[d] # "freed" =>
    /\ out'[d] = out[d] \o News(d, h, k)
    /\ userdata'[d] = 0 => userdata[d] = 0 /\ (d = c => h.m.cmd # "SUBSCRIBE")
    /\ userdata'[d] # 0 =>
         ToSet(session'[userdata'[d]].subs)
           = Subscriptions(d, k) \cup (IF d = c /\ h.m.cmd = "SUBSCRIBE" THEN ToSet(h.m.exps) ELSE {})

LEMMA HandlesDelivery ==
  ASSUME BrokerInv, NEW c \in Client, NEW h \in Handling, Handles(c, h), NEW k, k = Len(handled) + 1, Delivers(c, h, k)
  PROVE  DeliveryInv'
<1>1. BrokerTypeInv /\ DeliveryInv /\ UNCHANGED conn /\ h.from = c /\ handled' = Append(handled, h)
  BY DEF BrokerInv, Handles
<1> SUFFICES ASSUME NEW d \in Client, conn[d] # "freed"
             PROVE  /\ userdata'[d] = 0 => Subscriptions(d, Len(handled) + 1)' = {}
                    /\ userdata'[d] # 0 => ToSet(session'[userdata'[d]].subs) = Subscriptions(d, Len(handled) + 1)'
                    /\ out'[d] = FlattenSeq(Dues(d))'
  BY <1>1 DEF DeliveryInv
<1>2. /\ Subscriptions(d, Len(handled) + 1)'
           = Subscriptions(d, k) \cup (IF d = c /\ h.m.cmd = "SUBSCRIBE" THEN ToSet(h.m.exps) ELSE {})
      /\ FlattenSeq(Dues(d))' = FlattenSeq(Dues(d)) \o News(d, h, k)
  <2>1. Grows(d, h, k)
    BY <1>1, DueNext
  <2> QED BY <1>1, <2>1 DEF Grows
<1>3. /\ userdata[d] = 0 => Subscriptions(d, k) = {}
      /\ out[d] = FlattenSeq(Dues(d))
  BY <1>1 DEF DeliveryInv
<1> QED BY <1>2, <1>3 DEF Delivers

\* What was subscribed to before
LEMMA SubscriptionsBefore ==
  ASSUME BrokerInv, NEW d \in Client, conn[d] # "freed", NEW k, k = Len(handled) + 1
  PROVE  /\ out[d] \in Seq(Answer)
         /\ userdata[d] # 0 => userdata[d] \in DOMAIN session /\ ToSet(session[userdata[d]].subs) = Subscriptions(d, k)
         /\ userdata[d] = 0 => Subscriptions(d, k) = {}
<1>1. BrokerTypeInv /\ DeliveryInv
  BY DEF BrokerInv
<1>2. out[d] \in Seq(Answer) /\ userdata[d] \in 0..Len(session) /\ Len(session) \in Nat /\ DOMAIN session = 1..Len(session)
  BY <1>1 DEF BrokerTypeInv
<1> QED BY <1>1, <1>2 DEF DeliveryInv

LEMMA SessionsStay ==
  ASSUME BrokerInv, NEW c \in Client, NEW h \in Handling, Handles(c, h),
         UNCHANGED <<session, sessions, userdata, undefined>>
  PROVE  SessionInv' /\ SubscribedInv'
<1>1. BrokerTypeInv /\ SessionInv /\ SubscribedInv /\ UNCHANGED conn
  BY DEF BrokerInv, Handles
<1>2. \A s \in DOMAIN session : session[s].nc \in Client
  BY <1>1, SessionType
<1>3. SessionInv'
  <2>1. ASSUME NEW s \in sessions
        PROVE  \/ conn[session[s].nc] = "open" /\ userdata[session[s].nc] = s
               \/ ConnectsTwice(session[s].nc)' /\ session[s].subs = <<>>
    <3>1. session[s].nc \in Client
      BY <1>1, <1>2 DEF BrokerTypeInv
    <3>2. PICK d \in Client : d = session[s].nc
      BY <3>1
    <3>3. \/ conn[d] = "open" /\ userdata[d] = s
          \/ ConnectsTwice(d) /\ session[s].subs = <<>>
      BY <1>1, <3>2 DEF SessionInv
    <3>4. ConnectsTwice(d) => ConnectsTwice(d)'
      BY HandlesHistory
    <3>5. ConnectsTwice(d)' => ConnectsTwice(session[s].nc)'
      BY <3>2 DEF ConnectsTwice, MessagesOf
    <3> QED BY <3>2, <3>3, <3>4, <3>5
  <2> QED BY <1>1, <2>1 DEF SessionInv, ConnectsTwice, MessagesOf
<1>4. SubscribedInv'
  <2>1. ASSUME NEW s \in DOMAIN session, session[s].subs # <<>>
        PROVE  \E d \in Client : d = session[s].nc /\ \E i \in Own(d)' : handled'[i].m.cmd = "SUBSCRIBE"
    BY <1>1, <1>2, <2>1, HandlesHistory DEF SubscribedInv
  <2>2. undefined => \E d \in Client : SubscribesTwice(d)'
    BY <1>1, HandlesHistory DEF SubscribedInv
  <2> QED BY <2>1, <2>2 DEF SubscribedInv, Own, MessagesOf
<1> QED BY <1>3, <1>4

LEMMA FirstStays ==
  ASSUME NEW S, NEW s \in Seq(S), NEW x \in Seq(S)
  PROVE  /\ s # <<>> => s \o x # <<>> /\ (s \o x)[1] = s[1]
         /\ s = <<>> => s \o x = x
<1>1. Len(s) \in Nat /\ Len(x) \in Nat /\ s \o x \in Seq(S) /\ Len(s \o x) = Len(s) + Len(x)
  OBVIOUS
<1>2. ASSUME s # <<>> PROVE s \o x # <<>> /\ (s \o x)[1] = s[1]
  <2>1. Len(s) >= 1 /\ Len(s \o x) # 0
    BY <1>1, <1>2
  <2> QED BY <1>1, <2>1
<1> QED BY <1>1, <1>2

\* An answer is the CONNACK that accepts, or leaves it open whether a client was accepted.
LEMMA AcceptedOnly ==
  ASSUME BrokerTypeInv, NEW d \in Client, NEW x \in Seq(Answer), out'[d] = out[d] \o x
  PROVE  /\ Accepted(d) => Accepted(d)'
         /\ (x = <<>> \/ x[1] # Connack(0)) => (Accepted(d)' => Accepted(d))
<1>1. out[d] \in Seq(Answer)
  BY DEF BrokerTypeInv
<1>2. /\ out[d] # <<>> => out'[d] # <<>> /\ out'[d][1] = out[d][1]
      /\ out[d] = <<>> => out'[d] = x
  BY <1>1, FirstStays
<1> QED BY <1>2 DEF Accepted

LEMMA PingKeeps ==
  ASSUME BrokerInv, NEW c \in Client, NEW h \in Handling, Handles(c, h), Pings(h)
  PROVE  ClientInv' /\ SessionInv' /\ SubscribedInv' /\ DeliveryInv' /\ UNCHANGED <<out, session, sessions, userdata, undefined>>
<1>1. BrokerTypeInv /\ ClientInv /\ UNCHANGED <<out, session, sessions, userdata, undefined>> /\ h.m = Ping
  BY DEF BrokerInv, Pings
<1>2. SessionInv' /\ SubscribedInv'
  BY <1>1, SessionsStay
<1>3. ClientInv'
  <2>1. \A d \in Client : Accepted(d)' = Accepted(d)
    BY <1>1 DEF Accepted
  <2>2. \A d \in Client : Accepted(d)' => userdata'[d] # 0
    BY <1>1, <2>1 DEF ClientInv
  <2> QED BY <1>1, <2>1, <2>2, HandlesClient
<1>4. DeliveryInv'
  <2>1. PICK k : k = Len(handled) + 1
    OBVIOUS
  <2>2. h.m.cmd \notin {"CONNECT", "SUBSCRIBE", "PUBLISH"}
    BY <1>1 DEF Ping
  <2>3. ASSUME NEW d \in Client, conn[d] # "freed"
        PROVE  /\ out'[d] = out[d] \o News(d, h, k)
               /\ userdata'[d] # 0 => ToSet(session'[userdata'[d]].subs) = Subscriptions(d, k) \cup {}
    <3>1. out[d] \in Seq(Answer) /\ (userdata[d] # 0 => ToSet(session[userdata[d]].subs) = Subscriptions(d, k))
      BY <2>1, <2>3, SubscriptionsBefore
    <3>2. News(d, h, k) = <<>>
      BY <2>2 DEF News
    <3>3. out[d] \o <<>> = out[d]
      BY <3>1
    <3> QED BY <1>1, <3>1, <3>2, <3>3
  <2>4. Delivers(c, h, k)
    BY <1>1, <2>2, <2>3 DEF Delivers
  <2> QED BY <2>1, <2>4, HandlesDelivery
<1> QED BY <1>1, <1>2, <1>3, <1>4

\* While a client has only its CONNECT handled, it has subscribed to nothing.
LEMMA ConnectsFirst ==
  ASSUME BrokerInv, NEW c \in Client, Done(c) = 0, NEW k, k = Len(handled) + 1
  PROVE  /\ Subscriptions(c, k) = {}
         /\ \A s \in DOMAIN session : session[s].nc = c => session[s].subs = <<>>
         /\ userdata[c] # 0 => ConnectsTwice(c)
<1>1. BrokerTypeInv /\ ClientInv /\ SubscribedInv
  BY DEF BrokerInv
<1>2. \A i \in Own(c) : handled[i].m = Connect /\ ~handled[i].whole
  BY OnlyConnect
<1>3. \A i \in Own(c) : handled[i].m.cmd # "SUBSCRIBE"
  BY <1>2 DEF Connect
<1>4. Subscriptions(c, k) = {}
  <2>1. k - 1 = Len(handled)
    BY <1>1, CountType
  <2> QED BY <1>3, <2>1 DEF Subscriptions, Own
<1>5. \A s \in DOMAIN session : session[s].nc = c => session[s].subs = <<>>
  BY <1>1, <1>3 DEF SubscribedInv
<1>6. userdata[c] # 0 => ConnectsTwice(c)
  BY <1>1, <1>2 DEF ClientInv, ConnectsTwice, Own
<1> QED BY <1>4, <1>5, <1>6

\* A CONNECT brings its CONNACK, and nothing to anyone else.
Answers(c, h, k, x) ==
  /\ out' \in [Client -> Seq(Answer)] /\ x \in Answer
  /\ \A d \in Client : out'[d] = out[d] \o News(d, h, k)
  /\ \A d \in Client : News(d, h, k) = IF d = c THEN <<x>> ELSE <<>>
  /\ h.m.cmd = "CONNECT"

LEMMA ConnackOnly ==
  ASSUME BrokerInv, NEW c \in Client, NEW h \in Handling, h.m = Connect, h.from = c, NEW k,
         NEW x, x = Connack(IF h.ok THEN 0 ELSE 3), out' = [out EXCEPT ![c] = Append(out[c], x)]
  PROVE  Answers(c, h, k, x)
<1>1. out \in [Client -> Seq(Answer)]
  BY DEF BrokerInv, BrokerTypeInv
<1>2. x \in Answer
  BY DEF Connack, Answer
<1>3. out' \in [Client -> Seq(Answer)]
  <2>1. Append(out[c], x) \in Seq(Answer)
    BY <1>1, <1>2
  <2> QED BY <1>1, <2>1
<1>4. h.m.cmd = "CONNECT"
  BY DEF Connect
<1>5. \A d \in Client : News(d, h, k) = IF d = c THEN <<x>> ELSE <<>>
  BY <1>4 DEF News
<1>6. ASSUME NEW d \in Client PROVE out'[d] = out[d] \o (IF d = c THEN <<x>> ELSE <<>>)
  <2>1. out[d] \in Seq(Answer)
    BY <1>1
  <2>2. CASE d = c
    <3>1. Append(out[d], x) = out[d] \o <<x>>
      BY <1>2, <2>1
    <3> QED BY <1>1, <2>2, <3>1
  <2>3. CASE d # c
    <3>1. out[d] \o <<>> = out[d]
      BY <2>1
    <3> QED BY <1>1, <2>3, <3>1
  <2> QED BY <2>2, <2>3
<1>7. \A d \in Client : out'[d] = out[d] \o News(d, h, k)
  BY <1>5, <1>6
<1> QED BY <1>2, <1>3, <1>4, <1>5, <1>7 DEF Answers

\* A CONNECT is refused, and nothing else changes.
LEMMA RefuseKeeps ==
  ASSUME BrokerInv, NEW c \in Client, NEW h \in Handling, Handles(c, h), h.m = Connect, ~h.ok,
         out' = [out EXCEPT ![c] = Append(out[c], Connack(3))], UNCHANGED <<session, sessions, userdata, undefined>>
  PROVE  ClientInv' /\ SessionInv' /\ SubscribedInv' /\ DeliveryInv' /\ out' \in [Client -> Seq(Answer)]
<1>1. BrokerTypeInv /\ ClientInv /\ h.from = c
  BY DEF BrokerInv, Handles
<1>2. PICK k : k = Len(handled) + 1
  OBVIOUS
<1>3. PICK x : x = Connack(IF h.ok THEN 0 ELSE 3)
  OBVIOUS
<1>4. /\ out' \in [Client -> Seq(Answer)] /\ x \in Answer
      /\ \A d \in Client : out'[d] = out[d] \o News(d, h, k)
      /\ \A d \in Client : News(d, h, k) = IF d = c THEN <<x>> ELSE <<>>
      /\ h.m.cmd = "CONNECT"
  <2>1. out' = [out EXCEPT ![c] = Append(out[c], x)]
    BY <1>3
  <2>2. Answers(c, h, k, x)
    BY <1>1, <1>3, <2>1, ConnackOnly
  <2> QED BY <2>2 DEF Answers
<1>5. SessionInv' /\ SubscribedInv'
  BY SessionsStay
<1>6. ClientInv'
  <2>1. ASSUME NEW d \in Client PROVE Accepted(d)' <=> Accepted(d)
    <3>1. News(d, h, k) \in Seq(Answer) /\ (News(d, h, k) = <<>> \/ News(d, h, k)[1] # Connack(0))
      <4>1. x # Connack(0) /\ <<x>> \in Seq(Answer) /\ <<x>>[1] = x /\ <<>> \in Seq(Answer)
        BY <1>3, <1>4 DEF Connack
      <4>2. News(d, h, k) = <<x>> \/ News(d, h, k) = <<>>
        BY <1>4
      <4> QED BY <4>1, <4>2
    <3> QED BY <1>1, <1>4, <3>1, AcceptedOnly
  <2>2. \A d \in Client : Accepted(d)' => userdata'[d] # 0
    BY <1>1, <2>1 DEF ClientInv
  <2> QED BY <2>1, <2>2, HandlesClient
<1>7. DeliveryInv'
  <2>1. \A d \in Client : userdata'[d] = 0 => userdata[d] = 0 /\ (d = c => h.m.cmd # "SUBSCRIBE")
    BY <1>4
  <2>2. ASSUME NEW d \in Client, conn[d] # "freed", userdata'[d] # 0
        PROVE  ToSet(session'[userdata'[d]].subs) = Subscriptions(d, k) \cup {}
    BY <1>2, <2>2, SubscriptionsBefore
  <2>3. Delivers(c, h, k)
    BY <1>4, <2>1, <2>2 DEF Delivers
  <2> QED BY <1>2, <2>3, HandlesDelivery
<1> QED BY <1>4, <1>5, <1>6, <1>7

\* A CONNECT is accepted: the client has a session, the newest, without subscriptions; one that
\* it had before comes of the same CONNECT, and stays in the list.
LEMMA AcceptKeeps ==
  ASSUME BrokerInv, NEW c \in Client, NEW h \in Handling, Handles(c, h), h.m = Connect, h.ok, Done(c) = 0,
         session' = Append(session, [nc |-> c, subs |-> <<>>, room |-> 0, userdata |-> userdata[c]]),
         sessions' = sessions \cup {Len(session')}, userdata' = [userdata EXCEPT ![c] = Len(session')],
         out' = [out EXCEPT ![c] = Append(out[c], Connack(0))], UNCHANGED undefined
  PROVE  /\ ClientInv' /\ SessionInv' /\ SubscribedInv' /\ DeliveryInv' /\ out' \in [Client -> Seq(Answer)]
         /\ session' \in Seq(Session) /\ sessions' \subseteq DOMAIN session' /\ userdata' \in [Client -> 0..Len(session')]
<1> DEFINE new == [nc |-> c, subs |-> <<>>, room |-> 0, userdata |-> userdata[c]]
<1>1. /\ BrokerTypeInv /\ ClientInv /\ SessionInv /\ SubscribedInv /\ UNCHANGED conn
      /\ h.from = c /\ conn[c] = "open"
  BY DEF BrokerInv, Handles
<1>2. PICK k : k = Len(handled) + 1
  OBVIOUS
<1>3. PICK x : x = Connack(IF h.ok THEN 0 ELSE 3)
  OBVIOUS
<1>4. /\ out' \in [Client -> Seq(Answer)] /\ x \in Answer
      /\ \A d \in Client : out'[d] = out[d] \o News(d, h, k)
      /\ \A d \in Client : News(d, h, k) = IF d = c THEN <<x>> ELSE <<>>
      /\ h.m.cmd = "CONNECT"
  <2>1. out' = [out EXCEPT ![c] = Append(out[c], x)]
    BY <1>3
  <2>2. Answers(c, h, k, x)
    BY <1>1, <1>3, <2>1, ConnackOnly
  <2> QED BY <2>2 DEF Answers
<1>5. session \in Seq(Session) /\ new \in Session /\ sessions \subseteq DOMAIN session /\ userdata \in [Client -> 0..Len(session)]
  <2>1. <<>> \in Seq(Filter)
    OBVIOUS
  <2>2. userdata[c] \in Nat
    BY <1>1 DEF BrokerTypeInv
  <2>3. new \in Session
    BY <2>1, <2>2 DEF Session
  <2> QED BY <1>1, <2>3 DEF BrokerTypeInv
<1>6. PICK t : t = Len(session')
  OBVIOUS
<1>7. /\ session' \in Seq(Session) /\ t = Len(session) + 1 /\ t \in Nat /\ t # 0 /\ session'[t] = new
      /\ \A s \in DOMAIN session : session'[s] = session[s]
      /\ DOMAIN session' = DOMAIN session \cup {t} /\ t \notin DOMAIN session
      /\ Len(session) \in Nat /\ DOMAIN session = 1..Len(session)
  <2>1. session' = Append(session, new)
    OBVIOUS
  <2> HIDE DEF new
  <2> QED BY <1>5, <1>6, <2>1
<1>8. userdata'[c] = t /\ \A d \in Client : d # c => userdata'[d] = userdata[d]
  BY <1>5, <1>6
<1>9. sessions' \subseteq DOMAIN session' /\ userdata' \in [Client -> 0..Len(session')]
  <2>1. sessions' \subseteq DOMAIN session'
    BY <1>5, <1>6, <1>7
  <2>2. \A d \in Client : userdata'[d] \in 0..Len(session')
    <3> SUFFICES ASSUME NEW d \in Client PROVE userdata'[d] \in 0..Len(session')
      OBVIOUS
    <3>1. Len(session') = t /\ t = Len(session) + 1 /\ Len(session) \in Nat
      BY <1>6, <1>7
    <3>2. userdata[d] \in 0..Len(session)
      BY <1>5
    <3> QED BY <1>8, <3>1, <3>2
  <2> QED BY <1>5, <2>1, <2>2
<1>10. /\ Subscriptions(c, k) = {}
       /\ \A s \in DOMAIN session : session[s].nc = c => session[s].subs = <<>>
       /\ userdata[c] # 0 => ConnectsTwice(c)
  BY <1>2, ConnectsFirst
<1>11. ClientInv'
  <2>1. ASSUME NEW d \in Client PROVE (Accepted(d) => Accepted(d)') /\ (d # c => (Accepted(d)' => Accepted(d)))
    <3>1. News(d, h, k) \in Seq(Answer) /\ (d # c => News(d, h, k) = <<>>)
      <4>1. <<x>> \in Seq(Answer) /\ <<>> \in Seq(Answer)
        BY <1>4
      <4>2. News(d, h, k) = IF d = c THEN <<x>> ELSE <<>>
        BY <1>4
      <4> QED BY <4>1, <4>2
    <3> QED BY <1>1, <1>4, <3>1, AcceptedOnly
  <2>2. \A d \in Client : Accepted(d)' => userdata'[d] # 0
    BY <1>1, <1>7, <1>8, <2>1 DEF ClientInv
  <2> QED BY <1>8, <2>1, <2>2, HandlesClient
<1>12. SessionInv'
  <2>1. ASSUME NEW s \in sessions'
        PROVE  \E d \in Client :
                 /\ d = session'[s].nc
                 /\ \/ conn[d] = "open" /\ userdata'[d] = s
                    \/ ConnectsTwice(d)' /\ session'[s].subs = <<>>
    <3>1. CASE s = t
      <4>1. session'[s].nc = c
        BY <1>7, <3>1
      <4> QED BY <1>1, <1>8, <3>1, <4>1
    <3>2. CASE s # t
      <4>1. s \in sessions /\ s \in DOMAIN session /\ session'[s] = session[s]
        BY <1>5, <1>6, <1>7, <3>2
      <4>2. PICK d \in Client : d = session[s].nc
        BY <1>1, <4>1, SessionType
      <4>3. \/ conn[d] = "open" /\ userdata[d] = s
            \/ ConnectsTwice(d) /\ session[s].subs = <<>>
        BY <1>1, <4>1, <4>2 DEF SessionInv
      <4>4. ConnectsTwice(d) => ConnectsTwice(d)'
        BY HandlesHistory
      <4>5. s # 0
        BY <1>1, <4>1, SessionType
      <4>6. CASE d = c
        <5>1. session[s].subs = <<>> /\ ConnectsTwice(c)
          BY <1>10, <4>1, <4>2, <4>3, <4>5, <4>6
        <5> QED BY <4>1, <4>2, <4>4, <4>6, <5>1
      <4>7. CASE d # c
        BY <1>8, <4>1, <4>2, <4>3, <4>4, <4>7
      <4> QED BY <4>6, <4>7
    <3> QED BY <3>1, <3>2
  <2>2. ASSUME NEW d \in Client, userdata'[d] # 0
        PROVE  session'[userdata'[d]].nc = d /\ (conn[d] = "open" => userdata'[d] \in sessions')
    <3>1. CASE d = c
      <4>1. session'[t].nc = c
        BY <1>7
      <4> QED BY <1>6, <1>8, <3>1, <4>1
    <3>2. CASE d # c
      <4>1. userdata'[d] = userdata[d] /\ userdata[d] \in 0..Len(session)
        BY <1>5, <1>8, <3>2
      <4>2. userdata[d] \in DOMAIN session
        BY <1>7, <2>2, <4>1
      <4>3. session[userdata[d]].nc = d /\ (conn[d] = "open" => userdata[d] \in sessions)
        BY <1>1, <2>2, <4>1 DEF SessionInv
      <4> QED BY <1>6, <1>7, <4>1, <4>2, <4>3
    <3> QED BY <3>1, <3>2
  <2>3. ASSUME NEW s \in sessions'
        PROVE  \/ (conn[session[s].nc] = "open" /\ userdata[session[s].nc] = s)'
               \/ (ConnectsTwice(session[s].nc) /\ session[s].subs = <<>>)'
    <3>1. PICK d \in Client :
            /\ d = session'[s].nc
            /\ \/ conn[d] = "open" /\ userdata'[d] = s
               \/ ConnectsTwice(d)' /\ session'[s].subs = <<>>
      BY <2>1, <2>3
    <3>2. ConnectsTwice(d)' => ConnectsTwice(session[s].nc)'
      BY <3>1 DEF ConnectsTwice, MessagesOf
    <3> QED BY <1>1, <3>1, <3>2
  <2> QED BY <1>1, <2>2, <2>3 DEF SessionInv
<1>13. SubscribedInv'
  <2>1. ASSUME NEW s \in DOMAIN session', session'[s].subs # <<>>
        PROVE  \E d \in Client : d = session'[s].nc /\ \E i \in Own(d)' : handled'[i].m.cmd = "SUBSCRIBE"
    <3>1. s \in DOMAIN session /\ session'[s] = session[s]
      BY <1>7, <2>1
    <3>2. PICK d \in Client : d = session[s].nc
      BY <1>1, <3>1, SessionType
    <3>3. \E i \in Own(d) : handled[i].m.cmd = "SUBSCRIBE"
      BY <1>1, <2>1, <3>1, <3>2 DEF SubscribedInv
    <3> QED BY <3>1, <3>2, <3>3, HandlesHistory
  <2>2. undefined => \E d \in Client : SubscribesTwice(d)'
    BY <1>1, HandlesHistory DEF SubscribedInv
  <2> QED BY <2>1, <2>2 DEF SubscribedInv, Own, MessagesOf
<1>14. DeliveryInv'
  <2>1. \A d \in Client : userdata'[d] = 0 => userdata[d] = 0 /\ (d = c => h.m.cmd # "SUBSCRIBE")
    BY <1>4, <1>7, <1>8
  <2>2. ASSUME NEW d \in Client, conn[d] # "freed", userdata'[d] # 0
        PROVE  ToSet(session'[userdata'[d]].subs) = Subscriptions(d, k) \cup {}
    <3>1. CASE d = c
      <4>1. session'[userdata'[d]].subs = <<>>
        BY <1>7, <1>8, <3>1
      <4> QED BY <1>10, <3>1, <4>1, NoneInEmpty
    <3>2. CASE d # c
      <4>1. userdata[d] \in DOMAIN session /\ ToSet(session[userdata[d]].subs) = Subscriptions(d, k)
        BY <1>2, <1>8, <2>2, <3>2, SubscriptionsBefore
      <4> QED BY <1>7, <1>8, <3>2, <4>1
    <3> QED BY <3>1, <3>2
  <2>3. Delivers(c, h, k)
    BY <1>4, <2>1, <2>2 DEF Delivers
  <2> QED BY <1>2, <2>3, HandlesDelivery
<1> QED BY <1>4, <1>7, <1>9, <1>11, <1>12, <1>13, <1>14

LEMMA SetOfBoth ==
  ASSUME NEW S, NEW s \in Seq(S), NEW t \in Seq(S)
  PROVE  ToSet(s \o t) = ToSet(s) \cup ToSet(t)
<1>1. Len(s) \in Nat /\ Len(t) \in Nat /\ Len(s \o t) = Len(s) + Len(t)
  OBVIOUS
<1>2. /\ DOMAIN s = 1..Len(s) /\ DOMAIN t = 1..Len(t) /\ DOMAIN (s \o t) = 1..(Len(s) + Len(t))
      /\ \A i \in 1..Len(s) : (s \o t)[i] = s[i]
      /\ \A i \in 1..(Len(s) + Len(t)) : i \notin 1..Len(s) => (s \o t)[i] = t[i - Len(s)] /\ i - Len(s) \in 1..Len(t)
  BY <1>1
<1>3. \A i \in 1..Len(t) : (s \o t)[i + Len(s)] = t[i]
  BY <1>1
<1>4. ASSUME NEW x \in ToSet(s \o t) PROVE x \in ToSet(s) \cup ToSet(t)
  <2>1. PICK i \in DOMAIN (s \o t) : (s \o t)[i] = x
    BY DEF ToSet
  <2> QED BY <1>2, <2>1 DEF ToSet
<1>5. ASSUME NEW x \in ToSet(s) PROVE x \in ToSet(s \o t)
  <2>1. PICK i \in DOMAIN s : s[i] = x
    BY DEF ToSet
  <2>2. i \in DOMAIN (s \o t) /\ (s \o t)[i] = x
    BY <1>1, <1>2, <2>1
  <2> QED BY <2>2 DEF ToSet
<1>6. ASSUME NEW x \in ToSet(t) PROVE x \in ToSet(s \o t)
  <2>1. PICK i \in DOMAIN t : t[i] = x
    BY DEF ToSet
  <2>2. i + Len(s) \in DOMAIN (s \o t) /\ (s \o t)[i + Len(s)] = x
    BY <1>1, <1>2, <1>3, <2>1
  <2> QED BY <2>2 DEF ToSet
<1> QED BY <1>4, <1>5, <1>6

\* A SUBSCRIBE adds its expressions to those of the client's newest session; the array is overrun
\* when there are others, which came of another SUBSCRIBE.
LEMMA SubscribeKeeps ==
  ASSUME BrokerInv, NEW c \in Client, NEW h \in Handling, Handles(c, h), Subscribes(c, h)
  PROVE  /\ ClientInv' /\ SessionInv' /\ SubscribedInv' /\ DeliveryInv' /\ out' \in [Client -> Seq(Answer)]
         /\ session' \in Seq(Session) /\ DOMAIN session' = DOMAIN session /\ Len(session') = Len(session)
         /\ UNCHANGED <<sessions, userdata>> /\ undefined' \in BOOLEAN
<1>1. /\ BrokerTypeInv /\ ClientInv /\ SessionInv /\ SubscribedInv /\ UNCHANGED conn
      /\ handled' = Append(handled, h) /\ h.from = c /\ conn[c] = "open"
      /\ out \in [Client -> Seq(Answer)] /\ session \in Seq(Session) /\ sessions \subseteq DOMAIN session
  BY DEF BrokerInv, Handles, BrokerTypeInv
<1>2. PICK m : m = h.m
  OBVIOUS
<1>3. m \in Message /\ m.cmd = "SUBSCRIBE" /\ m.exps \in Seq(Filter) /\ Suback(m) \in Answer
  <2>1. h.m \in Message /\ h.m.cmd = "SUBSCRIBE" /\ h.whole \in BOOLEAN /\ h.ok \in BOOLEAN
    BY DEF Subscribes, Handling
  <2>2. Suback(h.m) \in Answer /\ h.m.exps \in Seq(Filter)
    BY <2>1, AnswerType
  <2> QED BY <1>2, <2>1, <2>2
<1>4. PICK s : s = userdata[c]
  OBVIOUS
<1>5. s \in sessions /\ s \in DOMAIN session /\ session[s].nc = c /\ s # 0
  BY <1>1, <1>4, SessionType DEF Subscribes
<1>6. /\ session' = [session EXCEPT ![s].subs = session[s].subs \o m.exps, ![s].room = Len(m.exps)]
      /\ out' = [out EXCEPT ![c] = Append(out[c], Suback(m))]
      /\ UNCHANGED <<sessions, userdata>>
      /\ undefined' = (undefined \/ Len(session'[s].subs) > session'[s].room)
  BY <1>2, <1>4 DEF Subscribes, HandleSubscribe
<1>7. session[s] \in Session /\ session[s].subs \in Seq(Filter)
  <2>1. session[s] \in Session
    BY <1>1, <1>5
  <2> QED BY <2>1 DEF Session
<1> DEFINE changed == [session[s] EXCEPT !.subs = session[s].subs \o m.exps, !.room = Len(m.exps)]
<1>8. /\ changed \in Session /\ changed.nc = c /\ changed.subs = session[s].subs \o m.exps /\ changed.room = Len(m.exps)
      /\ session' = [session EXCEPT ![s] = changed]
  <2>1. Len(m.exps) \in Nat /\ session[s].subs \o m.exps \in Seq(Filter)
    BY <1>3, <1>7
  <2>2. changed \in Session
    BY <1>7, <2>1 DEF Session
  <2>3. changed.nc = c /\ changed.subs = session[s].subs \o m.exps /\ changed.room = Len(m.exps)
    BY <1>5, <1>7 DEF Session
  <2> QED BY <1>5, <1>6, <2>2, <2>3
<1>9. /\ session' \in Seq(Session) /\ DOMAIN session' = DOMAIN session /\ Len(session') = Len(session)
      /\ session'[s] = changed /\ \A t \in DOMAIN session : t # s => session'[t] = session[t]
  <2> HIDE DEF changed
  <2> QED BY <1>1, <1>5, <1>8
<1>10. \A t \in DOMAIN session : session'[t].nc = session[t].nc
  BY <1>5, <1>8, <1>9
<1> HIDE DEF changed
<1>11. PICK k : k = Len(handled) + 1
  OBVIOUS
<1>12. /\ handled'[k] = h /\ k \in Own(c)' /\ k \notin DOMAIN handled
       /\ \A n \in DOMAIN handled : handled'[n] = handled[n]
       /\ Own(c) \subseteq DOMAIN handled /\ Own(c) \subseteq Own(c)'
  <2>1. Own(c)' = Own(c) \cup {k}
    BY <1>1, <1>11, HandledNext
  <2>2. Own(c) \subseteq DOMAIN handled
    BY <1>1, CountType DEF Own, MessagesOf
  <2> QED BY <1>1, <1>11, <2>1, <2>2, HandledNext
<1>13. \A d \in Client : News(d, h, k) = IF d = c THEN <<Suback(m)>> ELSE <<>>
  BY <1>1, <1>2, <1>3 DEF News
<1>14. ASSUME NEW d \in Client PROVE out'[d] = out[d] \o News(d, h, k) /\ News(d, h, k) \in Seq(Answer)
  <2>1. out[d] \in Seq(Answer) /\ <<Suback(m)>> \in Seq(Answer) /\ <<>> \in Seq(Answer)
    BY <1>1, <1>3
  <2>2. Append(out[d], Suback(m)) = out[d] \o <<Suback(m)>> /\ out[d] \o <<>> = out[d]
    BY <1>3, <2>1
  <2>3. out'[d] = IF d = c THEN Append(out[d], Suback(m)) ELSE out[d]
    BY <1>1, <1>6
  <2>4. News(d, h, k) = IF d = c THEN <<Suback(m)>> ELSE <<>>
    BY <1>13
  <2> QED BY <2>1, <2>2, <2>3, <2>4
<1>15. out' \in [Client -> Seq(Answer)]
  <2>1. Append(out[c], Suback(m)) \in Seq(Answer)
    BY <1>1, <1>3
  <2> QED BY <1>1, <1>6, <2>1
<1>16. ClientInv'
  <2>1. ASSUME NEW d \in Client PROVE Accepted(d)' <=> Accepted(d)
    <3>1. <<Suback(m)>>[1] # Connack(0)
      BY DEF Suback, Connack
    <3>2. News(d, h, k) = <<Suback(m)>> \/ News(d, h, k) = <<>>
      BY <1>13
    <3> QED BY <1>1, <1>14, <3>1, <3>2, AcceptedOnly
  <2>2. \A d \in Client : Accepted(d)' => userdata'[d] # 0
    BY <1>1, <1>6, <2>1 DEF ClientInv
  <2> QED BY <1>6, <2>1, <2>2, HandlesClient
<1>17. SessionInv'
  <2>1. ASSUME NEW t \in sessions
        PROVE  \/ (conn[session[t].nc] = "open" /\ userdata[session[t].nc] = t)'
               \/ (ConnectsTwice(session[t].nc) /\ session[t].subs = <<>>)'
    <3>1. PICK d \in Client : d = session[t].nc /\ d = session'[t].nc /\ t \in DOMAIN session
      BY <1>1, <1>10, SessionType
    <3>2. CASE conn[d] = "open" /\ userdata[d] = t
      BY <1>1, <1>6, <3>1, <3>2
    <3>3. CASE ~(conn[d] = "open" /\ userdata[d] = t)
      <4>1. ConnectsTwice(d) /\ session[t].subs = <<>>
        BY <1>1, <3>1, <3>3 DEF SessionInv
      <4>2. t # s
        BY <1>1, <1>4, <1>5, <3>1, <3>3
      <4>3. session'[t].subs = <<>> /\ ConnectsTwice(d)'
        BY <1>9, <3>1, <4>1, <4>2, HandlesHistory
      <4> QED BY <3>1, <4>3 DEF ConnectsTwice, MessagesOf
    <3> QED BY <3>2, <3>3
  <2>2. ASSUME NEW d \in Client, userdata[d] # 0
        PROVE  session'[userdata[d]].nc = d /\ (conn[d] = "open" => userdata[d] \in sessions)
    <3>1. userdata[d] \in DOMAIN session
      BY <1>1, <2>2 DEF BrokerTypeInv
    <3> QED BY <1>1, <1>10, <2>2, <3>1 DEF SessionInv
  <2> QED BY <1>1, <1>6, <2>1, <2>2 DEF SessionInv
<1>18. SubscribedInv' /\ undefined' \in BOOLEAN
  <2>1. \E i \in Own(c)' : handled'[i].m.cmd = "SUBSCRIBE"
    BY <1>2, <1>3, <1>12
  <2>2. ASSUME NEW t \in DOMAIN session, session'[t].subs # <<>>
        PROVE  \E d \in Client : d = session'[t].nc /\ \E i \in Own(d)' : handled'[i].m.cmd = "SUBSCRIBE"
    <3>1. PICK d \in Client : d = session[t].nc /\ d = session'[t].nc
      BY <1>1, <1>10, SessionType
    <3>2. CASE t = s
      BY <1>5, <2>1, <3>1, <3>2
    <3>3. CASE t # s
      <4>1. \E i \in Own(d) : handled[i].m.cmd = "SUBSCRIBE"
        BY <1>1, <1>9, <2>2, <3>1, <3>3 DEF SubscribedInv
      <4> QED BY <3>1, <4>1, HandlesHistory
    <3> QED BY <3>2, <3>3
  <2>3. ASSUME Len(session'[s].subs) > session'[s].room PROVE SubscribesTwice(c)'
    <3>1. Len(session[s].subs \o m.exps) > Len(m.exps)
      BY <1>8, <1>9, <2>3
    <3>2. session[s].subs # <<>>
      <4> SUFFICES ASSUME session[s].subs = <<>> PROVE FALSE
        OBVIOUS
      <4>1. <<>> \o m.exps = m.exps /\ Len(m.exps) \in Nat
        BY <1>3
      <4>2. Len(m.exps) > Len(m.exps)
        BY <3>1, <4>1
      <4> QED BY <4>1, <4>2
    <3>3. PICK i \in Own(c) : handled[i].m.cmd = "SUBSCRIBE"
      BY <1>1, <1>5, <3>2 DEF SubscribedInv
    <3>4. i \in Own(c)' /\ handled'[i].m.cmd = "SUBSCRIBE" /\ i # k
      BY <1>12, <3>3
    <3> QED BY <1>2, <1>3, <1>12, <3>4 DEF SubscribesTwice, Own
  <2>4. undefined' => \E d \in Client : SubscribesTwice(d)'
    <3>1. undefined => \E d \in Client : SubscribesTwice(d)'
      BY <1>1, HandlesHistory DEF SubscribedInv
    <3> QED BY <1>6, <2>3, <3>1
  <2>5. undefined' \in BOOLEAN
    BY <1>6
  <2> QED BY <1>9, <2>2, <2>4, <2>5 DEF SubscribedInv, Own, MessagesOf
<1>19. DeliveryInv'
  <2>1. ASSUME NEW d \in Client, conn[d] # "freed", userdata'[d] # 0
        PROVE  ToSet(session'[userdata'[d]].subs)
                 = Subscriptions(d, k) \cup (IF d = c /\ h.m.cmd = "SUBSCRIBE" THEN ToSet(h.m.exps) ELSE {})
    <3>1. /\ userdata'[d] = userdata[d] /\ userdata[d] \in DOMAIN session
          /\ ToSet(session[userdata[d]].subs) = Subscriptions(d, k)
      BY <1>6, <1>11, <2>1, SubscriptionsBefore
    <3>2. CASE d = c
      <4>1. session'[userdata'[d]].subs = session[s].subs \o m.exps
        BY <1>4, <1>8, <1>9, <3>1, <3>2
      <4>2. ToSet(session[s].subs \o m.exps) = ToSet(session[s].subs) \cup ToSet(m.exps)
        BY <1>3, <1>7, SetOfBoth
      <4> QED BY <1>2, <1>3, <1>4, <3>1, <3>2, <4>1, <4>2
    <3>3. CASE d # c
      <4>1. userdata[d] # s
        BY <1>1, <1>5, <2>1, <3>1, <3>3 DEF SessionInv
      <4> QED BY <1>9, <3>1, <3>3, <4>1
    <3> QED BY <3>2, <3>3
  <2>2. \A d \in Client : userdata'[d] = 0 => userdata[d] = 0 /\ d # c
    BY <1>4, <1>5, <1>6
  <2>3. Delivers(c, h, k)
    BY <1>14, <2>1, <2>2 DEF Delivers
  <2> QED BY <1>11, <2>3, HandlesDelivery
<1> QED BY <1>6, <1>9, <1>15, <1>16, <1>17, <1>18, <1>19

\* A session has at most one first subscription that matches.
LEMMA FirstCopy ==
  ASSUME BrokerTypeInv, NEW s \in DOMAIN session, NEW topic
  PROVE  /\ Wants(s, topic) => \E j : Copies(s, topic) = {j}
         /\ ~Wants(s, topic) => Copies(s, topic) = {}
<1> DEFINE subs == session[s].subs
           That == {i \in DOMAIN subs : Matches(subs[i], topic)}
<1>1. subs \in Seq(Filter)
  BY SessionType
<1>2. Len(subs) \in Nat /\ DOMAIN subs = 1..Len(subs)
  BY <1>1
<1>3. ASSUME Wants(s, topic) PROVE \E j : Copies(s, topic) = {j}
  <2>1. That # {} /\ That \subseteq Nat
    BY <1>2, <1>3 DEF Wants
  <2>2. IsWellFoundedOn(Below, Nat)
    <3>1. Below = OpToRel(<, Nat)
      BY Zenon DEF Below, OpToRel
    <3> QED BY <3>1, NatLessThanWellFounded, Zenon
  <2>3. PICK j \in That : \A i \in That : <<i, j>> \notin Below
    <3> HIDE DEF That
    <3> QED BY <2>1, <2>2, WFMin, Zenon
  <2>4. \A i \in That : ~(i < j)
    <3> SUFFICES ASSUME NEW i \in That, i < j PROVE FALSE
      OBVIOUS
    <3>1. <<i, j>> \in Nat \X Nat /\ <<i, j>>[1] = i /\ <<i, j>>[2] = j
      BY <2>1
    <3> QED BY <2>3, <3>1 DEF Below
  <2>5. j \in Copies(s, topic)
    <3>1. j \in DOMAIN subs /\ Matches(subs[j], topic)
      OBVIOUS
    <3>2. ASSUME NEW i \in 1..(j - 1) PROVE ~Matches(subs[i], topic)
      <4>1. i \in DOMAIN subs /\ i < j
        BY <1>2
      <4> QED BY <2>4, <4>1
    <3> QED BY <3>1, <3>2 DEF Copies
  <2>6. ASSUME NEW i \in Copies(s, topic) PROVE i = j
    <3>1. i \in That /\ \A n \in 1..(i - 1) : ~Matches(subs[n], topic)
      BY DEF Copies
    <3>2. ~(i < j)
      BY <2>4, <3>1
    <3>3. ~(j < i)
      <4> SUFFICES ASSUME j < i PROVE FALSE
        OBVIOUS
      <4>1. j \in 1..(i - 1)
        BY <1>2, <3>1
      <4>2. Matches(subs[j], topic)
        OBVIOUS
      <4> QED BY <3>1, <4>1, <4>2
    <3>4. i \in Nat /\ j \in Nat
      BY <2>1, <3>1
    <3> QED BY <3>2, <3>3, <3>4
  <2> QED BY <2>5, <2>6
<1>4. ASSUME ~Wants(s, topic) PROVE Copies(s, topic) = {}
  BY <1>4 DEF Wants, Copies
<1> QED BY <1>3, <1>4

LEMMA CrossOne ==
  ASSUME NEW u, NEW j
  PROVE  {u} \X {j} = {<<u, j>>} /\ {u} \X {} = {}
OBVIOUS

\* A session without subscriptions wants nothing.
LEMMA NoneWanted ==
  ASSUME BrokerTypeInv, NEW s \in DOMAIN session, session[s].subs = <<>>, NEW topic
  PROVE  ~Wants(s, topic) /\ Copies(s, topic) = {}
BY DEF Wants, Copies

\* A PUBLISH goes, once, to each open client whose newest session has a subscription that matches;
\* no other session in the list has subscriptions.
LEMMA CopiesTo ==
  ASSUME BrokerInv, NEW d \in Client, conn[d] = "open", NEW topic, NEW copies,
         copies = UNION {{s} \X Copies(s, topic) : s \in {t \in sessions : session[t].nc = d}}
  PROVE  Cardinality(copies)
           = IF userdata[d] # 0 /\ \E e \in ToSet(session[userdata[d]].subs) : Matches(e, topic) THEN 1 ELSE 0
<1>1. BrokerTypeInv /\ SessionInv /\ sessions \subseteq DOMAIN session
  BY DEF BrokerInv, BrokerTypeInv
<1>2. PICK u : u = userdata[d]
  OBVIOUS
<1>3. ASSUME NEW s \in sessions, session[s].nc = d, s # u PROVE Copies(s, topic) = {}
  <2>1. session[s].subs = <<>>
    BY <1>1, <1>2, <1>3 DEF SessionInv
  <2> QED BY <1>1, <2>1, NoneWanted
<1>4. CASE u = 0
  <2>1. \A s \in sessions : s # 0
    BY <1>1, SessionType
  <2>2. \A s \in sessions : session[s].nc = d => {s} \X Copies(s, topic) = {}
    BY <1>3, <1>4, <2>1
  <2>3. copies = {}
    BY <2>2
  <2> QED BY <1>2, <1>4, <2>3, FS_EmptySet
<1>5. CASE u # 0
  <2>1. u \in sessions /\ u \in DOMAIN session /\ session[u].nc = d
    BY <1>1, <1>2, <1>5 DEF SessionInv
  <2>2. \A s \in sessions : session[s].nc = d /\ s # u => {s} \X Copies(s, topic) = {}
    BY <1>3
  <2>3. copies = {u} \X Copies(u, topic)
    BY <2>1, <2>2
  <2>4. Wants(u, topic) <=> \E e \in ToSet(session[u].subs) : Matches(e, topic)
    BY DEF Wants, ToSet
  <2>5. CASE Wants(u, topic)
    <3>1. PICK j : Copies(u, topic) = {j}
      BY <1>1, <2>1, <2>5, FirstCopy
    <3>2. copies = {<<u, j>>}
      BY <2>3, <3>1, CrossOne
    <3>3. Cardinality(copies) = 1
      BY <3>2, FS_Singleton
    <3> QED BY <1>2, <1>5, <2>4, <2>5, <3>3
  <2>6. CASE ~Wants(u, topic)
    <3>1. copies = {}
      BY <1>1, <2>1, <2>3, <2>6, FirstCopy, CrossOne
    <3>2. Cardinality(copies) = 0
      BY <3>1, FS_EmptySet
    <3> QED BY <1>2, <2>4, <2>6, <3>2
  <2> QED BY <2>5, <2>6
<1> QED BY <1>4, <1>5

LEMMA PublishKeeps ==
  ASSUME BrokerInv, NEW c \in Client, NEW h \in Handling, Handles(c, h), Publishes(h)
  PROVE  /\ ClientInv' /\ SessionInv' /\ SubscribedInv' /\ DeliveryInv' /\ out' \in [Client -> Seq(Answer)]
         /\ UNCHANGED <<session, sessions, userdata, undefined>>
<1>1. /\ BrokerTypeInv /\ ClientInv /\ SessionInv /\ UNCHANGED conn /\ sessions \subseteq DOMAIN session
      /\ out \in [Client -> Seq(Answer)] /\ undefined \in BOOLEAN
  BY DEF BrokerInv, Handles, BrokerTypeInv
<1>2. PICK m : m = Read(h.m, h.whole)
  OBVIOUS
<1>3. PICK topic : topic = h.m.topic
  OBVIOUS
<1>4. m \in Answer /\ h.m.cmd = "PUBLISH" /\ m.cmd = "PUBLISH" /\ m.topic = topic /\ HandlePublish(m)
  <2>1. h.m.cmd = "PUBLISH" /\ m \in Message /\ HandlePublish(m)
    BY <1>2 DEF Publishes
  <2>2. m.cmd = h.m.cmd /\ m.topic = h.m.topic
    BY <1>2, <2>1 DEF Read, Publishes
  <2> QED BY <1>3, <2>1, <2>2 DEF Answer
<1>5. PICK k : k = Len(handled) + 1
  OBVIOUS
<1> DEFINE Sent(d) == UNION {{s} \X Copies(s, topic) : s \in {t \in sessions : session[t].nc = d}}
<1>6. /\ out' = [d \in Client |-> IF conn[d] = "open" THEN out[d] \o [i \in 1..Cardinality(Sent(d)) |-> m] ELSE out[d]]
      /\ UNCHANGED <<session, sessions, userdata>>
      /\ undefined' = (undefined \/ \E s \in sessions : conn[session[s].nc] # "open" /\ Wants(s, topic))
  BY <1>4 DEF HandlePublish
<1>7. undefined' = undefined
  <2>1. ASSUME NEW s \in sessions, conn[session[s].nc] # "open" PROVE ~Wants(s, topic)
    <3>1. session[s].subs = <<>> /\ s \in DOMAIN session
      BY <1>1, <2>1 DEF SessionInv
    <3> QED BY <1>1, <3>1, NoneWanted
  <2> QED BY <1>1, <1>6, <2>1
<1>8. \A d \in Client : News(d, h, k) = IF \E e \in Subscriptions(d, k) : Matches(e, topic) THEN <<m>> ELSE <<>>
  BY <1>2, <1>3, <1>4 DEF News
<1>9. ASSUME NEW d \in Client
      PROVE  /\ News(d, h, k) \in Seq(Answer) /\ (News(d, h, k) = <<>> \/ News(d, h, k)[1] # Connack(0))
             /\ conn[d] = "open" => out'[d] = out[d] \o News(d, h, k)
             /\ conn[d] # "open" => out'[d] = out[d] \o <<>>
  <2>1. out[d] \in Seq(Answer) /\ <<m>> \in Seq(Answer) /\ <<>> \in Seq(Answer) /\ <<m>>[1] = m
    BY <1>1, <1>4
  <2>2. m # Connack(0)
    BY <1>4 DEF Connack
  <2>3. News(d, h, k) = <<m>> \/ News(d, h, k) = <<>>
    BY <1>8
  <2>4. ASSUME conn[d] = "open" PROVE out'[d] = out[d] \o News(d, h, k)
    <3>1. PICK subs : subs = IF userdata[d] # 0 THEN ToSet(session[userdata[d]].subs) ELSE {}
      OBVIOUS
    <3>2. subs = Subscriptions(d, k)
      BY <1>5, <2>4, <3>1, SubscriptionsBefore
    <3>3. Cardinality(Sent(d))
            = IF userdata[d] # 0 /\ \E e \in ToSet(session[userdata[d]].subs) : Matches(e, topic) THEN 1 ELSE 0
      BY <2>4, CopiesTo
    <3>4. Cardinality(Sent(d)) = IF \E e \in Subscriptions(d, k) : Matches(e, topic) THEN 1 ELSE 0
      <4> HIDE DEF Sent
      <4> QED BY <3>1, <3>2, <3>3
    <3>5. [i \in 1..1 |-> m] = <<m>> /\ [i \in 1..0 |-> m] = <<>>
      OBVIOUS
    <3>6. out'[d] = out[d] \o [i \in 1..Cardinality(Sent(d)) |-> m]
      BY <1>6, <2>4
    <3>7. News(d, h, k) = IF \E e \in Subscriptions(d, k) : Matches(e, topic) THEN <<m>> ELSE <<>>
      BY <1>8
    <3> HIDE DEF Sent
    <3> QED BY <3>4, <3>5, <3>6, <3>7
  <2>5. ASSUME conn[d] # "open" PROVE out'[d] = out[d] \o <<>>
    <3>1. out[d] \o <<>> = out[d]
      BY <2>1
    <3> QED BY <1>6, <2>5, <3>1
  <2> QED BY <2>1, <2>2, <2>3, <2>4, <2>5
<1>10. out' \in [Client -> Seq(Answer)]
  <2>1. \A d \in Client : out'[d] \in Seq(Answer)
    <3> SUFFICES ASSUME NEW d \in Client PROVE out'[d] \in Seq(Answer)
      OBVIOUS
    <3>1. PICK x : x = News(d, h, k)
      OBVIOUS
    <3>2. /\ x \in Seq(Answer) /\ <<>> \in Seq(Answer) /\ out[d] \in Seq(Answer)
          /\ (out'[d] = out[d] \o x \/ out'[d] = out[d] \o <<>>)
      <4>1. News(d, h, k) \in Seq(Answer) /\ <<>> \in Seq(Answer) /\ out[d] \in Seq(Answer)
        BY <1>1, <1>9
      <4>2. conn[d] = "open" => out'[d] = out[d] \o News(d, h, k)
        BY <1>9
      <4>3. conn[d] # "open" => out'[d] = out[d] \o <<>>
        BY <1>9
      <4> QED BY <3>1, <4>1, <4>2, <4>3
    <3>3. out[d] \o x \in Seq(Answer) /\ out[d] \o <<>> \in Seq(Answer)
      BY <3>2
    <3> QED BY <3>2, <3>3, Zenon
  <2>2. DOMAIN out' = Client /\ out' = [d \in Client |-> out'[d]]
    BY <1>6
  <2> QED BY <2>1, <2>2
<1>11. ClientInv'
  <2>1. ASSUME NEW d \in Client PROVE Accepted(d)' <=> Accepted(d)
    <3>1. CASE conn[d] = "open"
      BY <1>1, <1>9, <3>1, AcceptedOnly
    <3>2. CASE conn[d] # "open"
      <4>1. <<>> \in Seq(Answer)
        OBVIOUS
      <4> QED BY <1>1, <1>9, <3>2, <4>1, AcceptedOnly
    <3> QED BY <3>1, <3>2
  <2>2. \A d \in Client : Accepted(d)' => userdata'[d] # 0
    BY <1>1, <1>6, <2>1 DEF ClientInv
  <2> QED BY <1>6, <2>1, <2>2, HandlesClient
<1>12. SessionInv' /\ SubscribedInv'
  BY <1>6, <1>7, SessionsStay
<1>13. DeliveryInv'
  <2>1. ASSUME NEW d \in Client, conn[d] # "freed"
        PROVE  /\ out'[d] = out[d] \o News(d, h, k)
               /\ userdata[d] # 0 => ToSet(session[userdata[d]].subs) = Subscriptions(d, k) \cup {}
    <3>1. /\ out[d] \in Seq(Answer)
          /\ userdata[d] # 0 => ToSet(session[userdata[d]].subs) = Subscriptions(d, k)
          /\ userdata[d] = 0 => Subscriptions(d, k) = {}
      BY <1>5, <2>1, SubscriptionsBefore
    <3>2. CASE conn[d] = "open"
      BY <1>9, <3>1, <3>2
    <3>3. CASE conn[d] # "open"
      <4>1. conn[d] = "new"
        BY <1>1, <2>1, <3>3 DEF BrokerTypeInv
      <4>2. userdata[d] = 0
        BY <4>1, NewClient
      <4>3. News(d, h, k) = <<>>
        BY <1>8, <3>1, <4>2
      <4> QED BY <1>9, <3>3, <4>2, <4>3
    <3> QED BY <3>2, <3>3
  <2>2. Delivers(c, h, k)
    BY <1>4, <1>6, <2>1 DEF Delivers
  <2> QED BY <1>5, <2>2, HandlesDelivery
<1> QED BY <1>6, <1>7, <1>10, <1>11, <1>12, <1>13

-----------------------------------------------------------------------------
(* Theorems *)

LEMMA HandlesKeeps ==
  ASSUME BrokerInv, NEW c \in Client, NEW h \in Handling, Handles(c, h),
         NEW w \in Nat, NEW r \in Nat, Holds(c, w, r),
         IF h.whole THEN w + r = (wire[c] + recv[c]) - Whole ELSE w + r = wire[c] + recv[c] /\ r = Whole - 1
  PROVE  BrokerInv'
<1>1. FramingInv' /\ HandledInOrder'
  BY HandlesFraming
<1>2. /\ out \in [Client -> Seq(Answer)] /\ session \in Seq(Session) /\ sessions \subseteq DOMAIN session
      /\ userdata \in [Client -> 0..Len(session)] /\ undefined \in BOOLEAN
  BY DEF BrokerInv, BrokerTypeInv
<1> DEFINE EffectsTyped ==
             /\ out' \in [Client -> Seq(Answer)] /\ session' \in Seq(Session) /\ sessions' \subseteq DOMAIN session'
             /\ userdata' \in [Client -> 0..Len(session')] /\ undefined' \in BOOLEAN
<1>3. SUFFICES EffectsTyped /\ ClientInv' /\ SessionInv' /\ SubscribedInv' /\ DeliveryInv'
  BY <1>1, HandlesType DEF BrokerInv
<1>4. CASE Connects(c, h)
  <2>1. h.m = Connect /\ Done(c) = 0 /\ HandleConnect(c, h.ok)
    BY <1>4 DEF Connects
  <2>2. CASE h.ok
    BY <1>2, <2>1, <2>2, AcceptKeeps DEF HandleConnect
  <2>3. CASE ~h.ok
    BY <1>2, <2>1, <2>3, RefuseKeeps DEF HandleConnect
  <2> QED BY <2>2, <2>3
<1>5. CASE Subscribes(c, h)
  BY <1>2, <1>5, SubscribeKeeps
<1>6. CASE Publishes(h)
  BY <1>2, <1>6, PublishKeeps
<1>7. CASE Pings(h)
  BY <1>2, <1>7, PingKeeps
<1> QED BY <1>4, <1>5, <1>6, <1>7, HandleCases

LEMMA BrokerNextKeeps == BrokerInv /\ [BrokerNext]_brokerVars => BrokerInv'
<1> SUFFICES ASSUME BrokerInv, [BrokerNext]_brokerVars PROVE BrokerInv'
  OBVIOUS
<1>1. ASSUME NEW c \in Client, Recv(c) PROVE BrokerInv'
  <2>1. BrokerTypeInv /\ FramingInv
    BY DEF BrokerInv
  <2>2. CASE \E h \in Handling, w \in Nat, r \in Nat :
               /\ Handles(c, h) /\ Holds(c, w, r)
               /\ IF h.whole THEN w + r = (wire[c] + recv[c]) - Whole
                             ELSE w + r = wire[c] + recv[c] /\ r = Whole - 1
    BY <2>2, HandlesKeeps
  <2>3. CASE \E w \in Nat, r \in Nat : Waits(c) /\ Holds(c, w, r) /\ w + r = wire[c] + recv[c]
    BY <2>3, WaitKeeps
  <2> QED BY <1>1, <2>1, <2>2, <2>3, RecvCases
<1>2. CASE BrokerNext
  BY <1>1, <1>2, OpenKeeps, SendKeeps, CloseKeeps DEF BrokerNext
<1>3. CASE UNCHANGED brokerVars
  <2>1. Quiet /\ UNCHANGED <<conn, sent, wire, recv, sessions>>
    BY <1>3 DEF brokerVars, Quiet
  <2>2. BrokerTypeInv /\ FramingInv /\ ClientInv /\ HandledInOrder /\ SessionInv /\ SubscribedInv /\ DeliveryInv
    BY DEF BrokerInv
  <2>3. BrokerTypeInv' /\ SessionInv'
    BY <2>1, <2>2 DEF BrokerTypeInv, SessionInv, Quiet, ConnectsTwice, MessagesOf
  <2>4. FramingInv' /\ ClientInv'
    BY <2>1, <2>2, QuietValues DEF FramingInv, ClientInv, Quiet
  <2>5. HandledInOrder'
    BY <2>1, <2>2, SameHandledInOrder DEF Quiet
  <2>6. SubscribedInv' /\ DeliveryInv'
    BY <2>1, <2>2, QuietDelivery
  <2> QED BY <2>3, <2>4, <2>5, <2>6 DEF BrokerInv
<1> QED BY <1>2, <1>3

\* For any clients, topics and messages and whatever the cuts: the session that an open connection was given
\* last is in mg_mqtt_broker's list; any other there is what a CONNECT handled twice left behind, has no subscriptions,
\* and so nothing is ever written through it; what is undefined comes of an array overrun by a second SUBSCRIBE.
THEOREM SessionsKept == BrokerSpec => []SessionsMatch
<1>1. BrokerInv => SessionsMatch
  BY DEF BrokerInv, SessionInv, SubscribedInv, SessionsMatch
<1> QED BY <1>1, BrokerInitInv, BrokerNextKeeps, PTL DEF BrokerSpec

\* mqtt_handler hands mg_mqtt_broker the messages of a client in the order sent, however the stream is cut: each
\* once when it is whole, and at most once before, when all but its last byte is there.
THEOREM HandledInTurn == BrokerSpec => []HandledInOrder
<1>1. BrokerInv => HandledInOrder
  BY DEF BrokerInv
<1> QED BY <1>1, BrokerInitInv, BrokerNextKeeps, PTL DEF BrokerSpec

\* What an open client gets is the answers to its own CONNECTs and SUBSCRIBEs and each publication that matches what
\* it subscribed to before, once for each time it was handled and as it was read, in the order in which
\* mg_mqtt_broker handled them all: also when messages are handled twice and sessions stay behind.
THEOREM PublicationsArrive == BrokerSpec => []DeliveredAsHandled
<1>1. BrokerInv => DeliveredAsHandled
  BY DEF BrokerInv, DeliveryInv, DeliveredAsHandled, Dues
<1> QED BY <1>1, BrokerInitInv, BrokerNextKeeps, PTL DEF BrokerSpec
=============================================================================
