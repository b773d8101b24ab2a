------------------------------- MODULE CgiEnv -------------------------------
(* The environment mongoose gives to a CGI program. A variable is a pair of a name and a value,
   of the length Size gives it. *)
EXTENDS FileServer
CONSTANTS BufSize, MaxVars, Size(_, _)

Fresh == [len |-> 0, vars |-> <<>>]

\* Room is kept for the two ends, of the last string and of the block.
Fits(blk, n) == n + 1 < BufSize - (blk.len + 2) /\ Len(blk.vars) < MaxVars - 2

\* mg_addenv: what does not fit is left out, and what is shorter may still come behind it.
AddEnv(blk, name, value) ==
  IF Fits(blk, Size(name, value))
  THEN [len |-> blk.len + Size(name, value) + 1, vars |-> Append(blk.vars, <<name, value>>)]
  ELSE blk

Upper(name) == [i \in DOMAIN name |-> IF name[i] = 45 THEN 95
                                      ELSE IF name[i] \in 97 .. 122 THEN name[i] - 32 ELSE name[i]]

\* An index file that stands for a directory has its name put behind it.
ScriptName(uri, info, prog) ==
  LET script == SubSeq(uri, 1, Len(uri) - Len(info))
  IN IF Last(script) = Slash THEN script \o Last(prog) ELSE script

Given(name, value) == IF value = None THEN <<>> ELSE <<<< <<name>>, value>>>>

\* mg_prepare_cgi_environment: server are the variables that are the same for every request,
\* own those of the server's environment that are handed on.
Environment(r, server, own) ==
  LET query == IF r.query = <<>> THEN None ELSE r.query
      info == IF r.info = <<>> THEN None ELSE r.info
      http == [i \in DOMAIN r.headers |-> <<<<"HTTP", Upper(r.headers[i][1])>>, r.headers[i][2]>>]
      vars == server \o Given("REQUEST_METHOD", r.method)
                \o Given("REQUEST_URI", IF query = None THEN r.uri ELSE r.uri \o <<Question>> \o query)
                \o Given("SCRIPT_NAME", ScriptName(r.uri, r.info, r.prog))
                \o Given("PATH_INFO", info) \o Given("PATH_TRANSLATED", info)
                \o Given("CONTENT_TYPE", r.type) \o Given("QUERY_STRING", query)
                \o Given("CONTENT_LENGTH", r.cl) \o own \o http
  IN FoldLeft(LAMBDA blk, v : AddEnv(blk, v[1], v[2]), Fresh, vars)

\* A program is told what was asked, the script and what is behind it, as long as there is
\* room for it, and the block ends as it has to whatever there is room for.
ProgramsTold ==
  \A name \in {<<99>>, <<98, 47>>}, info \in {<<>>, <<Slash>>, <<Slash, 97>>}, query \in {<<>>, <<97>>},
     n \in 0 .. 3, own \in 0 .. 6 :
    LET r == [uri |-> <<Slash>> \o name \o info, query |-> query, info |-> info, method |-> <<71>>,
              type |-> None, cl |-> None, prog |-> <<<<119>>, <<98>>, <<105>>>>,
              headers |-> [i \in 1 .. n |-> <<<<97 + i, 45>>, <<i>>>>]]
        blk == Environment(r, <<>>, [i \in 1 .. own |-> << <<"OWN">>, <<i>>>>])
        of(var) == {blk.vars[i][2] : i \in {j \in DOMAIN blk.vars : blk.vars[j][1] = <<var>>}}
        script == CHOOSE v \in of("SCRIPT_NAME") : TRUE
        fits == 3 + (IF info = <<>> THEN 0 ELSE 2) + (IF query = <<>> THEN 0 ELSE 1) + own + n
    IN (name = <<98, 47>> => info = <<>>) =>
       /\ Len(blk.vars) < MaxVars /\ blk.len < BufSize
       /\ script \o info = r.uri \o (IF name = <<98, 47>> THEN <<105>> ELSE <<>>)
       /\ info # <<>> => of("PATH_INFO") = {info}
       /\ fits <= MaxVars - 2 /\ 9 * fits < BufSize - 3 => Len(blk.vars) = fits
=============================================================================
