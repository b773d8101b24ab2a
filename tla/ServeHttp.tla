----------------------------- MODULE ServeHttp ------------------------------
(* What mg_serve_http answers to a request, and what its WebDAV requests do to a tree of files. *)
EXTENDS FileServer, TLC

Answer(code, what, tree) == [code |-> code, what |-> what, tree |-> tree]

DirNode == [kind |-> "dir", data |-> <<>>, time |-> 0, open |-> TRUE]
FileNode(data) == [kind |-> "file", data |-> data, time |-> 0, open |-> FALSE]

\* Entries may be made and removed in the directory of a path.
Open(tree, path) == Is(tree, Front(path), "dir") /\ tree[Front(path)].open
-----------------------------------------------------------------------------
(* mkdir, rmdir and rename, as the operating system does them *)

MkdirError(tree, path) ==
  CASE path \in DOMAIN tree -> "EEXIST"
    [] path \notin DOMAIN tree /\ Front(path) \notin DOMAIN tree -> "ENOENT"
    [] path \notin DOMAIN tree /\ Is(tree, Front(path), "file") -> "ENOTDIR"
    [] path \notin DOMAIN tree /\ Is(tree, Front(path), "dir") ->
         IF Open(tree, path) THEN "" ELSE "EACCES"

MayRename(tree, from, to) ==
  /\ from = to \/ ~IsPrefix(from, to)
  /\ Is(tree, Front(to), "dir") /\ Open(tree, from) /\ Open(tree, to)
  /\ to \in DOMAIN tree => /\ tree[to].kind = tree[from].kind
                           /\ from = to \/ Children(tree, to) = {}

Renamed(tree, from, to) ==
  LET moved == Below(tree, from)
      goal(p) == to \o SubSeq(p, Len(from) + 1, Len(p))
      left == DOMAIN tree \ (moved \union {to})
  IN [p \in left \union {goal(q) : q \in moved} |->
        IF p \in left THEN tree[p] ELSE tree[from \o SubSeq(p, Len(to) + 1, Len(p))]]
-----------------------------------------------------------------------------

\* mg_handle_propfind; about is the node whose properties are given. What is listed of a
\* directory are the properties of what is shown of it.
HandlePropfind(tree, opts, hm, path, about) ==
  IF about.kind = "dir" /\ ~opts.listing THEN Answer(403, {}, tree)
  ELSE Answer(207, {<<hm.uri, about.kind>>} \union
                     (IF about.kind = "dir" /\ hm.depth # 0
                      THEN {<<Last(p), tree[p].kind>> : p \in Shown(tree, path, opts)} ELSE {}),
              tree)

HandleMkcol(tree, hm, path) ==
  LET error == MkdirError(tree, path)
  IN CASE hm.body # <<>> -> Answer(415, {}, tree)
       [] hm.body = <<>> /\ error = "" -> Answer(201, {}, path :> DirNode @@ tree)
       [] OTHER -> Answer(CASE error = "EEXIST" -> 405 [] error = "EACCES" -> 403
                            [] error = "ENOENT" -> 409 [] OTHER -> 500, {}, tree)

\* Mutant: what is hidden goes too.
Kept_None(tree, opts, dir) == {p \in Below(tree, dir) : p # dir /\ ~Open(tree, p)}

\* What is not removed of a directory: what is hidden, with all below it, and what the system
\* does not let go
Kept(tree, opts, dir) ==
  {p \in Below(tree, dir) : \/ p # dir /\ ~Open(tree, p)
                            \/ \E i \in Len(dir) + 1 .. Len(p) : Hidden(p[i], opts)}

\* mg_remove_directory: a directory that is not empty then stays.
RemoveDirectory(tree, opts, dir) ==
  LET kept == Kept(tree, opts, dir) \union (IF Open(tree, dir) THEN {} ELSE {dir})
      gone == {p \in Below(tree, dir) : ~\E q \in kept : IsPrefix(p, q)}
  IN [p \in DOMAIN tree \ gone |-> tree[p]]

HandleDelete(tree, opts, path) ==
  CASE Is(tree, path, "dir") -> Answer(204, {}, RemoveDirectory(tree, opts, path))
    [] Is(tree, path, "file") /\ Open(tree, path) ->
         Answer(204, {}, [p \in DOMAIN tree \ {path} |-> tree[p]])
    [] Is(tree, path, "file") /\ ~Open(tree, path) -> Answer(423, {}, tree)
    [] OTHER -> Answer(404, {}, tree)

\* The destination is an address; what is behind its host is taken as it is written.
HandleMove(tree, opts, hm, path) ==
  LET d == hm.dest
      scheme == NextOf(d, {Slash}, 1)
      at == NextOf(d, {Slash}, scheme + 2)
      to == PathOf(opts.davRoot) \o PathOf(SubSeq(d, at, Len(d)))
  IN IF d = None THEN Answer(411, {}, tree)
     ELSE IF ~StartsAt(d, <<Slash, Slash>>, scheme) \/ at > Len(d) THEN Answer(500, {}, tree)
     ELSE IF MayRename(tree, path, to) THEN Answer(200, {}, Renamed(tree, path, to))
     ELSE Answer(418, {}, tree)

\* mg_create_itermediate_directories: every directory on the way is made; Failed if one cannot
\* be, with those above it made.
RECURSIVE WithDirectories(_, _, _)
WithDirectories(tree, path, n) ==
  LET dir == SubSeq(path, 1, n)
  IN IF n >= Len(path) THEN [ok |-> TRUE, tree |-> tree]
     ELSE IF dir \in DOMAIN tree THEN WithDirectories(tree, path, n + 1)
     ELSE IF MkdirError(tree, dir) = "" THEN WithDirectories(dir :> DirNode @@ tree, path, n + 1)
     ELSE [ok |-> FALSE, tree |-> tree]

\* What a file holds after a body is stored behind its first bytes, which read as zeros
Stored(range, body) ==
  IF range = <<>> THEN body
  ELSE LET size == IF range[2] > range[1] THEN range[2] - range[1] + 1 ELSE Len(body) - range[1]
       IN [i \in 1 .. range[1] |-> 0] \o SubSeq(body, 1, size)

\* mg_handle_put, and the body that follows (mg_http_transfer_file_data)
HandlePut(tree, hm, path) ==
  LET dirs == WithDirectories(tree, path, 1)
      opens == IF path \in DOMAIN dirs.tree THEN Is(tree, path, "file") ELSE Open(dirs.tree, path)
      code == IF hm.range # <<>> THEN 206 ELSE IF path \in DOMAIN tree THEN 200 ELSE 201
  IN IF ~dirs.ok THEN Answer(500, {}, dirs.tree)
     ELSE IF ~hm.cl THEN Answer(411, {}, dirs.tree)
     ELSE IF ~opens THEN Answer(500, {}, dirs.tree)
     ELSE Answer(code, {}, path :> FileNode(Stored(hm.range, hm.body)) @@ dirs.tree)
-----------------------------------------------------------------------------
\* mg_escape, in a buffer of room characters
EscapeHtml(name, room) ==
  FoldLeft(LAMBDA out, ch : IF Len(out) + 5 >= room THEN out
                            ELSE out \o (IF ch = 60 THEN <<Amp, 108, 116, Semicolon>> ELSE <<ch>>),
           <<>>, name)

\* mg_send_directory_listing, mg_print_dir_entry: a link, a name and a size for what is shown
MaxPath == 500
Listing(tree, path, opts) ==
  {LET dir == tree[p].kind = "dir"
       slash == IF dir THEN <<Slash>> ELSE <<>>
   IN [href |-> UrlEncode(Last(p), 3 * MaxPath) \o slash, name |-> EscapeHtml(Last(p), MaxPath) \o slash,
       size |-> IF dir THEN -1 ELSE Len(tree[p].data)] : p \in Shown(tree, path, opts)}

IsCreation(method) == method \in {"MKCOL", "PUT"}

\* mg_send_http_file. An index file stands for its directory, with its own properties.
SendHttpFile(tree, opts, hm, path, info) ==
  LET dir == Is(tree, path, "dir")
      index == IF dir THEN FindIndex(tree, path, opts.indexFiles) ELSE <<>>
      target == IF index = <<>> THEN path ELSE index
      cgi == MatchPrefix(opts.cgi, PathText(target)) > 0
      dav == IsDav(hm.method)
      may(file) == IsAuthorized(tree, hm, opts.domain, file, opts.now)
      error(code) == Answer(code, {}, tree)
  IN IF dir /\ Last(hm.uri) # Slash /\ ~dav THEN Answer(301, {hm.uri \o <<Slash>>}, tree)
     ELSE IF info # <<>> /\ ~cgi THEN error(501)
     ELSE IF dav /\ opts.davRoot = None THEN error(501)
     ELSE IF ~may(opts.globalAuth) \/ ~may(InDirectory(tree, path, opts.authFile)) THEN error(401)
     ELSE IF cgi THEN Answer(0, {<<target, info>>}, tree)
     ELSE IF (path \notin DOMAIN tree \/ Hidden(Last(path), opts)) /\ ~IsCreation(hm.method)
          THEN error(404)
     ELSE IF hm.method = "PROPFIND" THEN HandlePropfind(tree, opts, hm, path, tree[target])
     ELSE IF dav /\ (opts.davAuth = None \/ (opts.davAuth # <<45>> /\ ~may(<<opts.davAuth>>)))
          THEN error(401)
     ELSE IF hm.method = "MKCOL" THEN HandleMkcol(tree, hm, path)
     ELSE IF hm.method = "DELETE" THEN HandleDelete(tree, opts, path)
     ELSE IF hm.method = "PUT" THEN HandlePut(tree, hm, path)
     ELSE IF hm.method = "MOVE" THEN HandleMove(tree, opts, hm, path)
     ELSE IF hm.method = "OPTIONS" THEN error(200)
     ELSE IF dir /\ index = <<>>
          THEN IF opts.listing THEN Answer(200, Listing(tree, path, opts), tree)
               ELSE error(403)
     ELSE IF NotModified(hm, tree[target]) THEN error(304)
     ELSE Answer(200, {target}, tree)

\* What a URI has been found to be the local path of, if it is one
Found(tree, opts, hm, at) == IF at.path = NoPath THEN Answer(404, {}, tree)
                             ELSE SendHttpFile(tree, opts, hm, at.path, at.info)

\* mg_serve_http behind its redirects: nothing is left of a URI that is no path
Local(tree, opts, hm) == IF hm.uri = <<>> THEN Answer(400, {}, tree)
                         ELSE Found(tree, opts, hm, LocalPath(tree, opts, hm))

\* mg_serve_http; what is proxied or redirected by its port has the code 0 or 301.
Serve(tree, opts, hm) ==
  LET redirects == Redirected(opts.rewrites, opts.port)
      forwarded == Forwarded(opts.rewrites, hm.uri)
  IN IF CheckIpAcl(opts.acl, hm.ip) # 1 THEN Answer(403, {}, tree)
     ELSE IF forwarded # <<>> THEN Answer(0, {forwarded[1].eq}, tree)
     ELSE IF redirects # <<>> THEN Answer(301, {redirects[1].eq \o hm.uri \o hm.query}, tree)
     ELSE Local(tree, opts, Normalized(hm))
-----------------------------------------------------------------------------
(* What an answer promises *)

NamesOf(uri) == PathOf(Joined(DotsRemoved(Tail(Segments(uri, 1)))))
Plain(uri) == IF NamesOf(uri) = <<>> THEN <<Slash>> ELSE PathText(NamesOf(uri))
Others(tree, gone) == [p \in DOMAIN tree \ gone |-> tree[p]]

\* Of what was answered, a, and what would be now to a GET, that they are as was asked. Success of
\* a DELETE of a directory promises no more than that nothing but what is hidden, or locked, has
\* stayed of it: the code does not look whether anything has.
Fulfilled(tree, opts, hm, path, to, a, now) ==
  LET special == Hidden(Last(path), opts) \/ MatchPrefix(opts.cgi, PathText(path)) > 0
      kept(p) == \/ \E i \in Len(path) + 1 .. Len(p) : Hidden(p[i], opts)
                 \/ p # path /\ ~Open(tree, p)
      left == {q \in Below(tree, path) : \E p \in Below(tree, path) : kept(p) /\ IsPrefix(q, p)}
      done == a.code \in 200 .. 206
  IN /\ \A p \in DOMAIN a.tree : p = <<>> \/ Is(a.tree, Front(p), "dir")
     /\ CASE hm.method = "PUT" /\ done ->
               /\ a.code = 201 <=> path \notin DOMAIN tree
               /\ a.tree[path].data = hm.body
               /\ Others(a.tree, {path} \union (DOMAIN a.tree \ DOMAIN tree)) = Others(tree, {path})
               /\ \A p \in DOMAIN a.tree \ DOMAIN tree : IsPrefix(p, path)
               /\ special \/ (now.code = 200 /\ now.what = {path})
          [] hm.method = "MKCOL" /\ done ->
               path \notin DOMAIN tree /\ a.tree = path :> DirNode @@ tree
          [] hm.method = "DELETE" /\ done ->
               /\ DOMAIN a.tree = (DOMAIN tree \ Below(tree, path)) \union left
                    \union (IF Open(tree, path) THEN {} ELSE {path})
               /\ Others(tree, DOMAIN tree \ DOMAIN a.tree) = a.tree
               /\ special \/ path \in DOMAIN a.tree \/ now.code = 404
          [] hm.method = "MOVE" /\ done ->
               /\ \A p \in Below(tree, path) :
                    a.tree[to \o SubSeq(p, Len(path) + 1, Len(p))] = tree[p]
               /\ Others(a.tree, Below(a.tree, to)) = Others(tree, Below(tree, path) \union {to})
               /\ special \/ path = to \/ now.code = 404
          [] hm.method = "GET" /\ done ->
               /\ a.tree = tree /\ ~Hidden(Last(path), opts)
               /\ IF Is(tree, path, "dir") /\ FindIndex(tree, path, opts.indexFiles) = <<>>
                  THEN {path \o PathOf(UrlDecode(e.href, 20, FALSE)) : e \in a.what} =
                         {q \in Children(tree, path) : ~Hidden(Last(q), opts)}
                  ELSE /\ a.what \in {{path}} \union {{Append(path, e.val)} : e \in ToSet(opts.indexFiles)}
                       /\ \A p \in a.what : Is(tree, p, "file")
          [] OTHER -> IF hm.method = "PUT" /\ a.code = 411
                      THEN Others(a.tree, DOMAIN a.tree \ DOMAIN tree) = tree
                      ELSE a.tree = tree
     /\ Is(tree, path, "file") /\ hm.method = "GET" /\ ~special /\ Last(hm.uri) # Slash =>
          a.code = 200 /\ a.what = {path}

\* A request that is answered with success has done what it asks for and nothing else, one that
\* is not has changed nothing, and the next one finds what was left. root is the root's path.
AsAsked(tree, opts, hm, root) ==
  LET a == Serve(tree, opts, hm)
      again == [hm EXCEPT !.method = "GET", !.uri = Plain(hm.uri)]
  IN Fulfilled(tree, opts, hm, root \o NamesOf(hm.uri),
               root \o PathOf(SubSeq(hm.dest, 6, Len(hm.dest))), a, Serve(a.tree, opts, again))
=============================================================================
