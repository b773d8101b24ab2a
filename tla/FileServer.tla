----------------------------- MODULE FileServer -----------------------------
(* mg_serve_http: from the URI of a request to a path, and what is answered for it. A path is
   the sequence of its names, a tree the function from paths to nodes: [kind |-> "file" or
   "dir", data, time, open], open if entries may be made and removed in it. A request that
   changes the tree gives the tree it leaves. *)
EXTENDS Patterns

None == <<-3>>
NoPath == <<Failed>>

PathText(path) == FoldLeft(LAMBDA out, name : out \o <<Slash>> \o name, <<>>, path)
PathOf(text) == SelectSeq(SplitAt(text, Slash), LAMBDA name : name # <<>>)

Is(tree, path, kind) == path \in DOMAIN tree /\ tree[path].kind = kind
Below(tree, path) == {p \in DOMAIN tree : IsPrefix(path, p)}
Children(tree, path) == {p \in Below(tree, path) : Len(p) = Len(path) + 1}

\* What is left of the request line from the URI on, and the request with the URI normalised in it
Line(hm) == hm.uri \o hm.query \o <<Space, 72, 84, 84, 80>>
OnLine(hm, u) == [line |-> u.line] @@ [hm EXCEPT !.uri = SubSeq(u.line, 1, u.n)]
Normalized(hm) == OnLine(hm, NormalizeIn(Line(hm), Len(hm.uri)))
-----------------------------------------------------------------------------
(* mg_uri_to_local_path *)

\* A pattern that takes n characters ends where a name does, or has moved the place behind which
\* the names start.
RewrittenBehind(s, rule, hm, n) ==
  CASE n <= 0 -> s
    [] n > 0 /\ (n = Len(hm.uri) \/ StartsAt(hm.line, <<Slash>>, n + 1)) ->
         [root |-> rule.eq, from |-> n]
    [] OTHER -> IF hm.line[n] = Slash THEN [root |-> rule.eq, from |-> n - 1]
                ELSE [s EXCEPT !.from = n]

\* One rewrite rule after the others: a host that is asked for, or a pattern
Rewritten(s, rule, hm) ==
  LET byHost == Len(rule.val) > 1 /\ rule.val[1] = At
  IN IF s.root # None THEN s
     ELSE IF byHost THEN [s EXCEPT !.root = IF SameIgnoringCase(Tail(rule.val), hm.host)
                                            THEN rule.eq ELSE None]
     ELSE RewrittenBehind(s, rule, hm, MatchIn(rule.val, hm.line, Len(hm.uri)))

IsDav(method) == method \in {"PUT", "DELETE", "MKCOL", "PROPFIND", "MOVE"}

Root(opts, hm) ==
  LET s == FoldLeft(LAMBDA t, rule : Rewritten(t, rule, hm), [root |-> None, from |-> 0],
                    opts.rewrites)
      default == IF opts.davRoot # None /\ IsDav(hm.method) THEN opts.davRoot ELSE opts.root
  IN IF s.root = None THEN [s EXCEPT !.root = default] ELSE s

\* Name by name down to the first file; what is behind it is its path_info. Names are decoded,
\* and stay above the root.
RECURSIVE Walk(_, _, _, _, _, _)
Walk(tree, uri, base, u, path, exists) ==
  LET here == exists /\ path \in DOMAIN tree
      c == Component(uri, u, Slash)
      name == UrlDecode(c.text, Len(uri) + 1, FALSE)
      on(p) == Walk(tree, uri, base, c.next, p, here)
      found(from) == [path |-> path, info |-> SubSeq(uri, from, Len(uri))]
  IN IF u > Len(uri) + 1 THEN found(u)
     ELSE IF here /\ tree[path].kind = "file" THEN found(IF uri[u - 1] = Slash THEN u - 1 ELSE u)
     ELSE IF u = Len(uri) + 1 THEN found(u)
     ELSE IF c.text = <<>> \/ name = <<Dot>> THEN on(path)
     ELSE IF name = Failed \/ {0, Slash} \cap ToSet(name) # {} THEN [path |-> NoPath, info |-> <<>>]
     ELSE IF name = <<Dot, Dot>> THEN on(IF Len(path) > base THEN Front(path) ELSE path)
     ELSE on(Append(path, name))

WalkFrom(tree, uri, root, from) == Walk(tree, uri, Len(root), from + 2, root, TRUE)

LocalPath(tree, opts, hm) ==
  LET s == Root(opts, hm) IN WalkFrom(tree, hm.uri, PathOf(s.root), s.from)
-----------------------------------------------------------------------------
(* Who may ask: mg_is_authorized, mg_http_check_digest_auth. The data of a password file are its
   entries. A hash is what it is made from; a nonce is the text of a time. *)

Md5Resp(method, uri, ha1, a) ==
  <<ha1, a.nonce, a.nc, a.cnonce, a.qop, <<method, uri>>>>

RECURSIVE Hexadecimal(_)
Hexadecimal(n) == (IF n < 16 THEN <<>> ELSE Hexadecimal(n \div 16)) \o <<Hex(n % 16)>>

\* mg_http_create_digest_auth_header, with a nonce of its own or the one of a challenge
Response(method, uri, user, ha1, nonce) ==
  LET a == [user |-> user, nonce |-> nonce, cnonce |-> nonce, nc |-> 1, qop |-> "auth", uri |-> uri]
  IN a @@ ("response" :> Md5Resp(method, uri, ha1, a))
DigestHeader(method, uri, user, ha1, now) == Response(method, uri, user, ha1, Hexadecimal(now))

\* mg_http_send_digest_auth_request: the nonce of a challenge
Challenge(now) == Decimal(now)

CheckNonce(nonce, now) ==
  LET val == FoldLeft(LAMBDA n, ch : 16 * n + HexToI(ch), 0, nonce) IN now < val \/ now - val < 3600

\* The first entry of the user in the domain decides. What is hashed for the URI is as much of
\* the line, in which it has been normalised, as it and its query are long.
CheckDigest(hm, domain, entries, now) ==
  LET mine == SelectSeq(entries, LAMBDA e : e.user = hm.auth.user /\ e.domain = domain)
      length == Len(hm.uri) + (IF Len(hm.query) > 1 THEN Len(hm.query) ELSE 0)
      uri == SubSeq(hm.line, 1, length)
  IN /\ hm.auth.user # "" /\ CheckNonce(hm.auth.nonce, now)
     /\ mine # <<>> /\ hm.auth.response = Md5Resp(hm.method, uri, mine[1].ha1, hm.auth)

\* What has no password file is for everyone.
IsAuthorized(tree, hm, domain, file, now) ==
  domain # "" /\ Is(tree, file, "file") => CheckDigest(hm, domain, tree[file].data, now)

InDirectory(tree, path, file) ==
  Append(IF Is(tree, path, "dir") \/ path = <<>> THEN path ELSE Front(path), file)

\* mg_is_file_hidden, without the names . and ..
Hidden(name, opts) == \/ MatchPrefix(opts.authFile, name) = Len(opts.authFile)
                      \/ opts.hidden # None /\ MatchPrefix(opts.hidden, name) > 0

\* mg_scan_directory: what is shown of a directory
Shown(tree, path, opts) == {p \in Children(tree, path) : ~Hidden(Last(p), opts)}

\* mg_find_index_file, <<>> if there is none
FindIndex(tree, path, list) ==
  LET there == SelectSeq(list, LAMBDA e : Is(tree, Append(path, e.val), "file"))
  IN IF there = <<>> THEN <<>> ELSE Append(path, there[1].val)
-----------------------------------------------------------------------------
(* mg_parse_date_string and mg_is_not_modified *)

DaysBeforeMonth == <<0, 31, 59, 90, 120, 151, 181, 212, 243, 273, 304, 334>>
LeapYears(year) == year \div 4 - year \div 100 + year \div 400

\* The leap day of a year counts from its first day.
ParseDate(day, month, year, seconds) ==
  IF year <= 1970 \/ month \notin 1 .. 12 THEN 0
  ELSE ((year - 1970) * 365 + DaysBeforeMonth[month] + (day - 1)
          + (LeapYears(year) - LeapYears(1970))) * 86400 + seconds

Etag(node) == <<node.time, Len(node.data)>>

NotModified(hm, node) == IF hm.noneMatch # None THEN hm.noneMatch = Etag(node)
                         ELSE hm.since # None /\ node.time <= hm.since[1]
-----------------------------------------------------------------------------
(* mg_handle_forwarding and mg_http_send_port_based_redirect, before the path is looked at *)

HttpUrl == <<104, 116, 116, 112, Colon, Slash, Slash>>

\* The first rule whose key the URI starts with and whose value is an address
Forwarded(rewrites, uri) ==
  SelectSeq(rewrites, LAMBDA r : StartsAt(uri, r.val, 1) /\ StartsAt(r.eq, HttpUrl, 1))

Redirected(rewrites, port) == SelectSeq(rewrites, LAMBDA r : r.val = <<Percent>> \o port)
=============================================================================
