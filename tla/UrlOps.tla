------------------------------- MODULE UrlOps -------------------------------
(***************************************************************************)
(* URLs (lib/url.c), query strings (lib/query.c) and the URL of a request  *)
(* that libwebsockets received (lib/lws-utils.c, lib/request.c).  A text   *)
(* is a sequence of pieces: names, numbers and the characters that have a  *)
(* meaning.  A number is one piece and is never next to another.           *)
(***************************************************************************)
EXTENDS Integers, SequencesExt

NULL == <<"NULL">>

\* What "%u" prints of -1 and strtoul reads back into an int.
Numbers ==
  [t \in {"0", "80", "443", "8080", "4294967295"} |->
     CASE t = "0" -> 0 [] t = "80" -> 80 [] t = "443" -> 443 [] t = "8080" -> 8080
       [] t = "4294967295" -> -1]

Printed(n) == CHOOSE t \in DOMAIN Numbers : Numbers[t] = n

URL(protocol, host, port, path) ==
  [protocol |-> protocol, host |-> host, port |-> port, path |-> path]

URL_IS_VALID_PORT(n) == n \in 0 .. 65535

From(s, x) == SubSeq(s, x + 1, Len(s))

\* How many pieces come before the first of chars.
Before(s, chars) ==
  LET i == SelectInSeq(s, LAMBDA c : c \in chars) IN IF i = 0 THEN Len(s) ELSE i - 1

-----------------------------------------------------------------------------
(* Protocols *)

protocol_names == {"ws", "wss", "http", "https", "raw", "tls"}

protocol_number(text) ==
  IF Len(text) = 1 /\ text[1] \in protocol_names THEN text[1] ELSE "raw"

protocol_string(p) == <<p>>

protocol_default_port(p) ==
  CASE p \in {"ws", "http"} -> 80
    [] p \in {"wss", "https"} -> 443
    [] OTHER -> 0

protocol_is_tls(p) == p \in {"wss", "https", "tls"}

-----------------------------------------------------------------------------
(* Texts *)

\* What is behind the protocol.
url_parse_rest(protocol, rest) ==
  LET h == Before(rest, {":", "/"})
      after == From(rest, h)
      colon == after # <<>> /\ after[1] = ":"
      digits == colon /\ Len(after) > 1 /\ after[2] \in DOMAIN Numbers
      port == CASE digits -> Numbers[after[2]]
                [] colon /\ ~digits -> 0
                [] ~colon /\ protocol # NULL -> protocol_default_port(protocol_number(protocol))
                [] OTHER -> -1
      path == From(after, IF digits THEN 2 ELSE IF colon THEN 1 ELSE 0)
  IN  URL(protocol, IF h = 0 THEN NULL ELSE SubSeq(rest, 1, h), port,
          IF path = <<>> THEN NULL ELSE path)

url_parse(u) ==
  LET Mark == {i \in 1 .. Len(u) - 2 : SubSeq(u, i, i + 2) = <<":", "/", "/">>}
      i == CHOOSE x \in Mark : \A y \in Mark : x <= y
  IN  IF Mark = {} THEN url_parse_rest(NULL, u)
      ELSE url_parse_rest(SubSeq(u, 1, i - 1), From(u, i + 2))

\* With no host there is one as soon as there is a protocol or a port.
HostOr(u) ==
  IF u.host = NULL /\ (u.protocol # NULL \/ u.port >= 0) THEN <<"0.0.0.0">> ELSE u.host

Prefix(u) == IF u.protocol = NULL THEN <<>> ELSE u.protocol \o <<":", "/", "/">>

OrNone(text) == IF text = NULL THEN <<>> ELSE text

\* Mutant: a port is taken for the protocol's own.
url_format_bare(u) ==
  Prefix(u) \o OrNone(HostOr(u)) \o OrNone(u.path)

url_format(u) ==
  LET own == /\ u.protocol # NULL
             /\ \/ u.port = protocol_default_port(protocol_number(u.protocol))
                \/ u.port < 0
      port == IF own \/ HostOr(u) = NULL THEN <<>> ELSE <<":", Printed(u.port)>>
  IN  Prefix(u) \o OrNone(HostOr(u)) \o port \o OrNone(u.path)

\* What is logged and measured: the port is left out if it is 0.
url_print(u) ==
  (IF u.protocol \in {NULL, <<>>} THEN <<>> ELSE Prefix(u)) \o OrNone(u.host)
    \o (IF u.port = 0 THEN <<>> ELSE <<":", Printed(u.port)>>) \o OrNone(u.path)

url_host(u) ==
  LET host == IF u.host = NULL /\ u.port >= 0 THEN <<"0.0.0.0">> ELSE u.host
  IN  IF host = NULL THEN <<>>
      ELSE host \o (IF u.port < 0 THEN <<>> ELSE <<":", Printed(u.port)>>)

-----------------------------------------------------------------------------
(* The parts of the path.  A path that is NULL has none: to ask for its      *)
(* query reads through the pointer.                                          *)

start_from(path, c) == From(path, Before(path, {c}))

\* Without "?" there is no query.
url_query(u) ==
  LET s == start_from(u.path, "?") IN IF s = <<>> THEN NULL ELSE Tail(s)

url_search(u) ==
  LET s == start_from(u.path, "?") IN SubSeq(s, 1, Before(s, {"#"}))

url_hash(u) == start_from(u.path, "#")

pathname(u) == SubSeq(OrNone(u.path), 1, Before(OrNone(u.path), {"?", "#"}))

url_object(u) ==
  [protocol |-> u.protocol, hostname |-> u.host,
   port |-> IF URL_IS_VALID_PORT(u.port) THEN u.port ELSE -1, pathname |-> pathname(u),
   search |-> IF u.path = NULL THEN <<>> ELSE url_search(u),
   hash |-> IF u.path = NULL THEN <<>> ELSE url_hash(u)]

url_set_protocol(u, text) == [u EXCEPT !.protocol = protocol_string(protocol_number(text))]

\* Mutant: the query is lost.
url_set_path_len_alone(u, path) == [u EXCEPT !.path = path]

\* A path without a query keeps the one there was.
url_set_path_len(u, path) ==
  LET old == url_query(u)
  IN  [u EXCEPT !.path = IF Contains(path, "?") \/ old = NULL THEN path ELSE path \o <<"?">> \o old]

\* Mutant: the query there was is left before the new one.
url_set_query_len_adds(u, query) == [u EXCEPT !.path = OrNone(@) \o <<"?">> \o query]

url_set_query_len(u, query) ==
  LET path == OrNone(u.path)
  IN  [u EXCEPT !.path = SubSeq(path, 1, Before(path, {"?"})) \o <<"?">> \o query]

-----------------------------------------------------------------------------
(* Values of scripts *)

\* The host and the port are never missing.
url_init(protocol, host, port, path) ==
  LET p == IF protocol = NULL THEN "none" ELSE protocol_number(protocol)
  IN  URL(IF protocol = NULL THEN NULL ELSE protocol_string(p),
          IF host \in {NULL, <<>>} THEN <<"0.0.0.0">> ELSE host,
          IF URL_IS_VALID_PORT(port) THEN port ELSE protocol_default_port(p),
          OrNone(path))

url_fromobj(o) == url_init(o.protocol, o.hostname, o.port, o.pathname)

\* An object of class URL has all of the properties: null is read as a name, and
\* undefined as port 0; its search and hash are not read.
UrlAsObject(u) ==
  LET Null(text) == IF text = NULL THEN <<"null">> ELSE text
  IN  [protocol |-> Null(u.protocol), hostname |-> Null(u.host),
       port |-> IF URL_IS_VALID_PORT(u.port) THEN u.port ELSE 0, pathname |-> pathname(u)]

url_fromvalue(kind, value) == IF kind = "object" THEN url_fromobj(value) ELSE url_parse(value)

\* lws_urlencode() and lws_urldecode(): of the special pieces only "&" is used.
lws_urlencode(v) == IF v = "&" THEN "%26" ELSE v
lws_urldecode(v) == IF v = "%26" THEN "&" ELSE v

\* Nothing is written between two entries; NULL if there are none.
query_from(entries) ==
  IF entries = <<>> THEN NULL
  ELSE FlattenSeq([i \in DOMAIN entries |->
         <<entries[i].key, "=", lws_urlencode(entries[i].value)>>])

\* The entry of a part, if it has a "=".
query_entry(q) ==
  LET n == Before(q, {"="})
      value == From(q, n + 1)
  IN  IF n = Len(q) THEN <<>>
      ELSE <<[key |-> SubSeq(q, 1, n),
              value |-> [i \in DOMAIN value |-> lws_urldecode(value[i])]]>>

query_object_len(q) ==
  LET starts == {0} \cup {i \in DOMAIN q : q[i] = "&"}
      at == CHOOSE f \in [1 .. Cardinality(starts) -> starts] :
              \A i, j \in DOMAIN f : i < j => f[i] < f[j]
      part(x) == SubSeq(From(q, x), 1, Before(From(q, x), {"&"}))
  IN  FlattenSeq([i \in DOMAIN at |-> query_entry(part(at[i]))])

-----------------------------------------------------------------------------
(* Requests *)

method_names == {"GET", "POST", "OPTIONS", "PATCH", "PUT", "DELETE", "HEAD"}

request_init(u, method) ==
  [url |-> u, method |-> method,
   secure |-> u.protocol # NULL /\ protocol_is_tls(protocol_number(u.protocol)),
   body |-> method = "POST"]

request_new(u, method) == request_init(u, method)

url_valid(u) == u.host # NULL \/ u.path # NULL

\* A URL that is not valid is no Request.
request_from(kind, value) ==
  {request_new(u, "GET") : u \in {v \in {url_fromvalue(kind, value)} : url_valid(v)}}

\* What libwebsockets is asked to connect to.
url_info(u) ==
  LET p == IF u.protocol = NULL THEN "raw" ELSE protocol_number(u.protocol)
  IN  [protocol |-> CASE p \in {"http", "https"} -> "http"
                      [] p \in {"ws", "wss"} -> "ws"
                      [] OTHER -> "raw",
       port |-> u.port, address |-> u.host, ssl |-> protocol_is_tls(p),
       path |-> IF u.path = NULL THEN <<"/">> ELSE u.path]

\* What a server of libwebsockets receives of it; named is whether the client
\* puts the port into the Host header.
Received(info, method, named) ==
  LET n == Before(info.path, {"?"})
  IN  [method |-> method, protocol |-> info.protocol, tls |-> info.ssl,
       uri |-> SubSeq(info.path, 1, n), args |-> From(info.path, n + 1),
       host |-> info.address, hostport |-> IF named THEN info.port ELSE -1,
       vhost |-> <<"vhost">>, vport |-> info.port]

\* A header that is not there is a text too, an empty one: the first is taken.
wsi_uri_and_method(w) == IF w.method = "POST" THEN w.uri ELSE <<>>

wsi_query_string_len(w) == IF w.args = <<>> THEN NULL ELSE w.args

wsi_method(w) == w.method

wsi_host_and_port(w) == [host |-> w.host, port |-> w.hostport]

wsi_vhost_and_port(w) == [host |-> w.vhost, port |-> w.vport]

\* The virtual host's name replaces that of a Host header without a port.
url_fromwsi(w) ==
  LET header == wsi_host_and_port(w)
      at == IF URL_IS_VALID_PORT(header.port) THEN header ELSE wsi_vhost_and_port(w)
      plain == URL(NULL, at.host, at.port, wsi_uri_and_method(w))
      args == wsi_query_string_len(w)
      asked == IF url_query(plain) = NULL /\ args # NULL THEN url_set_query_len(plain, args) ELSE plain
      p == protocol_number(<<w.protocol>>)
      secure == [ws |-> "wss", http |-> "https", raw |-> "tls"]
  IN  [asked EXCEPT !.protocol =
         protocol_string(IF ~protocol_is_tls(p) /\ w.tls THEN secure[p] ELSE p)]

request_fromwsi(w) ==
  [request_new(url_fromwsi(w), wsi_method(w)) EXCEPT !.secure = w.tls]
=============================================================================
