-------------------------------- MODULE Url --------------------------------
(***************************************************************************)
(* A URL object that a script changes (src/minnet-url.c), the Request made *)
(* of it (lib/request.c), and the Request that a server makes of what it   *)
(* then receives (src/minnet-server-http.c, src/minnet-server-ws.c).       *)
(***************************************************************************)
EXTENDS UrlOps

CONSTANTS
  Protocols, \* texts before "://"
  Ports,     \* numbers as a text has them
  Methods,   \* of requests
  MaxSets    \* bound: properties the script sets

\* "NULL" stands for the pointer.
ASSUME ProtocolsAssumption == "NULL" \notin Protocols
ASSUME PortsAssumption == Ports \subseteq DOMAIN Numbers
ASSUME MethodsAssumption == Methods \subseteq method_names
ASSUME BoundsAssumption == MaxSets \in Nat

VARIABLES
  url,    \* the URL object
  req,    \* the client's Request, or nothing, and the method that is sent
  served, \* the server's, or nothing
  died,   \* whether a pointer that is NULL was read through
  last,   \* history: what was just set, and the value
  sets    \* how many properties were set

vars == <<url, req, served, died, last, sets>>

Nothing == [method |-> "none"]
NoSet == [op |-> "none", value |-> <<>>]

Hosts == {NULL, <<"h">>}
Paths == {NULL, <<"/">>, <<"/", "p">>, <<"/", "p", "?", "k", "=", "v">>, <<"/", "p", "#", "f">>,
          <<"/", "p", "?", "k", "=", "v", "#", "f">>}
Queries == {<<"a">>, <<"k", "=", "v", "&", "a", "=", "b">>, <<"k", "=", ":", "/", "/">>}
Values == {"v", "&"}

Begins == {<<>>} \cup {<<p, ":", "/", "/">> : p \in Protocols}
Numbered == {<<>>, <<":">>} \cup {<<":", n>> : n \in Ports}

Texts == {b \o OrNone(h) \o n \o OrNone(x) : b \in Begins, h \in Hosts, n \in Numbered, x \in Paths}

Objects ==
  {[protocol |-> p, hostname |-> h, port |-> n, pathname |-> x] :
     p \in {NULL} \cup {<<t>> : t \in Protocols}, h \in Hosts,
     n \in {-1} \cup {Numbers[t] : t \in Ports}, x \in {NULL, <<"/", "p">>}}

Entries ==
  {<<>>} \cup {<<[key |-> "k", value |-> v]>> : v \in Values}
    \cup {<<[key |-> "k", value |-> "v"], [key |-> "a", value |-> "b"]>>}

-----------------------------------------------------------------------------

Setting(op, value) ==
  /\ ~died /\ sets < MaxSets
  /\ sets' = sets + 1
  /\ last' = [op |-> op, value |-> value]
  /\ UNCHANGED <<req, served>>

SetProtocol(text) ==
  /\ Setting("protocol", text)
  /\ url' = IF text = NULL THEN [url EXCEPT !.protocol = NULL] ELSE url_set_protocol(url, text)
  /\ UNCHANGED died

SetHostname(text) ==
  /\ Setting("hostname", text)
  /\ url' = [url EXCEPT !.host = text]
  /\ UNCHANGED died

SetPort(n) ==
  /\ Setting("port", n)
  /\ url' = [url EXCEPT !.port = IF URL_IS_VALID_PORT(n) THEN n ELSE -1]
  /\ UNCHANGED died

\* Only a path with a query is set without looking for the old one.
SetPathname(path) ==
  /\ Setting("pathname", path)
  /\ died' = (url.path = NULL /\ ~Contains(path, "?"))
  /\ url' = IF died' THEN url ELSE url_set_path_len(url, path)

SetQuery(text) ==
  /\ Setting("query", text)
  /\ url' = url_set_query_len(url, text)
  /\ UNCHANGED died

SetQueryObject(entries) ==
  /\ Setting("entries", entries)
  /\ url' = IF query_from(entries) = NULL THEN url ELSE url_set_query_len(url, query_from(entries))
  /\ UNCHANGED died

\* null and undefined
SetQueryNull ==
  /\ Setting("noquery", <<>>)
  /\ died' = (url.path = NULL)
  /\ url' = IF died' THEN url ELSE [url EXCEPT !.path = SubSeq(@, 1, Before(@, {"?"}))]

minnet_url_set ==
  \/ \E text \in {NULL} \cup {<<p>> : p \in Protocols} : SetProtocol(text)
  \/ SetHostname(<<"g">>)
  \/ \E n \in {-1} \cup {Numbers[t] : t \in Ports} : SetPort(n)
  \/ \E path \in Paths \ {NULL} : SetPathname(path)
  \/ \E text \in Queries : SetQuery(text)
  \/ \E entries \in Entries : SetQueryObject(entries)
  \/ SetQueryNull

\* The properties a script reads, all but the query, the origin and the text.
minnet_url_get(u) ==
  [protocol |-> u.protocol, hostname |-> u.host, host |-> url_host(u),
   port |-> IF URL_IS_VALID_PORT(u.port) THEN u.port ELSE -1, pathname |-> pathname(u),
   tls |-> u.protocol # NULL /\ protocol_is_tls(protocol_number(u.protocol)),
   search |-> IF u.path = NULL THEN NULL ELSE url_search(u),
   hash |-> IF u.path = NULL THEN NULL ELSE url_hash(u)]

\* Only the query's getter asks for the query of a path that is NULL.
GetQuery ==
  /\ ~died /\ url.path = NULL /\ died' = TRUE
  /\ last' = NoSet
  /\ UNCHANGED <<url, req, served, sets>>

\* client(url, {method}): what is given is the text or the object.  Without a Request
\* it throws.  The method is that of the connection only.
minnet_client(kind, method) ==
  /\ ~died /\ req = Nothing
  /\ \E r \in request_from(kind, IF kind = "object" THEN UrlAsObject(url) ELSE url_format(url)) :
       req' = [request |-> r,
               sent |-> IF url_info(r.url).protocol = "http" THEN method ELSE "GET"]
  /\ last' = NoSet
  /\ UNCHANGED <<url, served, died, sets>>

\* libwebsockets connects to a host and a port, and sends paths that begin with "/".
Reaches(info) ==
  /\ info.protocol \in {"http", "ws"} /\ info.address # NULL
  /\ URL_IS_VALID_PORT(info.port) /\ info.port # 0
  /\ info.path # <<>> /\ info.path[1] = "/"

\* The filter puts the path that libwebsockets gives before the query.
FilterHttpConnection(w) ==
  LET r == request_fromwsi(w)
      u == url_set_path_len(r.url, w.uri)
  IN  [r EXCEPT !.url = url_set_protocol(u, IF w.tls THEN <<"https">> ELSE <<"http">>)]

\* Nothing does so for a WebSocket.
ConfirmUpgrade(w) == [request_new(url_fromwsi(w), "GET") EXCEPT !.secure = w.tls]

Serve(named) ==
  /\ req # Nothing /\ served = Nothing
  /\ LET info == url_info(req.request.url)
         w == Received(info, req.sent, named)
     IN  /\ Reaches(info)
         /\ served' = IF w.protocol = "http" THEN FilterHttpConnection(w) ELSE ConfirmUpgrade(w)
  /\ last' = NoSet
  /\ UNCHANGED <<url, req, died, sets>>

-----------------------------------------------------------------------------

\* The constructor reads texts; URL.from() objects, too.
Init ==
  /\ \/ \E text \in Texts : url = url_fromvalue("string", text)
     \/ \E o \in Objects : url = url_fromvalue("object", o)
  /\ req = Nothing /\ served = Nothing /\ died = FALSE
  /\ last = NoSet /\ sets = 0

Next ==
  \/ minnet_url_set
  \/ GetQuery
  \/ \E kind \in {"string", "object"}, method \in Methods : minnet_client(kind, method)
  \/ \E named \in BOOLEAN : Serve(named)

Spec == Init /\ [][Next]_vars

-----------------------------------------------------------------------------

\* A URL that a text can say: with a host, a path that begins with "/" and, unless
\* there is a protocol, no "://" in its query.
Sayable(u) ==
  /\ u.host # NULL
  /\ u.path \notin {NULL, <<>>} => u.path[1] = "/"
  /\ u.protocol = NULL =>
       \A i \in 1 .. Len(OrNone(u.path)) - 2 : SubSeq(u.path, i, i + 2) # <<":", "/", "/">>

\* The port that is connected to.
Own(u) ==
  [u EXCEPT !.port = IF @ < 0 /\ u.protocol # NULL
                     THEN protocol_default_port(protocol_number(u.protocol)) ELSE @]

\* Whatever a script set, and in whatever order, the text of a URL says all of its
\* parts: read again (url_parse) it is the same protocol, host, port, path, query
\* and hash.  So does the text that is logged, if the port is not 0 (url_format,
\* url_print).
TextSaysAll ==
  Sayable(url) =>
    LET shown(u) == [Own(u) EXCEPT !.path = OrNone(@)]
        same(v) == /\ minnet_url_get(shown(v)) = minnet_url_get(shown(url))
                   /\ url_object(shown(v)) = url_object(shown(url))
    IN  /\ same(url_parse(url_format(url)))
        /\ url.port # 0 => same(url_parse(url_print(url)))

BeforeQuery(path) == SubSeq(path, 1, Before(path, {"?"}))

\* The hash of a path, by what stands before its query: a hash before the query has
\* the query in it, and one behind is part of the query.
HashOf(before, query) ==
  IF Contains(before, "#")
  THEN start_from(before, "#") \o (IF query = NULL THEN <<>> ELSE <<"?">> \o query)
  ELSE start_from(OrNone(query), "#")

\* To set the path keeps the query unless it has its own, to set or remove the query
\* keeps the pathname, each is then what was set, and protocol, host and port stay
\* (url_set_path_len, url_set_query_len, minnet_url_set).  The hash has no setter and
\* goes with what it stands behind: one behind the query is kept with the query, and
\* replaced or removed with it; one before the query stays when the query is set or
\* removed, and takes in the new query.  An object of one entry is read back; two are
\* not, for nothing is written between them (query_from).
PartWasSet ==
  /\ last'.op \in {"pathname", "query", "entries", "noquery"} =>
       /\ [url' EXCEPT !.path = NULL] = [url EXCEPT !.path = NULL]
       /\ url'.path # NULL =>
            url_hash(url') =
              HashOf(BeforeQuery(IF last'.op = "pathname" THEN last'.value ELSE OrNone(url.path)),
                     url_query(url'))
  /\ last'.op = "pathname" /\ ~died' =>
       /\ pathname(url') = pathname([url EXCEPT !.path = last'.value])
       /\ url_query(url') = IF Contains(last'.value, "?")
                            THEN url_query([url EXCEPT !.path = last'.value])
                            ELSE url_query(url)
  /\ last'.op \in {"query", "entries", "noquery"} => pathname(url') = pathname(url)
  /\ last'.op = "query" => url_query(url') = last'.value
  /\ last'.op = "noquery" => url_query(url') = NULL
  /\ last'.op = "entries" /\ Len(last'.value) = 1 =>
       query_object_len(url_query(url')) =
         <<[key |-> <<last'.value[1].key>>, value |-> <<last'.value[1].value>>]>>

OnlyItsPart == [][PartWasSet]_vars

\* A server's Request says what the client asked for: the method that was sent, the
\* protocol, that it is secure, the port and, over HTTP, path and query, though they
\* come from four places (url_fromwsi) and the path twice.  A WebSocket's Request has a query only:
\* the first of the tokens that could hold the path is always taken
\* (wsi_uri_and_method).
ServedAsAsked ==
  served # Nothing =>
    LET asked == url_info(req.request.url)
    IN  /\ served.method = req.sent
        /\ served.secure = asked.ssl
        /\ served.url.port = asked.port
        /\ protocol_number(served.url.protocol) = protocol_number(req.request.url.protocol)
        /\ asked.protocol = "http" => served.url.path = asked.path
=============================================================================
