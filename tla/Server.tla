-------------------------------- MODULE Server --------------------------------
(***************************************************************************)
(* A server object: how src/minnet-server.c makes it, lets it listen and   *)
(* keeps libwebsockets serviced by a timer, how handlers are chained by    *)
(* get(), post(), use() and onrequest and directories and functions are    *)
(* mounted, and how http_server_callback of src/minnet-server-http.c finds *)
(* the mount of a request and then calls the chain.                        *)
(*                                                                         *)
(* libwebsockets finds the mount that decides which part of the path the   *)
(* callback is given, and may bind the connection to a protocol again      *)
(* between the filter and the request, which starts the session anew.  How *)
(* the mount's handler responds is the module HttpServer.                  *)
(***************************************************************************)
EXTENDS MountOps

CONSTANTS
  Names,        \* the mountpoints' names
  Paths,        \* the paths of requests
  Origins,      \* of "function", "file", "http", "https"
  Methods,      \* of "GET", "POST"
  Patterns,     \* the paths handlers are registered for; <<>> is any path
  MaxSetup,     \* bound: mounts, handlers and listen() calls together
  MaxListens,   \* bound: listen() calls
  MaxMounts,    \* bound: mounts
  MaxHandlers   \* bound: handlers

ASSUME ConstantsAssumption ==
  /\ Origins \subseteq {"function", "file", "http", "https"}
  /\ Methods \subseteq {"GET", "POST"}
  /\ Names \cup Paths \subseteq Seq(STRING)
  /\ {MaxSetup, MaxListens, MaxMounts, MaxHandlers} \subseteq Nat

VARIABLES
  server, \* the MinnetServer, see server_new
  chain,  \* every ServerMatchClosure made, in the order of registration
  timers, \* the TimerClosures: how often each is waiting in the event loop
  req     \* the request being served, see NoRequest

vars == <<server, chain, timers, req>>

AnyPath == <<>>
NotFoundPage == <<Slash, "404.html">>
Outcomes == {"undefined", "one", "throw"}  \* what a handler gives, "one" for true
NoMatch == [path |-> AnyPath, method |-> "any", next |-> FALSE, given |-> FALSE]

\* The fields of the MinnetServer the program depends on: `http' is on.http, with
\* the value func_obj had before anything was chained to it in `base' and the
\* closures chained to it in `ids', and `valid' for its ctx; `lws' says whether
\* context.lws is set, `timer' is the index of context.timer.  Beyond the fields:
\* listens counts the calls of server_listen, pending says that an exception is
\* pending, crashed that libwebsockets was called without a context.
server_new ==
  [made |-> "none", listening |-> FALSE, lws |-> FALSE, timer |-> 0,
   listens |-> 0, pending |-> FALSE, crashed |-> FALSE, mounts |-> <<>>,
   http |-> [base |-> "none", ids |-> <<>>, valid |-> FALSE]]

\* phase is "idle", "filtered", "bound", "chained" or "done"; mount is the
\* session's, rest the part of the path the callback is given, whether it
\* was redirected and the mount whose handler was called, 0 for none; ids and base
\* are the chain that is called, `at' how much of it was, `ret' what the last
\* call returned, ran the handlers called; known and mounted, how many closures
\* and mounts there were when they were looked at.
NoRequest ==
  [phase |-> "idle", path |-> <<>>, method |-> "GET", mount |-> 0, rebound |-> FALSE,
   rest |-> <<>>, redirected |-> FALSE, called |-> 0, base |-> "none", ids |-> <<>>,
   known |-> 0, mounted |-> 0, at |-> 0, ret |-> "undefined", ran |-> <<>>]

-----------------------------------------------------------------------------
(* Making the server, and its timer *)

js_timer_interval(t) == Append(t, 1)

js_timer_restart(t, i) == [t EXCEPT ![i] = IF @ = 0 THEN 1 ELSE @]

\* Mutant: the handler's result is not looked at.
js_timer_callback_always(t, i, result) == [t EXCEPT ![i] = @ + 1]

\* The handler of a timer has returned: unless FALSE, it is started again.
js_timer_callback(t, i, result) == IF result THEN [t EXCEPT ![i] = @ + 1] ELSE t

\* Timer i, which waits no more, calls minnet_server_timeout: libwebsockets is
\* serviced until it has nothing to do at once, and the server's timer, which
\* need not be the one that fired, is started.
minnet_server_timeout(t, s, i) ==
  js_timer_callback(js_timer_restart([t EXCEPT ![i] = @ - 1], s.timer), i, FALSE)

\* server_listen: outcome is "ok", or what fails, "context" or "vhost".
server_listen(s, t, outcome) ==
  LET c == [s EXCEPT !.lws = outcome # "context", !.listens = @ + 1,
                     !.pending = outcome # "ok"]
  IN  IF outcome # "ok" THEN [s |-> c, t |-> t]
      ELSE [s |-> [c EXCEPT !.timer = Len(t) + 1, !.listening = TRUE],
            t |-> js_timer_interval(t)]

\* minnet_server_closure with its options, and minnet_server, which wraps the
\* server whatever the closure gave: an error stays pending, and the object is
\* returned.
minnet_server_closure(options, port, onRequest, list, outcome) ==
  LET s == [server_new EXCEPT !.made = "made", !.mounts = server_mounts(list),
              !.http = [base |-> IF onRequest THEN "plain" ELSE "none",
                        ids |-> <<>>, valid |-> onRequest]]
  IN  CASE ~options -> [s |-> [server_new EXCEPT !.made = "made", !.pending = TRUE],
                        t |-> <<>>]
        [] options /\ port -> server_listen(s, <<>>, outcome)
        [] options /\ ~port -> [s |-> s, t |-> <<>>]

Setup == Len(server.mounts) + Len(chain) + server.listens

\* A script runs: between the events, or the handler last called.
Scripted == req.phase = "chained" => req.ran # <<>>

\* createServer(options).
Construct(options, port, onRequest, list, outcome) ==
  /\ server.made = "none"
  /\ Len(list) + (IF port THEN 1 ELSE 0) <= MaxSetup
  /\ LET r == minnet_server_closure(options, port, onRequest, list, outcome)
     IN  server' = r.s /\ timers' = r.t
  /\ UNCHANGED <<chain, req>>

\* server.listen(): it may be called again.
Listen(outcome) ==
  /\ server.made = "made" /\ server.listens < MaxListens /\ Setup < MaxSetup
  /\ Scripted
  /\ LET l == server_listen(server, timers, outcome)
     IN  server' = l.s /\ timers' = l.t
  /\ UNCHANGED <<chain, req>>

\* The event loop calls a timer that is waiting.
TimerFires ==
  \E i \in DOMAIN timers :
    /\ timers[i] > 0 /\ req.phase # "chained" /\ ~server.crashed
    /\ timers' = minnet_server_timeout(timers, server, i)
    /\ server' = [server EXCEPT !.crashed = ~server.lws]
    /\ UNCHANGED <<chain, req>>

-----------------------------------------------------------------------------
(* Handlers and mounts *)

server_match_all(c) == c.path = AnyPath /\ c.method = "any"

\* request_match.
request_match(r, c) == c.path \in {AnyPath, r.path} /\ c.method \in {"any", r.method}

MayRegister == server.made = "made" /\ Setup < MaxSetup /\ Scripted

\* Mutant: the function is called before what onrequest was.
server_match_before(ids, id) == <<id>> \o ids

\* server_match: onrequest's last value is kept as the one to call first.
server_match(ids, id) == Append(ids, id)

\* get(), post() and use(): a closure that calls what onrequest was, then fn.
Register(path, method) ==
  /\ MayRegister /\ Len(chain) < MaxHandlers
  /\ chain' = Append(chain, [NoMatch EXCEPT !.path = path, !.method = method])
  /\ server' = [server EXCEPT !.http.ids = server_match(@, Len(chain) + 1),
                              !.http.valid = TRUE]
  /\ UNCHANGED <<timers, req>>

\* onrequest = value: a function, something else, or what onrequest was before
\* the last handlers were registered.
SetOnrequest(value, keep) ==
  /\ server.made = "made" /\ Scripted
  /\ keep <= Len(server.http.ids) /\ (value # "before" => keep = 0)
  /\ server' = [server EXCEPT !.http =
       IF value = "before" /\ (keep > 0 \/ @.base = "plain")
       THEN [@ EXCEPT !.ids = SubSeq(server.http.ids, 1, keep), !.valid = TRUE]
       ELSE [base |-> IF value = "before" THEN @.base ELSE value,
             ids |-> <<>>, valid |-> value = "plain"]]
  /\ UNCHANGED <<chain, timers, req>>

\* mount(object): appended to the list.
Mount(o) ==
  /\ MayRegister /\ Len(server.mounts) < MaxMounts
  /\ server' = [server EXCEPT !.mounts = Append(@, mount_fromobj(o))]
  /\ UNCHANGED <<chain, timers, req>>

-----------------------------------------------------------------------------
(* A request *)

\* The mount libwebsockets finds for a path: the longest it is under.
Hit(mounts, path) ==
  LET hits == {i \in DOMAIN mounts :
                 Under(mounts[i].mnt, path) \/ mounts[i].mnt = <<Slash>>}
  IN  IF hits = {} THEN 0
      ELSE CHOOSE i \in hits : \A k \in hits : Len(mounts[k].mnt) <= Len(mounts[i].mnt)

Rest(mounts, path) ==
  LET i == Hit(mounts, path)
  IN  IF i = 0 THEN path ELSE SubSeq(path, Len(mounts[i].mnt) + 1, Len(path))

\* LWS_CALLBACK_FILTER_HTTP_CONNECTION.
Filter(path, method) ==
  /\ server.listening /\ server.lws /\ ~server.crashed /\ req.phase \in {"idle", "done"}
  /\ req' = [NoRequest EXCEPT !.phase = "filtered", !.path = path, !.method = method,
               !.mount = mount_find(server.mounts, path, Len(path)),
               !.mounted = Len(server.mounts), !.rest = Rest(server.mounts, path)]
  /\ UNCHANGED <<server, chain, timers>>

\* LWS_CALLBACK_HTTP_BIND_PROTOCOL: session_init.
Bind ==
  /\ req.phase = "filtered"
  /\ req' = [req EXCEPT !.phase = "bound", !.rebound = TRUE, !.mount = 0]
  /\ UNCHANGED <<server, chain, timers>>

\* The mount of the session, or else the last handler the rest of the path
\* begins with, or else what fits the part before the rest, or the path.
SessionMount(s, r) ==
  LET before == Len(r.path) - Len(r.rest)
      tries == <<r.mount, mount_find(s.mounts, r.rest, 0),
                 mount_find(s.mounts, r.path, before), mount_find(s.mounts, r.path, 0)>>
      found == {k \in 1..4 : tries[k] # 0}
  IN  IF found = {} THEN 0 ELSE tries[Min(found)]

\* Without a file's name in the path a file mount redirects to its index.
Redirects(s, r, i) == i # 0 /\ s.mounts[i].protocol = "file"
                      /\ r.rest = <<>> /\ s.mounts[i].def

\* The mount whose handler is called: the one found, or for a file, which was not
\* found, that of the page for it.
Handling(s, r, i) ==
  LET k == IF i # 0 /\ s.mounts[i].protocol = "file" /\ ~Redirects(s, r, i)
           THEN mount_find_s(s.mounts, NotFoundPage) ELSE i
  IN  IF k # 0 /\ s.mounts[k].callback THEN k ELSE 0

\* LWS_CALLBACK_HTTP: the mount's answer, then on.http is called.  A request that
\* libwebsockets passes to another server does not come here.
Http ==
  /\ req.phase \in {"filtered", "bound"}
  /\ LET h == Hit(server.mounts, req.path)
     IN  h # 0 => ~mount_is_proxy(server.mounts[h])
  /\ LET i == SessionMount(server, req)
         r == [req EXCEPT !.mount = i, !.redirected = Redirects(server, req, i),
                            !.called = Handling(server, req, i)]
     IN  req' = IF server.http.valid
                THEN [r EXCEPT !.phase = "chained", !.base = server.http.base,
                               !.ids = server.http.ids, !.known = Len(chain)]
                ELSE [r EXCEPT !.phase = "done"]
  /\ UNCHANGED <<server, chain, timers>>

\* The function that onrequest was before: its closures call it first, and so
\* does the server when there are none.  Something else cannot be called.
CallBase(outcome) ==
  /\ req.phase = "chained" /\ req.at = 0 /\ req.base # "none"
  /\ req' = [req EXCEPT !.base = "none",
                        !.ret = IF req.base = "plain" THEN outcome ELSE "throw"]
  /\ UNCHANGED <<server, chain, timers>>

\* Mutant: the next closure calls its function whatever the last one returned.
minnet_server_match_deaf(r, c, outcome, calls) ==
  IF ~request_match(r, c) THEN [c |-> c, ret |-> r.ret, called |-> FALSE]
  ELSE LET d == IF server_match_all(c) THEN [c EXCEPT !.given = TRUE, !.next = @ \/ calls]
                                       ELSE c
       IN  [c |-> d, called |-> TRUE,
            ret |-> IF server_match_all(c) /\ ~d.next THEN "one" ELSE outcome]

\* minnet_server_match after its call of prev_cb returned r.ret: unless that was
\* one, the function is called if the request matches, a function for every
\* request with next(), which it calls or not; that it did is never forgotten.
minnet_server_match(r, c, outcome, calls) ==
  IF r.ret = "one" \/ ~request_match(r, c)
  THEN [c |-> c, ret |-> r.ret, called |-> FALSE]
  ELSE LET d == IF server_match_all(c) THEN [c EXCEPT !.given = TRUE, !.next = @ \/ calls]
                                       ELSE c
       IN  [c |-> d, called |-> TRUE,
            ret |-> IF server_match_all(c) /\ ~d.next THEN "one" ELSE outcome]

\* The next closure of the chain, the first registered first.
CallHandler(outcome, calls) ==
  /\ req.phase = "chained" /\ req.base = "none" /\ req.at < Len(req.ids)
  /\ LET id == req.ids[req.at + 1]
         m == minnet_server_match(req, chain[id], outcome, calls)
     IN  /\ chain' = [chain EXCEPT ![id] = m.c]
         /\ req' = [req EXCEPT !.at = @ + 1, !.ret = m.ret,
                               !.ran = IF m.called THEN Append(@, id) ELSE @]
  /\ UNCHANGED <<server, timers>>

\* The chain's value is not used.
Finish ==
  /\ req.phase = "chained" /\ req.base = "none" /\ req.at = Len(req.ids)
  /\ req' = [req EXCEPT !.phase = "done"]
  /\ UNCHANGED <<server, chain, timers>>

\* A handler calls the next() it was given, some time later.
NextLater ==
  \E id \in DOMAIN chain :
    /\ chain[id].given /\ ~chain[id].next /\ Scripted
    /\ chain' = [chain EXCEPT ![id].next = TRUE]
    /\ UNCHANGED <<server, timers, req>>

-----------------------------------------------------------------------------

Init == server = server_new /\ chain = <<>> /\ timers = <<>> /\ req = NoRequest

Making ==
  \/ Construct(FALSE, FALSE, FALSE, <<>>, "ok")
  \/ \E list \in UNION {[1..n -> Mountables(Names, Origins)] : n \in 0..MaxMounts},
        port, onRequest \in BOOLEAN, outcome \in {"ok", "context", "vhost"} :
       Construct(TRUE, port, onRequest, list, outcome)

Registering ==
  \/ \E path \in Patterns, method \in Methods \cup {"any"} : Register(path, method)
  \/ \E value \in {"before", "plain", "other"}, keep \in 0..MaxHandlers :
       SetOnrequest(value, keep)
  \/ \E o \in Mountables(Names, Origins) : Mount(o)

Serving ==
  \/ \E path \in Paths, method \in Methods : Filter(path, method)
  \/ Bind
  \/ Http
  \/ \E outcome \in Outcomes : CallBase(outcome)
  \/ \E outcome \in Outcomes, calls \in BOOLEAN : CallHandler(outcome, calls)
  \/ Finish

Next ==
  \/ Making
  \/ \E outcome \in {"ok", "context", "vhost"} : Listen(outcome)
  \/ TimerFires
  \/ Registering
  \/ Serving
  \/ NextLater

Spec == Init /\ [][Next]_vars

-----------------------------------------------------------------------------
(* Properties *)

\* The timer of minnet_server_timeout is never lost and never doubled: a server
\* that listens has its own timer waiting once, and one that another listen()
\* replaced waits at most once more (js_timer_callback, js_timer_restart).
TimerOnce ==
  /\ server.listening => timers[server.timer] = 1
  /\ \A i \in DOMAIN timers : timers[i] <= 1

\* The handlers of a request are called in the order of their registration, each
\* at most once, and only those that match it and were registered before it came
\* (minnet_server_match, request_match).
HandlersInOrder ==
  /\ \A i, j \in DOMAIN req.ran : i < j => req.ran[i] < req.ran[j]
  /\ \A i \in DOMAIN req.ran :
       req.ran[i] <= req.known /\ request_match(req, chain[req.ran[i]])

\* After a handler for every request that has never called its next(), no other
\* handler of the chain is called (minnet_server_match).
GateHolds ==
  \A i \in DOMAIN req.ran : server_match_all(chain[req.ran[i]]) =>
    i = Len(req.ran) \/ chain[req.ran[i]].next

\* Where a mountpoint never comes after a longer one it is the beginning of, a
\* request is answered by the longest mountpoint its path begins with, or by
\* the page for what was not found (mount_find, mount_find_s), provided the
\* session of the filter is still that of the request.
GeneralFirst(mounts) ==
  \A i, j \in DOMAIN mounts :
    i < j /\ IsPrefix(mounts[j].mnt, mounts[i].mnt) => mounts[i].mnt = mounts[j].mnt

MostSpecific ==
  req.phase \in {"chained", "done"} /\ ~req.rebound /\ GeneralFirst(server.mounts) =>
    \A j \in 1..req.mounted : IsPrefix(server.mounts[j].mnt, req.path) =>
      /\ req.mount # 0 /\ IsPrefix(server.mounts[req.mount].mnt, req.path)
      /\ Len(server.mounts[j].mnt) <= Len(server.mounts[req.mount].mnt)
      /\ server.mounts[req.mount].protocol = "callback" => req.called = req.mount
=============================================================================
