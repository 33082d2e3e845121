------------------------------ MODULE EventLoop ------------------------------
(***************************************************************************)
(* Connections in the event loop of the script, and the objects that stand *)
(* for them.  libwebsockets tells of the descriptors it waits for          *)
(* (wsi_handle_poll, src/minnet.c); the default on.fd gives them to        *)
(* os.setReadHandler() and os.setWriteHandler(), and the loop of QuickJS   *)
(* calls the function it was given, which has libwebsockets serve the      *)
(* descriptor.  opaque.c and ws.c keep what a connection and the script's  *)
(* socket objects share, and count the references.                         *)
(***************************************************************************)
EXTENDS SequencesExt, FiniteSets

CONSTANTS
  Wsis,      \* connections of libwebsockets, those that listen included
  Fds,       \* descriptors; one that is closed is used again
  None,      \* no connection, and null of the script
  MaxWraps   \* bound: socket objects made of one socket

ASSUME ConstantsAssumption == None \notin Wsis \cup Fds /\ MaxWraps \in Nat

Events == {"IN", "OUT"}

VARIABLES
  wsi,         \* the connections, with their opaque data and their socket
  opaque_list, \* the connections whose opaque data is listed, newest first
  handlers,    \* the functions the loop has for each descriptor
  ready,       \* what the kernel has ready on each descriptor
  onfd,        \* whether on.fd has a function
  served       \* the last call of lws_service_fd: what was waited for, ready, told

vars == <<wsi, opaque_list, handlers, ready, onfd, served>>

\* refs is the count of the socket, wraps the objects of the script that have it,
\* points whether opaque->ws is that socket, lwsi whether it knows its connection.
wsi_none ==
  [state |-> "none", fd |-> None, events |-> {}, opaque |-> FALSE,
   ws |-> FALSE, refs |-> 0, wraps |-> 0, points |-> FALSE, lwsi |-> FALSE]

NoHandler == [wsi |-> None, awaited |-> {}]

-----------------------------------------------------------------------------
(* opaque.c and ws.c *)

\* The data of a connection is made once.
lws_opaque(list, w) == IF wsi[w].opaque THEN list ELSE <<w>> \o list

\* With a reference for opaque->ws and one for a first object; the objects made of
\* it by minnet_ws_wrap have their own.
ws_new(r) == [r EXCEPT !.ws = TRUE, !.refs = 2, !.points = TRUE, !.lwsi = TRUE]

\* One reference less.  Without any the socket takes the opaque data with it.
ws_free(r) ==
  LET left == r.refs - 1
      last == left = 0
  IN  [r EXCEPT !.refs = left, !.ws = ~last, !.lwsi = @ /\ ~last,
                !.opaque = IF last /\ r.lwsi THEN FALSE ELSE @,
                !.points = IF last /\ r.lwsi THEN FALSE ELSE @]

\* The data is cleared, which frees its socket, and is not listed any more.
opaque_free(r) ==
  [(IF r.points THEN ws_free([r EXCEPT !.points = FALSE]) ELSE r) EXCEPT !.opaque = FALSE]

Unlisted(list, r, w) == IF r.opaque THEN list ELSE RemoveFirst(list, w)

-----------------------------------------------------------------------------
(* wsi_handle_poll *)

\* Mutant: only the events that are new get functions.
minnet_io_handlers_new(w, events) ==
  [e \in Events |-> IF e \in events \ wsi[w].events
                    THEN [wsi |-> w, awaited |-> events] ELSE NoHandler]

\* One function, which knows the events, for each of the events waited for.
minnet_io_handlers(w, events) ==
  [e \in Events |-> IF e \in events THEN [wsi |-> w, awaited |-> events] ELSE NoHandler]

\* on.fd is called; the default one sets the loop's functions.
wsi_iohandler(w, fd, events) ==
  handlers' = IF onfd THEN [handlers EXCEPT ![fd] = minnet_io_handlers(w, events)]
              ELSE handlers

\* A function is made if there is an event for it, and needs the opaque data.
minnet_io_handler(events) == onfd /\ events # {}

\* LWS_CALLBACK_ADD_POLL_FD.
Add(w, fd, events) ==
  /\ wsi[w].state \in {"none", "created"} /\ \A x \in Wsis : wsi[x].fd # fd
  /\ wsi_iohandler(w, fd, events)
  /\ opaque_list' = IF minnet_io_handler(events) THEN lws_opaque(opaque_list, w) ELSE opaque_list
  /\ wsi' = [wsi EXCEPT ![w] = [wsi[w] EXCEPT !.state = "open", !.fd = fd, !.events = events,
                                              !.opaque = @ \/ minnet_io_handler(events)]]
  /\ UNCHANGED <<ready, onfd, served>>

\* LWS_CALLBACK_CHANGE_MODE_POLL_FD.
Change(w, events) ==
  /\ wsi[w].state = "open" /\ events # wsi[w].events
  /\ wsi_iohandler(w, wsi[w].fd, events)
  /\ opaque_list' = IF minnet_io_handler(events) THEN lws_opaque(opaque_list, w) ELSE opaque_list
  /\ wsi' = [wsi EXCEPT ![w] = [wsi[w] EXCEPT !.events = events,
                                              !.opaque = @ \/ minnet_io_handler(events)]]
  /\ UNCHANGED <<ready, onfd, served>>

\* LWS_CALLBACK_DEL_POLL_FD, with no events; then the descriptor is closed.
Delete(w) ==
  /\ wsi[w].state = "open"
  /\ wsi_iohandler(w, wsi[w].fd, {})
  /\ wsi' = [wsi EXCEPT ![w] = [wsi[w] EXCEPT !.state = "deleted", !.events = {}, !.fd = None]]
  /\ ready' = [ready EXCEPT ![wsi[w].fd] = {}]
  /\ UNCHANGED <<opaque_list, onfd, served>>

\* A client's onfd = null.
SetOnfd ==
  /\ onfd /\ onfd' = FALSE
  /\ UNCHANGED <<wsi, opaque_list, handlers, ready, served>>

-----------------------------------------------------------------------------
(* The loop *)

\* Bytes come, or there is room for more.
Ready(fd, event) ==
  /\ \E w \in Wsis : wsi[w].fd = fd
  /\ event \notin ready[fd]
  /\ ready' = [ready EXCEPT ![fd] = @ \cup {event}]
  /\ UNCHANGED <<wsi, opaque_list, handlers, onfd, served>>

\* What libwebsockets is told: when the loop's event is not all that is waited for,
\* poll() says what is ready.
lws_iohandler(awaited, event, fd) ==
  IF {event} = awaited THEN awaited ELSE ready[fd] \cap awaited

\* The loop calls the first function it has for a ready descriptor, the one that
\* reads before the one that writes.  Being served, libwebsockets reads and writes.
\* (Once on.fd is gone the function may be of a connection that is: not modelled.)
Turn(fd, event) ==
  LET h == handlers[fd][event]
      told == lws_iohandler(h.awaited, event, fd)
  IN  /\ h # NoHandler /\ wsi[h.wsi].fd = fd /\ event \in ready[fd]
      /\ event = "OUT" => "IN" \notin ready[fd] \/ handlers[fd].IN = NoHandler
      /\ served' = [awaited |-> h.awaited, ready |-> ready[fd], told |-> told]
      /\ ready' = [ready EXCEPT ![fd] = @ \ told]
      /\ UNCHANGED <<wsi, opaque_list, handlers, onfd>>

-----------------------------------------------------------------------------
(* The objects *)

\* LWS_CALLBACK_WSI_CREATE, or LWS_CALLBACK_SERVER_NEW_CLIENT_INSTANTIATED of a
\* connection that has data, of ws_server_callback.
Create(w) ==
  /\ wsi[w].state \in {"none", "open"} /\ ~wsi[w].ws
  /\ opaque_list' = lws_opaque(opaque_list, w)
  /\ wsi' = [wsi EXCEPT ![w] =
               [ws_new(wsi[w]) EXCEPT !.state = IF @ = "none" THEN "created" ELSE @,
                                      !.opaque = TRUE]]
  /\ UNCHANGED <<handlers, ready, onfd, served>>

\* Mutant: the object has the socket's first reference.
minnet_ws_wrap_plain(r) == [r EXCEPT !.wraps = @ + 1]

minnet_ws_wrap(r) == [r EXCEPT !.wraps = @ + 1, !.refs = @ + 1]

\* A callback gives the script an object.
Wrap(w) ==
  /\ wsi[w].points /\ wsi[w].wraps < MaxWraps
  /\ wsi' = [wsi EXCEPT ![w] = minnet_ws_wrap(wsi[w])]
  /\ UNCHANGED <<opaque_list, handlers, ready, onfd, served>>

\* minnet_ws_finalizer.
Finalize(w) ==
  /\ wsi[w].wraps > 0
  /\ LET r == ws_free([wsi[w] EXCEPT !.wraps = @ - 1])
     IN  /\ wsi' = [wsi EXCEPT ![w] = r]
         /\ opaque_list' = Unlisted(opaque_list, r, w)
  /\ UNCHANGED <<handlers, ready, onfd, served>>

\* LWS_CALLBACK_WSI_DESTROY of ws_server_callback.
Destroy(w) ==
  /\ wsi[w].state \in {"created", "deleted"} /\ wsi[w].opaque
  /\ LET r == opaque_free([wsi[w] EXCEPT !.lwsi = FALSE])
     IN  /\ wsi' = [wsi EXCEPT ![w] = [r EXCEPT !.state = "destroyed"]]
         /\ opaque_list' = Unlisted(opaque_list, r, w)
  /\ UNCHANGED <<handlers, ready, onfd, served>>

\* getSessions() of the script: the oldest first.
minnet_get_sessions == Reverse(opaque_list)

-----------------------------------------------------------------------------

Init ==
  /\ wsi = [w \in Wsis |-> wsi_none]
  /\ opaque_list = <<>>
  /\ handlers = [fd \in Fds |-> [e \in Events |-> NoHandler]]
  /\ ready = [fd \in Fds |-> {}]
  /\ onfd = TRUE
  /\ served = [awaited |-> {}, ready |-> {}, told |-> {}]

Next ==
  \/ \E w \in Wsis :
       \/ \E fd \in Fds, events \in SUBSET Events : Add(w, fd, events)
       \/ \E events \in SUBSET Events : Change(w, events)
       \/ Delete(w)
       \/ Create(w)
       \/ Wrap(w)
       \/ Finalize(w)
       \/ Destroy(w)
  \/ SetOnfd
  \/ \E fd \in Fds, event \in Events : Ready(fd, event) \/ Turn(fd, event)

Spec == Init /\ [][Next]_vars

-----------------------------------------------------------------------------
(* Properties *)

\* While on.fd is there, the functions of a descriptor are those of the connection
\* that has it now, for the events it waits for now: none is left from before a
\* change, or from a connection that had the descriptor (wsi_handle_poll).  So
\* libwebsockets is told of all that is ready and awaited, though the loop calls
\* the function of one event only (lws_iohandler).
HandlersFollow ==
  /\ onfd => \A fd \in Fds, e \in Events :
       LET users == {w \in Wsis : wsi[w].fd = fd /\ e \in wsi[w].events}
       IN  IF users = {} THEN handlers[fd][e] = NoHandler
           ELSE \E w \in users : handlers[fd][e] = [wsi |-> w, awaited |-> wsi[w].events]
  /\ served.told = served.awaited \cap served.ready

\* A socket is there while its opaque data or an object of the script has it, and
\* getSessions() lists each connection that has data once (ws_free, opaque_free).
SocketsKept ==
  /\ \A w \in Wsis : wsi[w].wraps > 0 \/ wsi[w].points => wsi[w].ws /\ wsi[w].refs > 0
  /\ ToSet(minnet_get_sessions) = {w \in Wsis : wsi[w].opaque}
  /\ IsInjective(minnet_get_sessions)
=============================================================================
