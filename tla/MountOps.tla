------------------------------- MODULE MountOps -------------------------------
(***************************************************************************)
(* The mounts of a server: mount_new, mount_fromobj and the two lookups of *)
(* src/minnet-server-http.c, and server_mounts of src/minnet-server.c.  A  *)
(* path is the sequence of its pieces, of which "/" and "?" are two.       *)
(***************************************************************************)
EXTENDS Naturals, Sequences, FiniteSetsExt, SequencesExt

Slash == "/"

\* What a mount is made from: its key or the first element of its array, then
\* its origin, "function" for a handler, "file" for a directory, "http" and
\* "https" for the address of another server, and whether an index is given.
Mountables(names, origins) ==
  {o \in [name : names, origin : origins, index : BOOLEAN] :
     o.index => o.origin # "function"}

\* The protocol of an origin, that libwebsockets serves it by.
origin_protocol(origin) == IF origin = "function" THEN "callback" ELSE origin

\* A mount has a handler only when it was made from a function.
mount_new(mnt, origin, index) ==
  [mnt |-> mnt, protocol |-> origin_protocol(origin),
   callback |-> origin = "function", def |-> index]

\* The mountpoint begins with a slash, whether the name does or not.
mount_fromobj(o) ==
  mount_new(IF o.name # <<>> /\ Head(o.name) = Slash THEN o.name
                                                     ELSE <<Slash>> \o o.name,
            o.origin, o.index)

\* The list of the `mounts' option, in its order.
server_mounts(list) == [i \in DOMAIN list |-> mount_fromobj(list[i])]

mount_is_proxy(m) == m.protocol \in {"http", "https"}

Unslash(p) == IF p # <<>> /\ Head(p) = Slash THEN Tail(p) ELSE p

\* Mutant: the first that fits instead of the last.
mount_find_first(mounts, x, n) ==
  LET path == IF n = 0 THEN x ELSE SubSeq(x, 1, n)
      fits == {i \in DOMAIN mounts : IF n = 0
                 THEN mounts[i].protocol = "callback"
                      /\ IsPrefix(Unslash(mounts[i].mnt), Unslash(path))
                 ELSE IsPrefix(mounts[i].mnt, path)}
  IN  IF fits = {} THEN 0 ELSE Min(fits)

\* The index of the last mount whose mountpoint the first n pieces of x begin
\* with, 0 for none.  Without a length only handlers count, and the slash at
\* the front of path and mountpoint does not.
mount_find(mounts, x, n) ==
  LET path == IF n = 0 THEN x ELSE SubSeq(x, 1, n)
      fits == {i \in DOMAIN mounts : IF n = 0
                 THEN mounts[i].protocol = "callback"
                      /\ IsPrefix(Unslash(mounts[i].mnt), Unslash(path))
                 ELSE IsPrefix(mounts[i].mnt, path)}
  IN  IF fits = {} THEN 0 ELSE Max(fits)

\* x is under a mountpoint when the mountpoint ends where a piece of x does.
Under(mnt, x) ==
  /\ IsPrefix(mnt, x)
  /\ Len(x) > Len(mnt) => x[Len(mnt) + 1] \in {Slash, "?"}

\* The first mount that x is at or under, else the last at the root.
mount_find_s(mounts, x) ==
  LET at == {i \in DOMAIN mounts : Under(mounts[i].mnt, x)}
      roots == {i \in DOMAIN mounts : mounts[i].mnt = <<Slash>>}
  IN  IF at # {} THEN Min(at) ELSE IF roots # {} THEN Max(roots) ELSE 0
=============================================================================
