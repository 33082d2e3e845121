------------------------------- MODULE Headers -------------------------------
(***************************************************************************)
(* The headers of a request or a response: one buffer of text that is      *)
(* searched and spliced in place (lib/headers.c, the scanners of           *)
(* lib/utils.c) and the object that scripts use (src/minnet-headers.c).    *)
(* The memory is a sequence of characters: the text, up to where the next  *)
(* is written, and what is behind it.  Names are compared without regard   *)
(* to case in the code; here there is one case.                            *)
(***************************************************************************)
EXTENDS Integers, SequencesExt

CONSTANTS
  Names,      \* of headers, one character each
  Digits,     \* the characters of values
  MaxHeaders, \* bound: headers at the beginning
  MaxOps,     \* bound: calls of the script
  Room        \* bound: bytes that are left behind what was received

ASSUME BoundsAssumption == MaxHeaders \in Nat /\ MaxOps \in Nat /\ Room \in Nat \ {0}

Values == {<<>>} \cup {<<d>> : d \in Digits}

VARIABLES
  of,      \* whose headers they are, a request's or a response's
  buf,     \* the text, from the memory's start up to write
  behind,  \* the memory from write to its end
  entries, \* history: the headers as an ordinary list of names and values
  plain,   \* history: whether no call was one of those the splicing gets wrong
  ops      \* how many calls there were

vars == <<of, buf, behind, entries, plain, ops>>

NameChars == Names \cup Digits
Delims == {"\r", "\n"}
White == {" ", "\r", "\n"}

NUL == "NUL"

Header(n, v) == [name |-> n, value |-> v]

-----------------------------------------------------------------------------
(* The scanners: how many characters at the beginning of s *)

From(s, x) == SubSeq(s, x + 1, Len(s))

scan_noncharsetnskip(s, chars) ==
  LET i == SelectInSeq(s, LAMBDA c : c \in chars) IN IF i = 0 THEN Len(s) ELSE i - 1

scan_charsetnskip(s, chars) ==
  LET i == SelectInSeq(s, LAMBDA c : c \notin chars) IN IF i = 0 THEN Len(s) ELSE i - 1

scan_past(s, chars) ==
  LET i == scan_noncharsetnskip(s, chars) IN i + scan_charsetnskip(From(s, i), chars)

headers_next(s) == scan_past(s, Delims)

headers_namelen(s) == scan_charsetnskip(s, NameChars)

\* Where the value begins; white space is skipped even if it is that of the line's end.
headers_value(s, key) ==
  LET n == headers_namelen(s)
      k == n + scan_charsetnskip(From(s, n), key)
  IN  k + scan_charsetnskip(From(s, k), White)

-----------------------------------------------------------------------------
(* The memory *)

Zeros(n) == [i \in 1 .. n |-> NUL]

\* What n bytes may be that nothing was written to: zeros, or a header of before, again
\* and again.
Unwritten(n) ==
  LET old == <<CHOOSE name \in Names : TRUE, ":", " ", CHOOSE d \in Digits : TRUE, "\n">>
  IN  {Zeros(n), [i \in 1 .. n |-> old[1 + ((i - 1) % Len(old))]]}

\* The memory that text is written to is memory, and n bytes more.
buffer_grow(memory, n) == {memory \o more : more \in Unwritten(n)}

-----------------------------------------------------------------------------
(* lib/headers.c *)

Line(h, delim) == <<h.name, ":", " ">> \o h.value \o delim

\* Of an object of the script, and what the memory grows by for it.
headers_fromobj(list, delim) == FlattenSeq([i \in DOMAIN list |-> Line(list[i], delim)])
fromobj_grows(list) == Len(headers_fromobj(list, <<"\r", "\n">>))

\* Of what libwebsockets received, and what is behind it: a text is printed with a NUL.
headers_tobuffer(list) == headers_fromobj(list, <<"\n">>)
tobuffer_leaves(list) ==
  IF list = <<>> THEN Unwritten(Room) ELSE {<<NUL>> \o more : more \in Unwritten(Room - 1)}

\* Where the items begin: they are what headers_next goes over, and the last ends
\* with the text.
headers_at(s) ==
  SetToSortSeq({x \in 0 .. Len(s) - 1 : x = 0 \/ (s[x] \in Delims /\ s[x + 1] \notin Delims)},
               LAMBDA x, y : x < y)

headers_size(s) == Len(headers_at(s))

\* The number of the first item with that name, or -1.
headers_findb(s, name) ==
  SelectInSeq(headers_at(s),
              LAMBDA x : headers_namelen(From(s, x)) = 1 /\ s[x + 1] = name) - 1

\* The length of a value is a difference without sign: a value that is empty is
\* found after its line's end, and is as long as an address allows.
Overrun == <<"overrun">>

\* Nothing, or the value.
headers_getlen(s, name) ==
  LET i == headers_findb(s, name)
      text == From(s, headers_at(s)[i + 1])
      l == scan_noncharsetnskip(text, Delims)
      n == headers_value(text, {":", " "})
  IN  CASE i = -1 -> {}
        [] i # -1 /\ n > l -> {Overrun}
        [] i # -1 /\ n <= l -> {SubSeq(text, n + 1, l)}

\* The item's number is used as its place in the text.
headers_unsetb(s, name) ==
  LET i == headers_findb(s, name)
      c == headers_next(From(s, i))
  IN  IF i = -1 THEN s ELSE SubSeq(s, 1, i) \o From(s, i + c)

\* What is behind is cleared if there was one.
unsetb_leaves(s, rest, name) ==
  IF headers_findb(s, name) = -1 THEN rest
  ELSE Zeros(Len(s) - Len(headers_unsetb(s, name)) + Len(rest))

\* Mutant: what was set before is left.
headers_set_adds(s, name, value) == s \o Line(Header(name, value), <<"\r", "\n">>)

headers_set(s, name, value) ==
  headers_unsetb(s, name) \o Line(Header(name, value), <<"\r", "\n">>)

\* The line is written over the bytes behind, which were grown by as many.
set_leaves(s, rest, name, value) ==
  LET line == Line(Header(name, value), <<"\r", "\n">>)
  IN  {From(memory, Len(line)) :
         memory \in buffer_grow(unsetb_leaves(s, rest, name), Len(line))}

\* So it is here; the value goes behind the end of the line.  The text is not moved
\* for an empty one: the comma is written over what follows, and the text takes in
\* two bytes of the memory behind it.
headers_appendb(s, memory, name, value) ==
  LET i == headers_findb(s, name)
      y == i + headers_next(From(s, i))
      added == <<",", " ">> \o value
  IN  IF value # <<>> THEN SubSeq(s, 1, y) \o added \o From(s, y)
      ELSE SubSeq(SubSeq(s, 1, y) \o added \o From(s \o memory, y + 2), 1, Len(s) + 2)

\* What libwebsockets is given to send: a line each.
headers_write(s) ==
  LET line(p) ==
        LET eol == scan_noncharsetnskip(From(s, p), {"\n"})
            text == SubSeq(s, p + 1, p + eol)
            n == scan_noncharsetnskip(text, {":"})
            m == n + 1 + scan_charsetnskip(From(text, n + 1), {" "})
            value == From(text, m)
        IN  [next |-> p + eol + 1,
             header |-> Header(SubSeq(text, 1, n), SelectSeq(value, LAMBDA c : c # "\r"))]
      from[p \in 0 .. Len(s) + 1] ==
        IF p >= Len(s) THEN <<>> ELSE LET l == line(p) IN <<l.header>> \o from[l.next]
  IN  from[0]

\* entries() of the object: it goes on from the value, not from the item.
minnet_headers_iterator(s) ==
  LET from[x \in 0 .. Len(s)] ==
        IF x = Len(s) THEN <<>>
        ELSE LET text == From(s, x)
                 name == SubSeq(text, 1, headers_namelen(text))
                 v == headers_value(text, {":"})
                 rest == From(text, v)
                 value == SubSeq(rest, 1, scan_noncharsetnskip(rest, Delims))
             IN  <<Header(name, value)>> \o from[x + v + headers_next(rest)]
  IN  from[0]

\* A response's headers as an object: a line without a name is left out, and a name
\* ends with its NUL.
headers_object(s) ==
  LET from[x \in 0 .. Len(s) + 1] ==
        IF x >= Len(s) THEN <<>>
        ELSE LET text == From(s, x)
                 len == scan_noncharsetnskip(text, Delims)
                 line == SubSeq(text, 1, len)
                 n == scan_noncharsetnskip(line, {":"})
                 value == From(line, n + 1 + (IF n + 2 <= len /\ line[n + 2] = " " THEN 1 ELSE 0))
                 name == SubSeq(line, 1, scan_noncharsetnskip(line, {":", NUL}))
             IN  (IF 0 < n /\ n < len THEN <<Header(name, value)>> ELSE <<>>)
                   \o from[x + len + 1]
  IN  from[0]

\* The names of the object's own properties.
minnet_headers_get_own_property_names(s) ==
  LET at == headers_at(s)
  IN  [i \in DOMAIN at |-> SubSeq(From(s, at[i]), 1, headers_namelen(From(s, at[i])))]

-----------------------------------------------------------------------------
(* The script: a request's headers are an object, a response has methods *)

Lists ==
  {list \in UNION {[1 .. n -> [name : Names, value : Values]] : n \in 0 .. MaxHeaders} :
     \A i, j \in DOMAIN list : i # j => list[i].name # list[j].name}

Without(list, name) == SelectSeq(list, LAMBDA h : h.name # name)

IsFirst(name) == headers_findb(buf, name) \in {-1, 0}

\* Over what is behind the text.
Set(name, value, rest) ==
  /\ buf' = headers_set(buf, name, value)
  /\ behind' \in set_leaves(buf, rest, name, value)
  /\ entries' = Append(Without(entries, name), Header(name, value))
  /\ plain' = (plain /\ IsFirst(name) /\ value # <<>>)

Delete(name) ==
  /\ buf' = headers_unsetb(buf, name)
  /\ behind' = unsetb_leaves(buf, behind, name)
  /\ entries' = Without(entries, name)
  /\ plain' = (plain /\ IsFirst(name))

\* To the values of a header that is there: what is behind is cleared.
AppendTo(name, value) ==
  /\ headers_findb(buf, name) # -1
  /\ \E memory \in buffer_grow(behind, Len(value) + 2) :
       buf' = headers_appendb(buf, memory, name, value)
  /\ behind' = Zeros(Len(behind))
  /\ UNCHANGED entries
  /\ plain' = FALSE

\* append() is set() of what is not there, in memory that was grown for both.
minnet_headers_method ==
  /\ of = "request"
  /\ \E name \in Names :
       \/ \E value \in Values :
            \/ Set(name, value, behind) \/ AppendTo(name, value)
            \/ /\ headers_findb(buf, name) = -1
               /\ \E memory \in buffer_grow(behind, Len(value) + 2) : Set(name, value, memory)
       \/ Delete(name)

\* Here append() only grows the memory then.
minnet_response_header ==
  /\ of = "response"
  /\ \E name \in Names, value \in Values :
       \/ Set(name, value, behind)
       \/ AppendTo(name, value)
       \/ /\ headers_findb(buf, name) = -1
          /\ behind' \in buffer_grow(behind, Len(value) + 2)
          /\ UNCHANGED <<buf, entries, plain>>

\* headers = {...}: a request's are added to.  A response's are written from the
\* start again, over the text of before, and what they do not reach is left.
Assign(list) ==
  LET text == headers_fromobj(list, <<"\n">>)
      again == of = "response"
  IN  /\ buf' = (IF again THEN <<>> ELSE buf) \o text
      /\ \E memory \in buffer_grow((IF again THEN buf ELSE <<>>) \o behind, fromobj_grows(list)) :
           behind' = From(memory, Len(text))
      /\ entries' = list
      /\ plain' = /\ plain /\ (of = "request" => buf = <<>>)
                  /\ \A i \in DOMAIN list : list[i].value # <<>>

-----------------------------------------------------------------------------

Init ==
  /\ of \in {"request", "response"}
  /\ entries \in Lists
  /\ \/ of = "request" /\ buf = headers_fromobj(entries, <<"\r", "\n">>) /\ behind = <<>>
     \/ of = "response" /\ entries = <<>> /\ buf = <<>> /\ behind = <<>>
     \/ buf = headers_tobuffer(entries) /\ behind \in tobuffer_leaves(entries)
  /\ plain = \A i \in DOMAIN entries : entries[i].value # <<>>
  /\ ops = 0

\* Bound: no call is made of a text once it was spliced wrong, of which nothing is said.
Next ==
  /\ plain
  /\ ops < MaxOps /\ ops' = ops + 1
  /\ UNCHANGED of
  /\ \/ minnet_headers_method
     \/ minnet_response_header
     \/ \E list \in {l \in Lists : Len(l) < 2} : Assign(list)

Spec == Init /\ [][Next]_vars

-----------------------------------------------------------------------------

\* However the text was spliced, get(), has(), entries(), the names of the properties
\* and what is sent all give the headers that were set, in their order, each once: as
\* long as none is empty, none but the first is set again or deleted, and none is
\* appended to, for then an item's number was taken for its place (headers_unsetb,
\* headers_appendb, headers_value).  The object that is made of a response's headers
\* gets the same, in their order, before it gets the lines that are behind the text:
\* it is made of the memory up to its end, where headers of before may be left.
AgreesWithList ==
  plain =>
    LET named(list) == [i \in DOMAIN list |-> [list[i] EXCEPT !.name = <<@>>]]
    IN  /\ \A name \in Names :
             headers_getlen(buf, name) = {h.value : h \in {x \in ToSet(entries) : x.name = name}}
        /\ minnet_headers_iterator(buf) = named(entries)
        /\ headers_write(buf) = named(entries)
        /\ of = "response" =>
             headers_object(buf \o behind) = named(entries) \o headers_object(behind)
        /\ headers_size(buf) = Len(entries)
        /\ minnet_headers_get_own_property_names(buf) = [i \in DOMAIN entries |-> <<entries[i].name>>]
=============================================================================
