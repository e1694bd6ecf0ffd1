------------------------------ MODULE MPackPipe ------------------------------
(***************************************************************************)
(* A writer and a reader of mpack at the two ends of a stream, a file or   *)
(* a piece of memory.  The writer is that of MPackWrites; the reader reads *)
(* the elements back, each with any function of the reader and expect      *)
(* APIs, through a fill function that brings the bytes in pieces.  A case  *)
(* has a reader beside the script and the writer, case.r.                  *)
(***************************************************************************)
EXTENDS MPackWrites, MPackExpect

CONSTANTS
  NotUtf8 \* those byte strings of the scripts that are not UTF-8

VARIABLES
  r,      \* the reader
  next,   \* the number of the element the reader comes to next
  last    \* the read just made: the function, its argument, the element, error and result

vars == <<script, ref, done, w, r, next, last>>

Nothing == [op |-> "none"]

------------------------------------------------------------------------------
Write == WriteNext /\ UNCHANGED <<r, next, last>>

\* A reader of memory is given what the writer leaves there.
Destroy ==
  /\ DestroyWriter
  /\ r' = IF r.fill = "none" THEN [r EXCEPT !.data = w'.out] ELSE r
  /\ UNCHANGED <<next, last>>

------------------------------------------------------------------------------
(* The reader.                                                              *)
Input == [bytes |-> w.out, closed |-> ~w.live]
Elements == ref.elements

\* Reads the content of a string or binary whose head was read.
Body(read, how, type, in) ==
  LET n == read.got
      b == CASE how = "bytes"     -> mpack_read_bytes(read.r, in, n)
             [] how = "utf8"      -> mpack_read_utf8(read.r, in, n)
             [] how = "cstr"      -> mpack_read_cstr(read.r, in, 32, n)
             [] how = "utf8_cstr" -> mpack_read_utf8_cstr(read.r, in, 32, n)
             [] how = "alloc"     -> mpack_read_bytes_alloc(read.r, in, n)
             [] how = "inplace"   -> mpack_read_bytes_inplace(read.r, in, n)
             [] how = "utf8_inplace" -> mpack_read_utf8_inplace(read.r, in, n)
             [] how = "skip"      -> Read(mpack_skip_bytes(read.r, in, n), <<>>)
  IN  IF Stopped(read.r) THEN Read(read.r, <<>>) ELSE Done(b, type)

Perform(op, a, in) ==
  CASE op = "read_tag"     -> mpack_read_tag(r, in)
    [] op = "body"         -> Then(mpack_read_tag(r, in), LAMBDA t : Body(Read(t.r, t.got.n), a, t.got.type, in))
    [] op = "peek_tag"     -> mpack_peek_tag(r, in)
    [] op = "discard"      -> Read(mpack_discard(r, in), 0)
    [] op = "integer"      -> mpack_expect_integer(r, in, a[1], a[2])
    [] op = "range"        -> mpack_expect_range(mpack_expect_integer(r, in, IMin(8), UMax(8)), a[1], a[2])
    [] op = "integer_match" -> mpack_expect_match(mpack_expect_integer(r, in, IMin(8), UMax(8)), a)
    [] op = "real"         -> mpack_expect_real(r, in, a)
    [] op = "nil"          -> mpack_expect_nil(r, in)
    [] op = "bool"         -> mpack_expect_bool(r, in)
    [] op = "bool_match"   -> mpack_expect_match(mpack_expect_bool(r, in), a)
    [] op = "count"        -> mpack_expect_count(r, in, a)
    [] op = "count_max"    -> mpack_expect_max(mpack_expect_count(r, in, a[1]), a[2])
    [] op = "count_match"  -> mpack_expect_match(mpack_expect_count(r, in, a[1]), a[2])
    [] op = "or_nil"       -> mpack_expect_or_nil(r, in, a)
    [] op = "max_or_nil"   -> mpack_expect_max_or_nil(r, in, a[1], a[2])
    [] op = "array_alloc"  -> mpack_expect_array_alloc(r, in, a[1], a[2])
    [] op = "str"          -> Body(mpack_expect_str(r, in), a, "str", in)
    [] op = "str_buf"      -> mpack_expect_str_buf(r, in, a)
    [] op = "utf8"         -> mpack_expect_utf8(r, in, a)
    [] op = "cstr"         -> mpack_expect_cstr(r, in, a)
    [] op = "utf8_cstr"    -> mpack_expect_utf8_cstr(r, in, a)
    [] op = "cstr_alloc"   -> mpack_expect_cstr_alloc(r, in, a[1], a[2])
    [] op = "str_match"    -> mpack_expect_str_match(r, in, a)
    [] op = "bin_buf"      -> mpack_expect_bin_buf(r, in, a)
    [] op = "bin_alloc"    -> mpack_expect_bin_alloc(r, in, a)
    [] op = "bin_size_buf" -> mpack_expect_bin_size_buf(r, in, a)
    [] op = "tag"          -> mpack_expect_tag(r, in, a)
    [] op = "enum"         -> mpack_expect_enum(r, in, a)
    [] op = "enum_optional" -> mpack_expect_enum_optional(r, in, a)
    [] op = "key_uint"     -> mpack_expect_key_uint(r, in, a[1], a[2])
    [] op = "key_cstr"     -> mpack_expect_key_cstr(r, in, a[1], a[2])

\* The containers that end before element n: those a reader is in, and closes now.
Ended(n) ==
  {m \in DOMAIN Elements :
     /\ m < last.at \/ (m = last.at /\ last.op # "discard" /\ ~(last.op = "array_alloc" /\ last.arg[2]))
     /\ Elements[m].tag.type \in {"array", "map"}
     /\ m + Elements[m].inside + 1 = n}

\* A reader of memory, or of a file that seeks, comes when the writer is done.
Ready ==
  /\ r.live /\ r.err = "ok" /\ last = Nothing /\ ref.balanced
  /\ next <= Len(Elements)
  /\ r.fill = "none" \/ r.skip = "seek" => ~w.live

Ask(op, a) ==
  \E p \in {Perform(op, a, Input)} :
      /\ ~p.r.blocked
      /\ r' = p.r
      /\ last' = [op |-> op, arg |-> a, at |-> next, err |-> p.r.err, got |-> p.got]
      /\ next' = CASE op = "peek_tag" -> next
                   [] op = "discard" -> next + Elements[next].inside + 1
                   [] OTHER -> next + 1
      /\ UNCHANGED <<script, ref, done, w>>

IntegerTypes == {<<IMin(n), IMax(n)>> : n \in {1, 2, 4, 8}} \union {<<0, UMax(n)>> : n \in {1, 2, 4, 8}}
Reals == {{"uint", "int", "float", "double"}, {"float"}, {"float", "double"}}
Other == <<111, 116>>

\* What a program may ask an element for: a function of the two APIs, and its argument.
AskAnything ==
  {<<"discard", 0>>, <<"nil", 0>>, <<"bool", 0>>} \union {"integer"} \X IntegerTypes
  \union {"real"} \X Reals \union {"or_nil"} \X {"array", "map"}

AskScalar(t) ==
  {"tag"} \X {t, NilTag, Tag("int", t.n)} \union {"integer_match"} \X {t.n, 7}
  \union {"range"} \X {a \in {<<0, t.n>>, <<-5, 5>>} : a[1] <= a[2]}
  \union {"bool_match"} \X {0, 1} \union {"key_uint"} \X ({{}, {1}} \X {4})

AskContainer(t) ==
  LET counts == {t.n, t.n - 1} \ {-1}
  IN  {<<"count", t.type>>} \union {"tag"} \X {t, NilTag}
      \union {"count_max", "count_match", "max_or_nil"} \X ({t.type} \X counts)
      \union {"array_alloc"} \X (counts \X BOOLEAN)

AskText(t, body) ==
  LET sizes == {t.n, t.n + 1, t.n - 1} \ {-1, 0}
  IN  {"body", "str"} \X {"bytes", "utf8", "cstr", "utf8_cstr", "alloc", "inplace", "utf8_inplace", "skip"}
      \union {"str_buf", "utf8", "cstr", "utf8_cstr"} \X sizes \union {"cstr_alloc"} \X (sizes \X BOOLEAN)
      \union {"str_match"} \X {body, Other} \union {"enum", "enum_optional"} \X ({Other} \X {body, Other})
      \union {"key_cstr"} \X ({<<Other, body>>} \X {{}, {1}})

AskBinary(t) ==
  {"body"} \X {"bytes", "alloc", "inplace", "skip"}
  \union {"bin_buf", "bin_alloc", "bin_size_buf"} \X ({t.n, t.n - 1} \ {-1})

Questions(t, body, whole) ==
  {<<"peek_tag", 0>>}
  \union (IF t.type \in {"str", "bin"} /\ whole THEN {} ELSE {<<"read_tag", 0>>})
  \union (IF whole THEN AskAnything ELSE {})
  \union (CASE t.type \in {"array", "map"} -> AskContainer(t)
            [] t.type = "str" -> IF whole THEN AskText(t, body) ELSE {}
            [] t.type = "bin" -> IF whole THEN AskBinary(t) ELSE {}
            [] OTHER -> AskScalar(t))

ReadNext ==
  /\ Ready
  /\ \E question \in Questions(Elements[next].tag, Elements[next].body, ~Elements[next].bare) :
       Ask(question[1], question[2])

\* The caller looks at what it got and closes the containers that have ended.
CloseEnded ==
  /\ last # Nothing
  /\ r' = IF last.op = "peek_tag" THEN r
          ELSE FoldLeft(LAMBDA s, m : mpack_done_type(s, Elements[m].tag.type),
                        r, Reverse(SetToSortSeq(Ended(next), <)))
  /\ last' = Nothing
  /\ UNCHANGED <<script, ref, done, w, next>>

DestroyReader ==
  /\ r.live /\ last = Nothing
  /\ next > Len(Elements) \/ r.err # "ok"
  /\ r' = mpack_reader_destroy(r)
  /\ UNCHANGED <<script, ref, done, w, next, last>>

Init ==
  /\ \E case \in Cases : Begin(case) /\ r = case.r
  /\ next = 1
  /\ last = Nothing

Next == Write \/ Destroy \/ ReadNext \/ CloseEnded \/ DestroyReader

Spec == Init /\ [][Next]_vars

------------------------------------------------------------------------------
IsAscii(body) == Range(body) \subseteq 0 .. 127

(* What each read should answer for an element with tag t and content body,
   said from the element alone: the error and, if there is none, the result.
   A string of other than ASCII is never matched by mpack_expect_str_match,
   for all that mpack.h says: see StringsMatch.                             *)
Want(op, a, t, body) ==
  LET Answer(err, got) == [err |-> err, got |-> got]
      If(ok, got) == IF ok THEN Answer("ok", got) ELSE Answer("type", got)
      number == t.type \in {"uint", "int"}
      Text(allow_null) == body \notin NotUtf8 /\ (allow_null \/ 0 \notin Range(body))
      Fits(size, ok, got) == IF t.n > size THEN Answer("too_big", got) ELSE If(ok, got)
      Whole == IF r.fill = "none" THEN t.n ELSE r.size \* what can be read in place
      Body1(how) == CASE how \in {"bytes", "alloc"} -> Answer("ok", body)
                      [] how = "utf8"         -> If(Text(TRUE), body)
                      [] how = "cstr"         -> Fits(31, 0 \notin Range(body), body)
                      [] how = "utf8_cstr"    -> Fits(31, Text(FALSE), body)
                      [] how = "inplace"      -> Fits(Whole, TRUE, body)
                      [] how = "utf8_inplace" -> Fits(Whole, Text(TRUE), body)
                      [] how = "skip"         -> Answer("ok", <<>>)
      At(strings) == IF body = strings[1] THEN 0 ELSE IF body = strings[2] THEN 1 ELSE 2
      Key(k, found, count) == CASE k >= count -> Answer("ok", [key |-> count, found |-> found])
                                [] k \in found -> Answer("invalid", 0)
                                [] OTHER -> Answer("ok", [key |-> k, found |-> found \union {k}])
  IN CASE op \in {"read_tag", "peek_tag"} -> Answer("ok", t)
       [] op = "discard"       -> Answer("ok", 0)
       [] op \in {"integer", "range"} -> If(number /\ a[1] <= t.n /\ t.n <= a[2], t.n)
       [] op = "integer_match" -> If(number /\ t.n = a, 0)
       [] op = "real"          -> If(t.type \in a, t.n)
       [] op = "tag"           -> If(t = a \/ (number /\ a.type = "int" /\ a.n = t.n), 0)
       [] op = "nil"           -> If(t.type = "nil", 0)
       [] op = "bool"          -> If(t.type = "bool", t.n)
       [] op = "bool_match"    -> If(t.type = "bool" /\ t.n = a, 0)
       [] op = "count"         -> Answer("ok", t.n)
       [] op = "count_max"     -> If(t.n <= a[2], t.n)
       [] op = "count_match"   -> If(t.n = a[2], 0)
       [] op = "or_nil"        -> If(t.type \in {a, "nil"}, <<t.type = a, t.n>>)
       [] op = "max_or_nil"    -> If(t.n <= a[2], <<TRUE, t.n>>)
       [] op = "array_alloc"   -> If(t.type = "array" /\ t.n <= a[1], t.n)
       [] op \in {"body", "str"} -> Body1(a)
       [] op \in {"str_buf", "bin_buf"} -> Fits(a, TRUE, body)
       [] op = "utf8"          -> Fits(a, Text(TRUE), body)
       [] op = "cstr"          -> Fits(a - 1, 0 \notin Range(body), body)
       [] op = "utf8_cstr"     -> Fits(a - 1, Text(FALSE), body)
       [] op = "cstr_alloc"    -> Fits(a[1] - 1, IF a[2] THEN Text(FALSE) ELSE 0 \notin Range(body), body)
       [] op = "str_match"     -> If(body = a /\ IsAscii(a), 0)
       [] op = "bin_alloc"     -> If(t.n <= a, body)
       [] op = "bin_size_buf"  -> If(t.n = a, body)
       [] op = "enum"          -> Fits(Whole, At(a) < 2, At(a))
       [] op = "enum_optional" -> Fits(Whole, TRUE, At(a))
       [] op = "key_uint"      -> Key(IF t.type = "uint" THEN t.n ELSE 4, a[1], a[2])
       [] op = "key_cstr"      -> IF t.n > Whole THEN Answer("too_big", 0) ELSE Key(At(a[1]), a[2], 2)

(* Every read of an element answers what the element is (but for the strings
   mpack_expect_str_match does not match, see Want), whatever pieces the
   fill function brought it in, and fails for want of bytes only if the
   writer did not deliver them all; and after a read without error the reader
   stands at the end of what it read: what it holds and what it has yet to
   take are the rest of the stream (mpack_reader_ensure_straddle,
   mpack_read_native_straddle, mpack_skip_bytes_straddle, mpack_parse_tag).  *)
ReadsBack ==
  /\ last # Nothing =>
       LET e     == Elements[last.at]
           want  == Want(last.op, last.arg, e.tag, e.body)
           until == IF last.op = "discard" THEN last.at + e.inside ELSE last.at
       IN  \/ last.err = want.err /\ (want.err = "ok" => last.got = want.got)
           \/ ref.ends[until] > Len(w.out) /\ last.err \in {"io", "eof", "invalid"}
  /\ r.err = "ok" /\ (r.fill = "none" => ~w.live) =>
       r.data \o (IF r.fill = "none" THEN <<>> ELSE SubSeq(w.out, r.taken + 1, Len(w.out)))
         = SubSeq(w.out, (IF next = 1 THEN 0 ELSE ref.ends[next - 1]) + 1, Len(w.out))

(* A string that is exactly the given one is not refused as another, as
   mpack.h:6266 says of mpack_expect_str_match and mpack.h:6336 of
   mpack_expect_cstr_match.                                                 *)
StringsMatch ==
  last # Nothing /\ last.op = "str_match" /\ last.arg = Elements[last.at].body => last.err # "type"

(* The tracking of a debug build tells misuse of the write API, and nothing
   else: if a tracked writer ends without an error and with nothing open,
   every container was closed by its own call with as much in it as it was
   opened for, and a program that keeps to this, and flushes no message where
   there is no flush function, is never said to have a bug
   (mpack_track_element, mpack_track_bytes, mpack_track_pop_impl).          *)
TrackingTellsMisuse ==
  w.tracking =>
    /\ ~w.live /\ w.err = "ok" /\ w.track = <<>> => ref.balanced
    /\ w.err = "bug" => \/ ~ref.balanced
                        \/ w.kind = "none" /\ \E i \in DOMAIN script : script[i].op = "flush"

==============================================================================
