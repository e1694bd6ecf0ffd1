----------------------------- MODULE MPackExpect -----------------------------
(***************************************************************************)
(* The expect API of mpack (rpcserver/mpack/mpack.c): reads of the next    *)
(* element that flag an error unless it is what the caller expects.        *)
(***************************************************************************)
EXTENDS MPackReader

FlagType(r) == mpack_reader_flag_error(r, "type")

\* What read got if it satisfies ok, else the error type and an answer for it.
ElseType(read, ok, got, answer) == IF ok THEN Read(read.r, got) ELSE Read(FlagType(read.r), answer)

\* mpack_expect_u8 .. u64, i8 .. i64: a number of either signedness in the range of the type.
mpack_expect_integer(r, in, lo, hi) ==
  Then(mpack_read_tag(r, in),
       LAMBDA t : ElseType(t, t.got.type \in {"uint", "int"} /\ t.got.n \in lo .. hi, t.got.n, 0))

\* mpack_expect_float, mpack_expect_double, and the strict ones, which convert no integer.
mpack_expect_real(r, in, types) ==
  Then(mpack_read_tag(r, in), LAMBDA t : ElseType(t, t.got.type \in types, t.got.n, 0))

\* mpack_expect_map, mpack_expect_array, mpack_expect_bin
mpack_expect_count(r, in, type) ==
  Then(mpack_read_tag(r, in), LAMBDA t : ElseType(t, t.got.type = type, t.got.n, 0))

\* MPACK_EXPECT_RANGE_IMPL
mpack_expect_range(read, min, max) ==
  IF read.r.err # "ok" THEN Read(read.r, min)
  ELSE ElseType(read, read.got \in min .. max, read.got, min)

\* mpack_expect_u8_max .. u64_max, i8_max .. i64_max, map_max, array_max, bin_max
mpack_expect_max(read, max) == mpack_expect_range(read, 0, max)

\* mpack_expect_uint_match, int_match, array_match, map_match: got is not returned.
mpack_expect_match(read, n) == Read(IF read.got = n THEN read.r ELSE FlagType(read.r), 0)

\* mpack_expect_map_or_nil, array_or_nil: got says whether there is one, and its count.
mpack_expect_or_nil(r, in, type) ==
  Then(mpack_read_tag(r, in),
       LAMBDA t : ElseType(t, t.got.type \in {type, "nil"}, <<t.got.type = type, t.got.n>>, <<FALSE, 0>>))

\* mpack_expect_map_max_or_nil, array_max_or_nil
mpack_expect_max_or_nil(r, in, type, max) ==
  Then(mpack_expect_or_nil(r, in, type),
       LAMBDA o : ElseType(o, ~o.got[1] \/ o.got[2] <= max, o.got, <<FALSE, 0>>))

\* mpack_expect_array_alloc_impl: an empty array is closed at once if nil is allowed.
mpack_expect_array_alloc(r, in, max, allow_nil) ==
  IF ~allow_nil THEN mpack_expect_max(mpack_expect_count(r, in, "array"), max)
  ELSE Then(mpack_expect_max_or_nil(r, in, "array", max),
            LAMBDA o : IF o.r.err # "ok" THEN Read(o.r, 0)
                       ELSE Read(IF o.got = <<TRUE, 0>> THEN mpack_done_type(o.r, "array") ELSE o.r, o.got[2]))

------------------------------------------------------------------------------
\* mpack_expect_native_u8, u16, u32: a number that is no element of its own.
ExpectNative(r, in, bytes) ==
  Then(IF Stopped(r) THEN r ELSE mpack_reader_ensure(r, in, bytes),
       LAMBDA e : IF Stopped(e) THEN Read(e, 0) ELSE Read(Consume(e, bytes), LoadU(SubSeq(e.data, 1, bytes))))

mpack_expect_type_byte(r, in) == ExpectNative(mpack_reader_track_element(r), in, 1)

mpack_expect_nil(r, in) ==
  Then(mpack_expect_type_byte(r, in), LAMBDA b : ElseType(b, b.got = \hc0, 0, 0))

\* mpack_expect_bool, and mpack_expect_true and mpack_expect_false on top of it.
mpack_expect_bool(r, in) ==
  Then(mpack_expect_type_byte(r, in), LAMBDA b : ElseType(b, b.got \in {\hc2, \hc3}, b.got % 2, b.got % 2))

\* The head of a string is read here without mpack_parse_tag.
mpack_expect_str(r, in) ==
  LET Pushed(count) == Read(mpack_reader_track_push(count.r, "str", count.got), count.got)
      Count(type) == CASE type.got \in \ha0 .. \hbf -> Pushed(Read(type.r, type.got % 32))
                       [] type.got \in \hd9 .. \hdb -> Pushed(ExpectNative(type.r, in, 2 ^ (type.got - \hd9)))
                       [] OTHER -> Read(FlagType(type.r), 0)
  IN  Count(mpack_expect_type_byte(r, in))

------------------------------------------------------------------------------
\* A string or binary into a buffer: mpack_expect_str_buf, mpack_expect_bin_buf.
ExpectBuf(count, in, type, bufsize) ==
  IF count.r.err # "ok" THEN Read(count.r, <<>>)
  ELSE IF count.got > bufsize THEN Read(mpack_reader_flag_error(count.r, "too_big"), <<>>)
  ELSE Then(mpack_read_bytes(count.r, in, count.got),
            LAMBDA b : IF b.r.err # "ok" THEN Read(b.r, <<>>) ELSE Read(mpack_done_type(b.r, type), b.got))

mpack_expect_str_buf(r, in, bufsize) == ExpectBuf(mpack_expect_str(r, in), in, "str", bufsize)

mpack_expect_bin_buf(r, in, bufsize) ==
  ExpectBuf(mpack_expect_count(r, in, "bin"), in, "bin", bufsize)

mpack_expect_utf8(r, in, bufsize) ==
  Then(mpack_expect_str_buf(r, in, bufsize), LAMBDA b : ElseType(b, Utf8Check(b.got, TRUE), b.got, <<>>))

Done(read, type) == Read(mpack_done_type(read.r, type), read.got)

mpack_expect_cstr(r, in, bufsize) ==
  Then(mpack_expect_str(r, in), LAMBDA s : Done(mpack_read_cstr(s.r, in, bufsize, s.got), "str"))

mpack_expect_utf8_cstr(r, in, bufsize) ==
  Then(mpack_expect_str(r, in), LAMBDA s : Done(mpack_read_utf8_cstr(s.r, in, bufsize, s.got), "str"))

\* Unlike the other functions ending in _max, this one says too_big.
mpack_expect_str_max(r, in, maxsize) ==
  Then(mpack_expect_str(r, in),
       LAMBDA s : IF s.got > maxsize THEN Read(mpack_reader_flag_error(s.r, "too_big"), 0) ELSE s)

\* mpack_expect_cstr_alloc and mpack_expect_utf8_cstr_alloc: the terminator takes one byte.
mpack_expect_cstr_alloc(r, in, maxsize, utf8) ==
  IF maxsize < 1 THEN Read(mpack_reader_flag_error(r, "bug"), <<>>)
  ELSE Then(Then(mpack_expect_str_max(r, in, maxsize - 1),
                 LAMBDA s : Done(mpack_read_bytes_alloc(s.r, in, s.got), "str")),
            LAMBDA b : Checked(b, IF utf8 THEN Utf8Check(b.got, FALSE) ELSE NoNull(b.got), "type"))

mpack_expect_bin_alloc(r, in, maxsize) ==
  Then(mpack_expect_max(mpack_expect_count(r, in, "bin"), maxsize),
       LAMBDA c : IF c.r.err # "ok" THEN Read(c.r, <<>>)
                  ELSE Done(mpack_read_bytes_alloc(c.r, in, c.got), "bin"))

mpack_expect_bin_size_buf(r, in, size) ==
  Done(mpack_read_bytes(mpack_expect_match(mpack_expect_count(r, in, "bin"), size).r, in, size), "bin")

\* What a byte is as a char, which is signed with GCC and MSVC on x86.
SignedChar(byte) == IF byte > 127 THEN byte - 256 ELSE byte

\* mpack_expect_str_match: the length first, then byte by byte, the byte read as a
\* uint8_t and the one expected as a char: from 128 on they are never equal.
RECURSIVE MatchBytes(_, _, _)
MatchBytes(r, in, str) ==
  IF str = <<>> THEN r
  ELSE Then(ExpectNative(r, in, 1),
            LAMBDA b : CASE b.r.blocked -> b.r
                         [] ~b.r.blocked /\ (b.r.err # "ok" \/ b.got # SignedChar(str[1])) -> FlagType(b.r)
                         [] OTHER -> MatchBytes(b.r, in, Tail(str)))

mpack_expect_str_match(r, in, str) ==
  LET Bytes(s) == MatchBytes(mpack_reader_track_bytes(s, Len(str)), in, str)
  IN  Then(mpack_expect_match(mpack_expect_str(r, in), Len(str)),
           LAMBDA c : IF c.r.err # "ok" THEN c ELSE Read(mpack_done_type(Bytes(c.r), "str"), 0))

mpack_expect_tag(r, in, expected) ==
  Then(mpack_read_tag(r, in), LAMBDA t : ElseType(t, mpack_tag_equal(t.got, expected), 0, 0))

------------------------------------------------------------------------------
\* The index of a string among the strings, their number if it is none of them.
IndexOf(strings, str) ==
  IF \E i \in DOMAIN strings : strings[i] = str
  THEN (CHOOSE i \in DOMAIN strings : strings[i] = str) - 1 ELSE Len(strings)

\* Shared by both: the key is read in place.
ReadKey(r, in) ==
  Then(mpack_expect_str(r, in), LAMBDA s : Done(mpack_read_bytes_inplace(s.r, in, s.got), "str"))

mpack_expect_enum(r, in, strings) ==
  LET Known(k, i) == ElseType(k, i # Len(strings), i, i)
  IN  Then(ReadKey(r, in), LAMBDA k : IF k.r.err # "ok" THEN Read(k.r, Len(strings))
                                      ELSE Known(k, IndexOf(strings, k.got)))

\* An element of another type is discarded.
mpack_expect_enum_optional(r, in, strings) ==
  LET Index(k) == Read(k.r, IF k.r.err # "ok" THEN Len(strings) ELSE IndexOf(strings, k.got))
  IN  Then(mpack_peek_tag(r, in),
           LAMBDA p : IF Stopped(p.r) \/ p.got.type # "str" THEN Read(mpack_discard(p.r, in), Len(strings))
                      ELSE Index(ReadKey(p.r, in)))

\* A key that was found before is an error; got is the key and what is found now.
FirstTime(read, found, count) ==
  IF read.got >= count THEN Read(read.r, [key |-> count, found |-> found])
  ELSE IF read.got \in found
  THEN Read(mpack_reader_flag_error(read.r, "invalid"), [key |-> count, found |-> found])
  ELSE Read(read.r, [key |-> read.got, found |-> found \union {read.got}])

mpack_expect_key_uint(r, in, found, count) ==
  LET Value(v) == IF v.r.err # "ok" THEN Read(v.r, count) ELSE v
      Key(p) == IF p.got.type # "uint" THEN Read(mpack_discard(p.r, in), count)
                ELSE Value(mpack_expect_integer(p.r, in, 0, UMax(8)))
  IN  FirstTime(IF r.err # "ok" THEN Read(r, count) ELSE Key(mpack_peek_tag(r, in)), found, count)

mpack_expect_key_cstr(r, in, keys, found) ==
  FirstTime(mpack_expect_enum_optional(r, in, keys), found, Len(keys))
==============================================================================
