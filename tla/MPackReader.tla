----------------------------- MODULE MPackReader -----------------------------
(***************************************************************************)
(* The mpack reader (rpcserver/mpack/mpack.c) as operators on its state:   *)
(* the bytes between data and end, the fill and skip functions behind      *)
(* them and the tracking of debug builds.  in is the input of the fill     *)
(* function: its bytes so far and whether it has ended.  A fill that finds *)
(* nothing in an input that goes on blocks: the call is not possible yet.  *)
(* An operator answers with the next state and, mostly, a value got.       *)
(***************************************************************************)
EXTENDS MPackFormat, MPackTrack

Read(r, got) == [r |-> r, got |-> got]

(* mpack_reader_init, init_data and init_stdfile with their fill and skip
   functions.  fill is "none" (all the data is in memory), "chunks" (a
   callback that brings up to chunk bytes a time) or "file" (fread: all it is
   asked for, or less at the end).  skip is "none", "seek" (the file can seek)
   or "fill" (it cannot).                                                   *)
NewReader(data, fill, skip, size, chunk, tracking) ==
  [data |-> data, size |-> size, fill |-> fill, skip |-> skip, chunk |-> chunk,
   taken |-> 0, eof |-> FALSE, blocked |-> FALSE, err |-> "ok",
   tracking |-> tracking, track |-> <<>>, live |-> TRUE]

\* mpack_reader_flag_error: end becomes data, so a reader in error has no bytes left.
mpack_reader_flag_error(r, e) ==
  IF r.err = "ok" /\ e # "ok" THEN [r EXCEPT !.err = e, !.data = <<>>] ELSE r

\* MPACK_READER_TRACK
WithReadTrack(r, t) ==
  IF r.tracking /\ r.err = "ok" THEN mpack_reader_flag_error([r EXCEPT !.track = t.track], t.err) ELSE r

mpack_reader_track_element(r) == WithReadTrack(r, mpack_track_element(r.track))
mpack_reader_track_bytes(r, n) == WithReadTrack(r, mpack_track_bytes(r.track, n))
mpack_reader_track_str_bytes_all(r, n) == WithReadTrack(r, mpack_track_str_bytes_all(r.track, n))
mpack_reader_track_push(r, type, n) == WithReadTrack(r, mpack_track_push(r.track, type, n))
mpack_done_type(r, type) == WithReadTrack(r, mpack_track_pop_impl(r.track, type, FALSE))

Consume(r, n) == [r EXCEPT !.data = SubSeq(@, n + 1, Len(@))]

------------------------------------------------------------------------------
(* One call of the fill function for up to max bytes; got is what it brings.
   fread at the end of a file answers short once, and then flags eof.       *)
Fill(r, in, max) ==
  LET there == IF r.taken > Len(in.bytes) THEN 0 ELSE Len(in.bytes) - r.taken
      wanted == IF r.fill = "file" THEN max ELSE Lesser(max, r.chunk)
      n      == Lesser(there, wanted)
      short  == IF r.fill = "file" THEN n < max ELSE n = 0
  IN  IF r.fill = "file" /\ r.eof THEN Read(mpack_reader_flag_error(r, "eof"), <<>>)
      ELSE IF short /\ ~in.closed THEN Read([r EXCEPT !.blocked = TRUE], <<>>)
      ELSE Read([r EXCEPT !.taken = @ + n, !.eof = short],
                SubSeq(in.bytes, r.taken + 1, r.taken + n))

\* mpack_fill_range: fills until at least min bytes are there.
RECURSIVE FillRange(_, _, _, _, _)
FillRange(r, in, min, max, filled) ==
  LET f == Fill(r, in, max - Len(filled))
  IN  IF Len(filled) >= min THEN Read(r, filled)
      ELSE IF f.r.err # "ok" \/ f.r.blocked THEN Read(f.r, <<>>)
      ELSE IF f.got = <<>> THEN Read(mpack_reader_flag_error(f.r, "io"), <<>>)
      ELSE FillRange(f.r, in, min, max, filled \o f.got)

mpack_fill_range(r, in, min, max) == FillRange(r, in, min, max, <<>>)

Stopped(r) == r.err # "ok" \/ r.blocked

\* Mutant: the bytes left are not moved to the start, the new ones take their place.
mpack_reader_ensure_NoMove(r, in, count) ==
  IF count <= Len(r.data) THEN r
  ELSE IF r.fill = "none" THEN mpack_reader_flag_error(r, "invalid")
  ELSE IF count > r.size THEN mpack_reader_flag_error(r, "too_big")
  ELSE Then(mpack_fill_range(r, in, count - Len(r.data), r.size - Len(r.data)),
            LAMBDA f : IF Stopped(f.r) THEN f.r
                       ELSE [f.r EXCEPT !.data = f.got \o SubSeq(f.got, 1, Len(r.data))])

\* count bytes in one piece in the buffer; what is left moves to its start first.
mpack_reader_ensure(r, in, count) ==
  IF count <= Len(r.data) THEN r
  ELSE IF r.fill = "none" THEN mpack_reader_flag_error(r, "invalid")
  ELSE IF count > r.size THEN mpack_reader_flag_error(r, "too_big")
  ELSE Then(mpack_fill_range(r, in, count - Len(r.data), r.size - Len(r.data)),
            LAMBDA f : IF Stopped(f.r) THEN f.r ELSE [f.r EXCEPT !.data = r.data \o f.got])

(* mpack_read_native: what the buffer has, and the rest through the buffer
   when it is a small fraction of it, straight into the target otherwise.   *)
mpack_read_native(r, in, count) ==
  LET rest   == count - Len(r.data)
      small  == rest <= r.size \div 32
      f      == mpack_fill_range([r EXCEPT !.data = <<>>], in, rest, IF small THEN r.size ELSE rest)
  IN  IF rest <= 0 THEN Read(Consume(r, count), SubSeq(r.data, 1, count))
      ELSE IF r.err # "ok" THEN Read(r, <<>>)
      ELSE IF r.fill = "none" THEN Read(mpack_reader_flag_error(r, "invalid"), <<>>)
      ELSE IF Stopped(f.r) THEN Read(f.r, <<>>)
      ELSE Read([f.r EXCEPT !.data = SubSeq(f.got, rest + 1, Len(f.got))],
                r.data \o SubSeq(f.got, 1, rest))

(* mpack_reader_skip_using_fill: whole buffers are filled and dropped, then
   the buffer is filled as far as it goes.                                  *)
RECURSIVE mpack_reader_skip_using_fill(_, _, _)
mpack_reader_skip_using_fill(r, in, count) ==
  LET whole == mpack_fill_range(r, in, r.size, r.size)
      f     == mpack_fill_range(r, in, count, r.size)
  IN  IF count > r.size
      THEN IF Stopped(whole.r) THEN whole.r
           ELSE mpack_reader_skip_using_fill(whole.r, in, count - r.size)
      ELSE IF Stopped(f.r) THEN f.r
      ELSE Consume([f.r EXCEPT !.data = f.got], count)

\* mpack_file_reader_skip: fseek moves on whether or not the file is that long.
mpack_file_reader_skip(r, in, count) ==
  IF r.err # "ok" THEN r
  ELSE IF r.skip = "seek" THEN [r EXCEPT !.taken = @ + count, !.eof = FALSE]
  ELSE mpack_reader_skip_using_fill(r, in, count)

mpack_skip_bytes(r, in, count) ==
  LET t    == mpack_reader_track_bytes(r, count)
      rest == count - Len(t.data)
      d    == [t EXCEPT !.data = <<>>]
  IN  IF r.err # "ok" THEN r
      ELSE IF rest <= 0 THEN Consume(t, count)
      ELSE IF t.fill = "none" THEN mpack_reader_flag_error(t, "invalid")
      ELSE IF r.skip # "none" /\ rest > r.size \div 16 THEN mpack_file_reader_skip(d, in, rest)
      ELSE mpack_reader_skip_using_fill(d, in, rest)

------------------------------------------------------------------------------
\* mpack_parse_tag: what a first byte says, in the order of its switch.
FixTag(byte) ==
  CASE byte <= \h7f          -> Lead("uint", 0, byte)
    [] byte >= \he0          -> Lead("int", 0, byte - 256)
    [] byte \in \h80 .. \h8f -> Lead("map", 0, byte - \h80)
    [] byte \in \h90 .. \h9f -> Lead("array", 0, byte - \h90)
    [] byte \in \ha0 .. \hbf -> Lead("str", 0, byte - \ha0)

PlainTag(byte) ==
  CASE byte = \hc0           -> Lead("nil", 0, 0)
    [] byte \in {\hc2, \hc3} -> Lead("bool", 0, byte % 2)
    [] byte \in \hc4 .. \hc6 -> Lead("bin", 2 ^ (byte - \hc4), 0)

NumberTag(byte) ==
  CASE byte = \hca           -> Lead("float", 4, 0)
    [] byte = \hcb           -> Lead("double", 8, 0)
    [] byte \in \hcc .. \hcf -> Lead("uint", 2 ^ (byte - \hcc), 0)
    [] byte \in \hd0 .. \hd3 -> Lead("int", 2 ^ (byte - \hd0), 0)

CountTag(byte) ==
  CASE byte \in \hd9 .. \hdb -> Lead("str", 2 ^ (byte - \hd9), 0)
    [] byte \in \hdc .. \hdd -> Lead("array", 2 ^ (byte - \hdb), 0)
    [] byte \in \hde .. \hdf -> Lead("map", 2 ^ (byte - \hdd), 0)
    [] byte = \hc1           -> Lead("reserved", 0, 0)
    [] OTHER                 -> Lead("ext", 0, 0)

HeadOf(byte) ==
  IF byte <= \hbf \/ byte >= \he0 THEN FixTag(byte)
  ELSE IF byte \in {\hc0} \union \hc2 .. \hc6 THEN PlainTag(byte)
  ELSE IF byte \in \hca .. \hd3 THEN NumberTag(byte) ELSE CountTag(byte)

\* got is the tag and its size, which is 0 after an error; the bytes stay where they are.
mpack_parse_tag(r, in) ==
  LET None(s) == Read(s, [tag |-> NilTag, size |-> 0])
      Number(lead, bytes) == CASE lead.width = 0 -> lead.n
                               [] lead.width > 0 /\ lead.type \in {"int", "float", "double"} -> LoadI(bytes)
                               [] OTHER -> LoadU(bytes)
      Whole(lead, all) ==
        IF Stopped(all) THEN None(all)
        ELSE Read(all, [size |-> 1 + lead.width,
                        tag  |-> Tag(lead.type, Number(lead, SubSeq(all.data, 2, 1 + lead.width)))])
      Parsed(lead, one) == CASE lead.type = "reserved" -> None(mpack_reader_flag_error(one, "invalid"))
                             [] lead.type = "ext" -> None(mpack_reader_flag_error(one, "unsupported"))
                             [] OTHER -> Whole(lead, mpack_reader_ensure(one, in, 1 + lead.width))
  IN  Then(mpack_reader_ensure(r, in, 1),
           LAMBDA one : IF Stopped(one) THEN None(one) ELSE Parsed(HeadOf(one.data[1]), one))

Compound == {"str", "bin", "array", "map"}

mpack_read_tag(r, in) ==
  LET Pushed(p) == IF p.got.tag.type \in Compound
                   THEN mpack_reader_track_push(p.r, p.got.tag.type, p.got.tag.n) ELSE p.r
      Taken(p)  == IF p.got.size = 0 THEN Read(p.r, NilTag)
                   ELSE Read(Consume(Pushed(p), p.got.size), p.got.tag)
  IN  Then(mpack_reader_track_element(r),
           LAMBDA t : IF t.err # "ok" THEN Read(t, NilTag) ELSE Taken(mpack_parse_tag(t, in)))

mpack_peek_tag(r, in) ==
  Then(WithReadTrack(r, Tracked(r.track, mpack_track_peek_element(r.track))),
       LAMBDA t : IF t.err # "ok" THEN Read(t, NilTag)
                  ELSE Then(mpack_parse_tag(t, in), LAMBDA p : Read(p.r, p.got.tag)))

\* mpack_discard: one element with all it contains.
RECURSIVE mpack_discard(_, _), DiscardAll(_, _, _)
DiscardAll(r, in, n) ==
  IF n = 0 \/ Stopped(r) THEN r ELSE DiscardAll(mpack_discard(r, in), in, n - 1)

mpack_discard(r, in) ==
  LET Inner(t) == CASE t.got.type \in {"str", "bin"} -> mpack_skip_bytes(t.r, in, t.got.n)
                    [] t.got.type = "array" -> DiscardAll(t.r, in, t.got.n)
                    [] t.got.type = "map" -> DiscardAll(t.r, in, 2 * t.got.n)
  IN  Then(mpack_read_tag(r, in),
           LAMBDA t : IF Stopped(t.r) \/ t.got.type \notin Compound THEN t.r
                      ELSE mpack_done_type(Inner(t), t.got.type))

------------------------------------------------------------------------------
\* The functions that read the content of a string or binary.
mpack_read_bytes(r, in, count) == mpack_read_native(mpack_reader_track_bytes(r, count), in, count)

\* Only if the check holds; else the error is flagged and nothing is got.
Checked(read, ok, e) ==
  IF read.r.err = "ok" /\ ~ok THEN Read(mpack_reader_flag_error(read.r, e), <<>>) ELSE read

mpack_read_utf8(r, in, count) ==
  Then(mpack_read_native(mpack_reader_track_str_bytes_all(r, count), in, count),
       LAMBDA b : Checked(b, Utf8Check(b.got, TRUE), "type"))

\* mpack_read_cstr_unchecked: the terminator must fit too.
ReadCstrUnchecked(r, in, bufsize, count) ==
  IF r.err # "ok" THEN Read(r, <<>>)
  ELSE IF count > bufsize - 1 THEN Read(mpack_reader_flag_error(r, "too_big"), <<>>)
  ELSE mpack_read_native(mpack_reader_track_str_bytes_all(r, count), in, count)

mpack_read_cstr(r, in, bufsize, count) ==
  Then(ReadCstrUnchecked(r, in, bufsize, count), LAMBDA b : Checked(b, NoNull(b.got), "type"))

mpack_read_utf8_cstr(r, in, bufsize, count) ==
  Then(ReadCstrUnchecked(r, in, bufsize, count), LAMBDA b : Checked(b, Utf8Check(b.got, FALSE), "type"))

\* mpack_read_bytes_alloc_impl: as read_bytes, into memory of its own.
mpack_read_bytes_alloc(r, in, count) ==
  IF r.err # "ok" THEN Read(r, <<>>) ELSE mpack_read_bytes(r, in, count)

\* The bytes where they lie in the buffer, which must hold them all.
InplaceNotrack(r, in, count) ==
  Then(IF Stopped(r) THEN r ELSE mpack_reader_ensure(r, in, count),
       LAMBDA e : IF Stopped(e) THEN Read(e, <<>>) ELSE Read(Consume(e, count), SubSeq(e.data, 1, count)))

mpack_read_bytes_inplace(r, in, count) == InplaceNotrack(mpack_reader_track_bytes(r, count), in, count)

mpack_read_utf8_inplace(r, in, count) ==
  Then(InplaceNotrack(mpack_reader_track_str_bytes_all(r, count), in, count),
       LAMBDA b : Checked(b, Utf8Check(b.got, TRUE), "type"))

mpack_reader_destroy(r) ==
  [(IF r.tracking THEN mpack_reader_flag_error(r, mpack_track_check_empty(r.track)) ELSE r)
    EXCEPT !.live = FALSE]
==============================================================================
