----------------------------- MODULE MPackWriter -----------------------------
(***************************************************************************)
(* The mpack writer (rpcserver/mpack/mpack.c) as operators on its state:   *)
(* the bytes between buffer and position, the flush function behind them,  *)
(* the tracking of debug builds and the builder's pages.  A function of    *)
(* the code is an operator of the same name that returns the next state.   *)
(***************************************************************************)
EXTENDS MPackFormat, MPackTrack

CONSTANTS
  PageSize,   \* MPACK_BUILDER_PAGE_SIZE
  HeaderSize, \* sizeof(mpack_builder_page_t)
  BuildSize,  \* sizeof(mpack_build_t)
  Alignment   \* MPACK_BUILD_ALIGNMENT

MinBuffer == 32 \* MPACK_WRITER_MINIMUM_BUFFER_SIZE

\* The static assertion of mpack_builder_check_sizes.
ASSUME PageAssumption == PageSize >= HeaderSize + BuildSize + MinBuffer

NoBuild == 0

\* mpack_writer_flag_error: the first error stays.
mpack_writer_flag_error(w, e) == [w EXCEPT !.err = IF @ = "ok" THEN e ELSE @]

(* mpack_writer_init with the flush function a kind of writer sets: "none"
   (the caller's buffer), "file" (a callback that takes the bytes, like
   fwrite's) or "growable".  failing is the number of the flush that fails,
   fclose counting as the last one, 0 for none.                             *)
NewWriter(kind, size, tracking, failing) ==
  LET w == [kind |-> kind, size |-> size, buf |-> <<>>, err |-> "ok",
            tracking |-> tracking, track |-> <<>>,
            failing |-> failing, flushes |-> 0, out |-> <<>>, live |-> TRUE,
            pages |-> <<>>, builds |-> <<>>, current |-> NoBuild,
            stash |-> [buf |-> <<>>, size |-> 0]]
  IN  IF kind # "none" /\ size < MinBuffer THEN mpack_writer_flag_error(w, "bug") ELSE w

BufferLeft(w) == w.size - Len(w.buf)
Put(w, bytes) == [w EXCEPT !.buf = @ \o bytes]

WithTrack(w, t) == mpack_writer_flag_error([w EXCEPT !.track = t.track], t.err)

mpack_writer_track_push(w, type, n) ==
  IF w.tracking /\ w.err = "ok" THEN WithTrack(w, mpack_track_push(w.track, type, n)) ELSE w

mpack_writer_track_pop(w, type) ==
  IF w.tracking /\ w.err = "ok" THEN WithTrack(w, mpack_track_pop_impl(w.track, type, FALSE)) ELSE w

mpack_writer_track_bytes(w, n) ==
  IF w.tracking /\ w.err = "ok" THEN WithTrack(w, mpack_track_bytes(w.track, n)) ELSE w

------------------------------------------------------------------------------
(* Flush functions.  A failing fwrite may have written a part of its bytes. *)
FileFlush(w, data) ==
  IF w.flushes + 1 = w.failing
  THEN mpack_writer_flag_error([w EXCEPT !.flushes = @ + 1,
         !.out = @ \o SubSeq(data, 1, Len(data) \div 2)], "io")
  ELSE [w EXCEPT !.flushes = @ + 1, !.out = @ \o data]

\* mpack_growable_writer_flush: nothing at teardown, else the buffer doubles till all fits.
GrowableFlush(w, data, external) ==
  LET kept == IF external THEN w.buf \o data ELSE data
      Fits(k) == w.size * 2 ^ k >= Len(kept)
      Doublings == CHOOSE k \in 1 .. 12 : Fits(k) /\ \A j \in 1 .. k - 1 : ~Fits(j)
  IN  IF ~external /\ Len(w.buf) = Len(data) THEN w
      ELSE [w EXCEPT !.buf = kept, !.size = @ * 2 ^ Doublings]

\* external: the data is the caller's, not the writer's own buffer.
Flush(w, data, external) ==
  IF w.kind = "file" THEN FileFlush(w, data) ELSE GrowableFlush(w, data, external)

\* The position is reset before the flush function sees the bytes.
mpack_writer_flush_unchecked(w) == Flush([w EXCEPT !.buf = <<>>], w.buf, FALSE)

------------------------------------------------------------------------------
(* The builder's pages.  A page holds its used bytes, header included; a
   build record lies at an offset of a page and covers BuildSize of them.   *)
Filler(n) == [i \in 1 .. n |-> 0]
Used(page) == Len(page)

mpack_builder_add_page(w) == [w EXCEPT !.pages = Append(@, Filler(HeaderSize))]

mpack_builder_configure_buffer(w) ==
  IF w.err # "ok" THEN w
  ELSE [w EXCEPT !.buf = <<>>, !.size = PageSize - Used(Last(w.pages))]

\* The bytes written count for the latest build, complete or not.
mpack_builder_apply_writes(w) ==
  [w EXCEPT !.pages[Len(w.pages)] = @ \o w.buf,
            !.builds[Len(w.builds)].bytes = @ + Len(w.buf)]

mpack_builder_flush(w) ==
  mpack_builder_configure_buffer(mpack_builder_add_page(mpack_builder_apply_writes(w)))

\* An element counts in the open build unless it is nested in an array or map of known size.
CountInBuild(build) ==
  IF build.nested > 0 THEN build
  ELSE IF build.type = "map" /\ ~build.key_needs_value
       THEN [build EXCEPT !.key_needs_value = TRUE]
       ELSE [build EXCEPT !.key_needs_value = FALSE, !.count = @ + 1]

mpack_writer_track_element(w) ==
  LET t == IF w.tracking /\ w.err = "ok" THEN WithTrack(w, mpack_track_element(w.track)) ELSE w
  IN  IF w.current = NoBuild THEN t
      ELSE [t EXCEPT !.builds[w.current] = CountInBuild(@)]

mpack_builder_compound(w, change) ==
  IF w.current = NoBuild THEN w ELSE [w EXCEPT !.builds[w.current].nested = @ + change]

------------------------------------------------------------------------------
\* Room for count bytes, or an error.
mpack_writer_ensure(w, count) ==
  IF w.err # "ok" THEN w
  ELSE IF w.current # NoBuild THEN mpack_builder_flush(w)
  ELSE IF w.kind = "none" THEN mpack_writer_flag_error(w, "too_big")
  ELSE LET f == mpack_writer_flush_unchecked(w)
       IN  IF BufferLeft(f) >= count THEN f ELSE mpack_writer_flag_error(f, "io")

\* MPACK_WRITE_ENCODED
WriteEncoded(w, bytes) ==
  LET e == IF BufferLeft(w) >= Len(bytes) THEN w ELSE mpack_writer_ensure(w, Len(bytes))
  IN  IF BufferLeft(w) >= Len(bytes) \/ e.err = "ok" THEN Put(e, bytes) ELSE e

(* The bytes go into as many pages of a build as it takes: a turn fills what is
   left of one and begins the next.                                         *)
PutInPages(w, bytes) ==
  LET NextPage(p) ==
        LET step   == Lesser(BufferLeft(p.w), Len(p.bytes))
            filled == Put(p.w, SubSeq(p.bytes, 1, step))
        IN  [w     |-> IF step = Len(p.bytes) THEN filled ELSE mpack_builder_flush(filled),
             bytes |-> SubSeq(p.bytes, step + 1, Len(p.bytes))]
  IN  Turns(Len(bytes) \div (PageSize - HeaderSize) + 2, [w |-> w, bytes |-> bytes], NextPage).w

\* mpack_write_native_straddle for bytes that do not fit: into the pages of a build, or flushed.
mpack_write_native_straddle(w, bytes) ==
  LET flushed == mpack_writer_flush_unchecked(w)
  IN  IF w.err # "ok" THEN w
      ELSE IF w.current # NoBuild THEN PutInPages(w, bytes)
      ELSE IF w.kind = "none" THEN mpack_writer_flag_error(w, "too_big")
      ELSE IF flushed.err # "ok" THEN flushed
      ELSE IF Len(bytes) > BufferLeft(flushed) THEN Flush(flushed, bytes, TRUE)
      ELSE Put(flushed, bytes)

\* Mutant: bytes that do not fit are flushed past those in the buffer.
mpack_write_native_Overtakes(w, bytes) ==
  IF BufferLeft(w) >= Len(bytes) THEN Put(w, bytes)
  ELSE IF w.kind = "file" /\ w.current = NoBuild /\ w.err = "ok" THEN Flush(w, bytes, TRUE)
  ELSE mpack_write_native_straddle(w, bytes)

mpack_write_native(w, bytes) ==
  IF BufferLeft(w) >= Len(bytes) THEN Put(w, bytes) ELSE mpack_write_native_straddle(w, bytes)

------------------------------------------------------------------------------
\* The write functions of elements without content: nil, bool, numbers.
WriteScalar(w, tag) == WriteEncoded(mpack_writer_track_element(w), Encode(tag))

\* mpack_start_array, mpack_start_map
StartCompound(w, type, count) ==
  mpack_builder_compound(
    mpack_writer_track_push(WriteScalar(w, Tag(type, count)), type, count), 1)

\* mpack_finish_array, mpack_finish_map
FinishCompound(w, type) == mpack_builder_compound(mpack_writer_track_pop(w, type), -1)

\* mpack_start_str, mpack_start_bin
StartBytes(w, type, count) ==
  mpack_writer_track_push(WriteScalar(w, Tag(type, count)), type, count)

mpack_write_bytes(w, bytes) ==
  mpack_write_native(mpack_writer_track_bytes(w, Len(bytes)), bytes)

\* A short string goes into the buffer with its head, in one piece.
mpack_write_str(w, bytes) ==
  LET t == mpack_writer_track_element(w)
  IN  IF Len(bytes) <= 31 THEN WriteEncoded(t, EncodeStr(Len(bytes)) \o bytes)
      ELSE mpack_write_native(WriteEncoded(t, EncodeStr(Len(bytes))), bytes)

mpack_write_bin(w, bytes) ==
  mpack_writer_track_pop(
    mpack_write_bytes(StartBytes(w, "bin", Len(bytes)), bytes), "bin")

mpack_write_utf8(w, bytes) ==
  IF Utf8Check(bytes, TRUE) THEN mpack_write_str(w, bytes)
                            ELSE mpack_writer_flag_error(w, "invalid")

\* mpack_write_object_bytes: one encoded object.
mpack_write_object_bytes(w, bytes) == mpack_write_native(mpack_writer_track_element(w), bytes)

mpack_writer_flush_message(w) ==
  LET t == IF w.tracking THEN mpack_writer_flag_error(w, mpack_track_check_empty(w.track)) ELSE w
  IN  IF t.err # "ok" THEN t
      ELSE IF w.current # NoBuild \/ w.kind = "none" THEN mpack_writer_flag_error(w, "bug")
      ELSE IF w.buf = <<>> THEN w ELSE mpack_writer_flush_unchecked(w)

(* mpack_writer_destroy: the last flush, then the teardown hands the bytes
   over.  The error of mpack_track_destroy is dropped.                      *)
mpack_writer_destroy(w) ==
  LET f == IF w.err = "ok" /\ w.buf # <<>> /\ w.kind # "none" THEN Flush(w, w.buf, FALSE) ELSE w
      closed == [f EXCEPT !.live = FALSE]
  IN  CASE w.kind = "file" /\ f.flushes + 1 = w.failing -> mpack_writer_flag_error(closed, "io")
        [] w.kind # "file" /\ f.err = "ok" -> [closed EXCEPT !.out = f.buf]
        [] OTHER -> closed
==============================================================================
