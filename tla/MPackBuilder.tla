----------------------------- MODULE MPackBuilder -----------------------------
(***************************************************************************)
(* The builder of mpack (rpcserver/mpack/mpack.c): arrays and maps whose   *)
(* number of elements is not known when they are opened.  Until the last   *)
(* one is complete the writer writes into a chain of pages, with a record  *)
(* in place of each head; then the pages are walked, every record becomes  *)
(* the head with the final count, and everything goes to the real buffer.  *)
(***************************************************************************)
EXTENDS MPackWriter

AlignBuild(offset) == ((offset + Alignment - 1) \div Alignment) * Alignment
FirstBuild == AlignBuild(HeaderSize)

\* The real buffer is set aside and the first page takes its place.
mpack_builder_begin(w) ==
  mpack_builder_add_page([w EXCEPT !.stash = [buf |-> w.buf, size |-> w.size]])

(* A record needs aligned space in one page, and a page needs room for any
   tag behind it; else the rest of the page is left and a new one begun.    *)
mpack_builder_build(w, type) ==
  LET WithTracking(t) == IF t.tracking /\ t.err = "ok"
                         THEN WithTrack(t, mpack_track_push_builder(t.track, type)) ELSE t
      InPages(p) == IF p.current = NoBuild THEN mpack_builder_begin(p) ELSE mpack_builder_apply_writes(p)
      Placed(q, page, offset) == [q EXCEPT
        !.pages[page] = @ \o Filler(offset + BuildSize - Used(@)),
        !.builds = Append(@, [page |-> page, offset |-> offset, parent |-> q.current, type |-> type,
                              bytes |-> 0, count |-> 0, key_needs_value |-> FALSE, nested |-> 0]),
        !.current = Len(q.builds) + 1]
      Build(b, aligned) == IF aligned + BuildSize <= PageSize THEN Placed(b, Len(b.pages), aligned)
                           ELSE Placed(mpack_builder_add_page(b), Len(b.pages) + 1, FirstBuild)
      WithRoom(b) == IF PageSize - Used(Last(b.pages)) < MinBuffer THEN mpack_builder_add_page(b) ELSE b
  IN  IF w.err # "ok" THEN w
      ELSE Then(InPages(WithTracking(mpack_writer_track_element(w))),
                LAMBDA b : IF b.err # "ok" THEN b
                           ELSE mpack_builder_configure_buffer(
                                  WithRoom(Build(b, AlignBuild(Used(Last(b.pages)))))))

------------------------------------------------------------------------------
(* Writes left bytes from an offset of a page on, skipping the header of
   every further page.  Answers with the writer and where it stopped.       *)
CopyOut(w, pages, page, offset, left) ==
  LET Copy(c) ==
        LET step == Lesser(Used(pages[c.page]) - c.offset, c.left)
            w1   == IF step > 0
                    THEN mpack_write_native(c.w, SubSeq(pages[c.page], c.offset + 1, c.offset + step))
                    ELSE c.w
        IN  IF step = c.left THEN [w |-> w1, page |-> c.page, offset |-> c.offset + step, left |-> 0]
            ELSE [w |-> w1, page |-> c.page + 1, offset |-> HeaderSize, left |-> c.left - step]
  IN  Turns(Len(pages), [w |-> w, page |-> page, offset |-> offset, left |-> left], Copy)

\* Where the walk looks for the next record: the test that leaves a page is >=.
NextBuild(at) ==
  LET offset == AlignBuild(at.offset)
  IN  IF offset + BuildSize >= PageSize THEN [w |-> at.w, page |-> at.page + 1, offset |-> FirstBuild]
      ELSE [w |-> at.w, page |-> at.page, offset |-> offset]

(* The walk from the record at an offset of a page; a turn writes one record
   out.  Where bytes lie that are no record they are taken for one: its type is
   whatever they hold, and the walk ends as the code does for a wrong type. *)
Walk(w, pages, builds) ==
  LET WriteOut(at) ==
        LET there == {i \in DOMAIN builds : builds[i].page = at.page /\ builds[i].offset = at.offset}
            build == builds[CHOOSE i \in there : TRUE]
            head  == WriteEncoded(at.w, Encode(Tag(build.type, build.count)))
        IN  IF at.page > Len(pages) \/ at.offset + BuildSize > Used(pages[at.page]) THEN at
            ELSE IF there = {} THEN [at EXCEPT !.w = mpack_writer_flag_error(@, "bug")]
            ELSE NextBuild(CopyOut(head, pages, at.page, at.offset + BuildSize, build.bytes))
  IN  Turns(Len(builds) + 1, [w |-> w, page |-> 1, offset |-> FirstBuild], WriteOut).w

mpack_builder_resolve(w) ==
  Walk([w EXCEPT !.buf = w.stash.buf, !.size = w.stash.size, !.current = NoBuild,
                 !.pages = <<>>, !.builds = <<>>],
       w.pages, w.builds)

mpack_builder_complete(w, type) ==
  LET t == IF w.tracking
           THEN WithTrack(w, mpack_track_pop_impl(w.track, type, TRUE)) ELSE w
      build == t.builds[t.current]
      a == mpack_builder_apply_writes(t)
  IN  IF w.err # "ok" THEN w
      ELSE IF t.err # "ok" THEN t
      ELSE IF build.key_needs_value \/ build.nested # 0 THEN mpack_writer_flag_error(t, "bug")
      ELSE IF build.parent # NoBuild
      THEN mpack_builder_configure_buffer([a EXCEPT !.current = build.parent])
      ELSE mpack_builder_resolve(a)
==============================================================================
