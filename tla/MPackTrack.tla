------------------------------ MODULE MPackTrack ------------------------------
(***************************************************************************)
(* The tracking of open elements that debug builds of mpack compile in     *)
(* (MPACK_READ_TRACKING, MPACK_WRITE_TRACKING): a stack of the compound    *)
(* elements that are open, with the elements or bytes each still expects.  *)
(* An operator answers with the stack and the error the call returns.      *)
(***************************************************************************)
EXTENDS Integers, Sequences

Tracked(track, err) == [track |-> track, err |-> err]

Opened(type, left, builder) ==
  [type |-> type, left |-> left, builder |-> builder, key_needs_value |-> FALSE]

OpenElement(track) == track[Len(track)]

\* mpack_track_push and mpack_track_push_builder; the array of elements grows as needed.
mpack_track_push(track, type, count) ==
  Tracked(Append(track, Opened(type, count, FALSE)), "ok")

mpack_track_push_builder(track, type) ==
  Tracked(Append(track, Opened(type, 0, TRUE)), "ok")

mpack_track_pop_impl(track, type, builder) ==
  IF /\ track # <<>>
     /\ OpenElement(track).type = type
     /\ ~OpenElement(track).key_needs_value
     /\ OpenElement(track).left = 0
     /\ OpenElement(track).builder = builder
  THEN Tracked(SubSeq(track, 1, Len(track) - 1), "ok")
  ELSE Tracked(track, "bug")

\* An element may come at the top, or in an array or map that expects one more.
mpack_track_peek_element(track) ==
  IF track = <<>>
     \/ /\ OpenElement(track).type \in {"map", "array"}
        /\ \/ OpenElement(track).builder
           \/ OpenElement(track).left > 0
           \/ OpenElement(track).key_needs_value
  THEN "ok" ELSE "bug"

\* Mutant: a key is checked off as well as its value.
mpack_track_element_CountsKey(track) ==
  LET e == OpenElement(track)
  IN  IF track = <<>> \/ mpack_track_peek_element(track) # "ok"
      THEN Tracked(track, mpack_track_peek_element(track))
      ELSE Tracked([track EXCEPT ![Len(track)] =
                     [e EXCEPT !.key_needs_value = e.type = "map" /\ ~@,
                               !.left = IF e.builder THEN @ ELSE @ - 1]], "ok")

\* In a map only the value of a pair counts, not its key.
mpack_track_element(track) ==
  LET e      == OpenElement(track)
      is_key == e.type = "map" /\ ~e.key_needs_value
      left   == IF is_key \/ e.builder THEN e.left ELSE e.left - 1
  IN  IF track = <<>> \/ mpack_track_peek_element(track) # "ok"
      THEN Tracked(track, mpack_track_peek_element(track))
      ELSE Tracked([track EXCEPT ![Len(track)] =
                     [e EXCEPT !.key_needs_value = is_key, !.left = left]], "ok")

mpack_track_bytes(track, count) ==
  IF /\ track # <<>>
     /\ OpenElement(track).type \notin {"map", "array"}
     /\ OpenElement(track).left >= count
  THEN Tracked([track EXCEPT ![Len(track)].left = @ - count], "ok")
  ELSE Tracked(track, "bug")

\* A string that must be read whole, in one call.
mpack_track_str_bytes_all(track, count) ==
  LET read == mpack_track_bytes(track, count)
  IN  IF read.err = "ok" /\ (OpenElement(read.track).type # "str" \/ OpenElement(read.track).left # 0)
      THEN Tracked(read.track, "bug") ELSE read

mpack_track_check_empty(track) == IF track = <<>> THEN "ok" ELSE "bug"
==============================================================================
