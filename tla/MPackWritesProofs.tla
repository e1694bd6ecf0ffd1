-------------------------- MODULE MPackWritesProofs --------------------------
(***************************************************************************)
(* Theorem about MPackWrites: without builds, what a writer hands over is  *)
(* the encoding of its calls or the beginning of it.  Every function of    *)
(* the writer is shown to write its own bytes behind those before it, in   *)
(* the buffer and in the output together, or to fail with an output that   *)
(* is the beginning of that; the functions are then put together.          *)
(***************************************************************************)
EXTENDS MPackWrites, SequenceTheorems, WellFoundedInduction, TLAPS

------------------------------------------------------------------------------
(* Sequences of bytes.                                                      *)
Bytes == Seq(Int)

\* t begins with s.
Starts(s, t) == \E rest \in Bytes : t = s \o rest

LEMMA Joined ==
  ASSUME NEW x \in Bytes, NEW y \in Bytes
  PROVE  x \o y \in Bytes
  BY ConcatProperties DEF Bytes

LEMMA Empty ==
  /\ <<>> \in Bytes
  /\ \A x \in Bytes : x \o <<>> = x /\ <<>> \o x = x
  BY ConcatEmptySeq, EmptySeq, Zenon DEF Bytes

LEMMA Regrouped ==
  ASSUME NEW x \in Bytes, NEW y \in Bytes, NEW z \in Bytes
  PROVE  (x \o y) \o z = x \o (y \o z)
<1>1. x \in Seq(Int) /\ y \in Seq(Int) /\ z \in Seq(Int)
  BY DEF Bytes
<1> QED
  BY <1>1, ConcatAssociative, SMTT(60)

LEMMA StartsSelf ==
  ASSUME NEW x \in Bytes
  PROVE  Starts(x, x)
  BY Empty, Zenon DEF Starts

LEMMA StartsLonger ==
  ASSUME NEW s \in Bytes, NEW t \in Bytes, NEW x \in Bytes, Starts(s, t)
  PROVE  Starts(s, t \o x)
<1>1. PICK rest \in Bytes : t = s \o rest
  BY DEF Starts
<1>2. t \o x = s \o (rest \o x) /\ rest \o x \in Bytes
  <2>1. (s \o rest) \o x = s \o (rest \o x)
    BY Regrouped, SMTT(30)
  <2>2. rest \o x \in Bytes
    BY Joined
  <2> QED
    BY <1>1, <2>1, <2>2, Zenon
<1> QED
  BY <1>2, Zenon DEF Starts

LEMMA StartsJoined ==
  ASSUME NEW s \in Bytes, NEW t \in Bytes, NEW x \in Bytes, Starts(s, t)
  PROVE  Starts(x \o s, x \o t)
<1>1. PICK rest \in Bytes : t = s \o rest
  BY DEF Starts
<1>2. x \o t = (x \o s) \o rest
  BY <1>1, Regrouped, SMTT(30)
<1> QED
  BY <1>1, <1>2, Zenon DEF Starts

\* A part of some bytes from their beginning.
LEMMA StartsPart ==
  ASSUME NEW x \in Bytes, NEW k \in 0 .. Len(x)
  PROVE  SubSeq(x, 1, k) \in Bytes /\ Starts(SubSeq(x, 1, k), x)
<1>1. Len(x) \in Nat /\ \A i \in 1 .. Len(x) : x[i] \in Int
  BY LenProperties, ElementOfSeq DEF Bytes
<1>2. SubSeq(x, 1, k) \in Bytes /\ SubSeq(x, k + 1, Len(x)) \in Bytes
  <2>1. \A i \in 1 .. k : x[i] \in Int
    BY <1>1
  <2>2. \A i \in k + 1 .. Len(x) : x[i] \in Int
    BY <1>1
  <2> QED
    BY <1>1, <2>1, <2>2, SubSeqProperties DEF Bytes
<1>3. x = SubSeq(x, 1, k) \o SubSeq(x, k + 1, Len(x))
  <2>1. SubSeq(x, 1, Len(x)) = x
    BY SubSeqFull DEF Bytes
  <2>2. SubSeq(x, 1, k) \o SubSeq(x, k + 1, Len(x)) = SubSeq(x, 1, Len(x))
    <3>1. /\ x \in Seq(Int) /\ 1 \in 1 .. Len(x) + 1
          /\ k \in 1 - 1 .. Len(x) /\ Len(x) \in k .. Len(x)
      BY <1>1 DEF Bytes
    <3> QED
      BY <3>1, ConcatAdjacentSubSeq
  <2> QED
    BY <2>1, <2>2
<1> QED
  BY <1>2, <1>3, Zenon DEF Starts

\* What begins with s has s as its prefix.
LEMMA StartsPrefix ==
  ASSUME NEW s \in Bytes, NEW t \in Bytes, Starts(s, t)
  PROVE  IsPrefix(s, t)
<1>1. PICK rest \in Bytes : t = s \o rest
  BY DEF Starts
<1>2. Len(s) \in Nat /\ Len(rest) \in Nat /\ Len(t) = Len(s) + Len(rest)
  BY <1>1, ConcatProperties, LenProperties DEF Bytes
<1>3. SubSeq(s, 1, Len(s)) = SubSeq(t, 1, Len(s))
  <2>1. CASE Len(s) = 0
    BY <2>1, SubSeqEmpty
  <2>2. CASE Len(s) # 0
    <3>1. 1 \in 1 .. Len(s) /\ Len(s) \in 1 .. Len(s)
      BY <1>2, <2>2
    <3> QED
      BY <1>1, <3>1, SubSeqOfConcat1 DEF Bytes
  <2> QED
    BY <2>1, <2>2
<1> QED
  BY <1>2, <1>3 DEF IsPrefix

------------------------------------------------------------------------------
(* What it means that a function of the writer writes some bytes.           *)
IsWriter(x) ==
  /\ x = [kind |-> x.kind, size |-> x.size, buf |-> x.buf, err |-> x.err,
          tracking |-> x.tracking, track |-> x.track, failing |-> x.failing,
          flushes |-> x.flushes, out |-> x.out, live |-> x.live, pages |-> x.pages,
          builds |-> x.builds, current |-> x.current, stash |-> x.stash]
  /\ x.kind \in {"none", "growable", "file"}
  /\ x.buf \in Bytes /\ x.out \in Bytes
  /\ x.current = NoBuild

(* From writer a to writer b: what is handed over and what is in the buffer
   become longer by the bytes, or there is an error and what is handed over is
   the beginning of that; with an error from before nothing is handed over.  *)
Writes(a, b, bytes) ==
  /\ IsWriter(b)
  /\ b.kind = a.kind /\ b.live = a.live
  /\ a.err # "ok" => b.err # "ok" /\ b.out = a.out
  /\ a.err = "ok" /\ b.err = "ok" => b.out \o b.buf = (a.out \o a.buf) \o bytes
  /\ a.err = "ok" /\ b.err # "ok" => Starts(b.out, (a.out \o a.buf) \o bytes)
  /\ a.kind # "file" => b.out = a.out

LEMMA WritesNothing ==
  ASSUME NEW a, IsWriter(a)
  PROVE  Writes(a, a, <<>>)
<1>1. a.out \o a.buf \in Bytes
  BY Joined DEF IsWriter
<1>2. (a.out \o a.buf) \o <<>> = a.out \o a.buf
  BY <1>1, Empty
<1> QED
  BY <1>2, Zenon DEF Writes

LEMMA WritesThen ==
  ASSUME NEW a, NEW b, NEW c, NEW x \in Bytes, NEW y \in Bytes,
         IsWriter(a), Writes(a, b, x), Writes(b, c, y)
  PROVE  Writes(a, c, x \o y)
<1>1. PICK u \in Bytes, v \in Bytes, z \in Bytes :
        u = a.out \o a.buf /\ v = b.out \o b.buf /\ z = c.out \o c.buf
  <2>1. IsWriter(a) /\ IsWriter(b) /\ IsWriter(c)
    BY DEF Writes
  <2> QED
    BY <2>1, Joined DEF IsWriter
<1>2. u \o x \in Bytes /\ (u \o x) \o y = u \o (x \o y)
  <2>1. u \o x \in Bytes
    BY Joined
  <2>2. (u \o x) \o y = u \o (x \o y)
    BY Regrouped, SMTT(30)
  <2> QED
    BY <2>1, <2>2, Zenon
<1>3. ASSUME a.err = "ok", c.err = "ok"
      PROVE  c.out \o c.buf = (a.out \o a.buf) \o (x \o y)
  <2>1. b.err = "ok"
    BY <1>3 DEF Writes
  <2>2. v = u \o x /\ z = v \o y
    BY <1>1, <1>3, <2>1, Zenon DEF Writes
  <2> QED
    BY <1>1, <1>2, <2>2, Zenon
<1>4. ASSUME a.err = "ok", c.err # "ok"
      PROVE  Starts(c.out, (a.out \o a.buf) \o (x \o y))
  <2>1. c.out \in Bytes /\ b.out \in Bytes
    BY DEF Writes, IsWriter
  <2>2. CASE b.err = "ok"
    <3>1. v = u \o x /\ Starts(c.out, v \o y)
      BY <1>1, <1>4, <2>2, Zenon DEF Writes
    <3> QED
      BY <1>1, <1>2, <3>1, Zenon
  <2>3. CASE b.err # "ok"
    <3>1. Starts(c.out, u \o x)
      BY <1>1, <1>4, <2>3, Zenon DEF Writes
    <3>2. Starts(c.out, (u \o x) \o y)
      BY <1>2, <2>1, <3>1, StartsLonger
    <3> QED
      BY <1>1, <1>2, <3>2, Zenon
  <2> QED
    BY <2>2, <2>3
<1>5. /\ IsWriter(c) /\ c.kind = a.kind /\ c.live = a.live
      /\ a.err # "ok" => c.err # "ok" /\ c.out = a.out
      /\ a.kind # "file" => c.out = a.out
  BY Zenon DEF Writes
<1> QED
  BY <1>3, <1>4, <1>5, Zenon DEF Writes

\* With an error it makes no difference how much more there was to write.
LEMMA WritesLess ==
  ASSUME NEW a, NEW b, NEW x \in Bytes, NEW y \in Bytes,
         IsWriter(a), Writes(a, b, x), b.err # "ok"
  PROVE  Writes(a, b, x \o y)
<1>1. PICK u \in Bytes : u = a.out \o a.buf
  BY Joined DEF IsWriter
<1>2. u \o x \in Bytes /\ (u \o x) \o y = u \o (x \o y) /\ b.out \in Bytes
  <2>1. b.out \in Bytes
    BY DEF Writes, IsWriter
  <2> QED
    BY <2>1, Joined, Regrouped, ZenonT(30)
<1>3. a.err = "ok" => Starts(b.out, u \o (x \o y))
  BY <1>1, <1>2, StartsLonger, Zenon DEF Writes
<1> QED
  BY <1>1, <1>3, Zenon DEF Writes

------------------------------------------------------------------------------
(* The parts of a writer.                                                   *)

\* An error, new or not.
LEMMA FlagWrites ==
  ASSUME NEW a, NEW e, NEW x \in Bytes, IsWriter(a)
  PROVE  LET b == mpack_writer_flag_error(a, e)
         IN  /\ Writes(a, b, <<>>)
             /\ b.err = IF a.err = "ok" THEN e ELSE a.err
             /\ b.buf = a.buf /\ b.out = a.out /\ b.tracking = a.tracking
             /\ e # "ok" => Writes(a, b, x)
<1>1. PICK b : b = mpack_writer_flag_error(a, e)
  OBVIOUS
<1>2. b = [a EXCEPT !.err = IF a.err = "ok" THEN e ELSE a.err]
  BY <1>1 DEF mpack_writer_flag_error
<1>3. /\ b.err = IF a.err = "ok" THEN e ELSE a.err
      /\ b.kind = a.kind /\ b.live = a.live /\ b.buf = a.buf /\ b.out = a.out
      /\ b.tracking = a.tracking
  BY <1>2 DEF IsWriter
<1>4. IsWriter(b)
  BY <1>2 DEF IsWriter
<1>5. PICK u \in Bytes : u = a.out \o a.buf
  BY Joined DEF IsWriter
<1>6. \A z \in Bytes : Starts(a.out, u \o z)
  <2>1. ASSUME NEW z \in Bytes PROVE Starts(a.out, u \o z)
    <3>1. a.out \in Bytes /\ a.buf \in Bytes
      BY DEF IsWriter
    <3>2. Starts(a.out, u)
      BY <1>5, <3>1, Zenon DEF Starts
    <3> QED
      BY <3>1, <3>2, StartsLonger
  <2> QED
    BY <2>1
<1>7. u \o <<>> = u /\ <<>> \in Bytes
  BY Empty
<1>8. Writes(a, b, <<>>)
  BY <1>3, <1>4, <1>5, <1>6, <1>7, Zenon DEF Writes
<1>9. e # "ok" => Writes(a, b, x)
  <2>1. e # "ok" => b.err # "ok"
    BY <1>3
  <2> QED
    BY <2>1, <1>3, <1>4, <1>5, <1>6, Zenon DEF Writes
<1> QED
  BY <1>1, <1>3, <1>8, <1>9, Zenon

\* Bytes put into the buffer.
LEMMA PutWrites ==
  ASSUME NEW a, NEW x \in Bytes, IsWriter(a)
  PROVE  Writes(a, Put(a, x), x)
<1>1. PICK b : b = Put(a, x)
  OBVIOUS
<1>2. b = [a EXCEPT !.buf = a.buf \o x]
  BY <1>1 DEF Put
<1>3. a.buf \o x \in Bytes /\ a.out \in Bytes /\ a.buf \in Bytes
  BY Joined DEF IsWriter
<1>4. /\ b.err = a.err /\ b.kind = a.kind /\ b.live = a.live
      /\ b.buf = a.buf \o x /\ b.out = a.out
  BY <1>2 DEF IsWriter
<1>5. IsWriter(b)
  BY <1>2, <1>3 DEF IsWriter
<1>6. b.out \o b.buf = (a.out \o a.buf) \o x
  <2>1. (a.out \o a.buf) \o x = a.out \o (a.buf \o x)
    BY <1>3, Regrouped, ZenonT(30)
  <2> QED
    BY <1>4, <2>1, Zenon
<1> QED
  BY <1>1, <1>4, <1>5, <1>6, Zenon DEF Writes

\* What tracking makes of a call.
LEMMA TrackWrites ==
  ASSUME NEW a, NEW t, IsWriter(a)
  PROVE  Writes(a, WithTrack(a, t), <<>>) /\ WithTrack(a, t).buf = a.buf
<1>1. PICK b : b = [a EXCEPT !.track = t.track]
  OBVIOUS
<1>2. /\ b.err = a.err /\ b.kind = a.kind /\ b.live = a.live
      /\ b.buf = a.buf /\ b.out = a.out /\ IsWriter(b)
  BY <1>1 DEF IsWriter
<1>3. PICK c : c = mpack_writer_flag_error(b, t.err)
  OBVIOUS
<1>4. Writes(b, c, <<>>) /\ c.buf = b.buf
  BY <1>2, <1>3, FlagWrites, Empty, Zenon
<1>5. Writes(a, c, <<>>)
  BY <1>2, <1>4, Zenon DEF Writes
<1> QED
  BY <1>1, <1>2, <1>3, <1>4, <1>5, Zenon DEF WithTrack

LEMMA TrackingWrites ==
  ASSUME NEW a, IsWriter(a)
  PROVE  /\ \A type, n : Writes(a, mpack_writer_track_push(a, type, n), <<>>)
         /\ \A type : Writes(a, mpack_writer_track_pop(a, type), <<>>)
         /\ \A n : Writes(a, mpack_writer_track_bytes(a, n), <<>>)
         /\ Writes(a, mpack_writer_track_element(a), <<>>)
         /\ \A change : mpack_builder_compound(a, change) = a
<1>1. \A t : Writes(a, WithTrack(a, t), <<>>)
  BY TrackWrites
<1>2. Writes(a, a, <<>>)
  BY WritesNothing
<1>3. a.current = NoBuild
  BY DEF IsWriter
<1>4. \A type, n : Writes(a, mpack_writer_track_push(a, type, n), <<>>)
  BY <1>1, <1>2, Zenon DEF mpack_writer_track_push
<1>5. \A type : Writes(a, mpack_writer_track_pop(a, type), <<>>)
  BY <1>1, <1>2, Zenon DEF mpack_writer_track_pop
<1>6. \A n : Writes(a, mpack_writer_track_bytes(a, n), <<>>)
  BY <1>1, <1>2, Zenon DEF mpack_writer_track_bytes
<1>7. Writes(a, mpack_writer_track_element(a), <<>>)
  BY <1>1, <1>2, <1>3, Zenon DEF mpack_writer_track_element
<1>8. \A change : mpack_builder_compound(a, change) = a
  BY <1>3, Zenon DEF mpack_builder_compound
<1> QED
  BY <1>4, <1>5, <1>6, <1>7, <1>8

------------------------------------------------------------------------------
(* Flush functions.                                                         *)

\* What is flushed to a file gets there, or its beginning does and there is an error.
LEMMA FileFlushed ==
  ASSUME NEW a, NEW x \in Bytes, IsWriter(a), a.err = "ok"
  PROVE  /\ IsWriter(FileFlush(a, x)) /\ FileFlush(a, x).kind = a.kind
         /\ FileFlush(a, x).live = a.live /\ FileFlush(a, x).buf = a.buf
         /\ FileFlush(a, x).err = "ok" => FileFlush(a, x).out = a.out \o x
         /\ Starts(FileFlush(a, x).out, a.out \o x)
<1>1. PICK n : n = a.flushes + 1
  OBVIOUS
<1>2. PICK part : part = SubSeq(x, 1, Len(x) \div 2)
  OBVIOUS
<1>3. part \in Bytes /\ Starts(part, x)
  <2>1. Len(x) \in Nat
    BY LenProperties DEF Bytes
  <2>2. Len(x) \div 2 \in 0 .. Len(x)
    BY <2>1
  <2> QED
    BY <1>2, <2>2, StartsPart
<1>4. a.out \in Bytes /\ a.buf \in Bytes
  BY DEF IsWriter
<1>5. a.out \o x \in Bytes /\ a.out \o part \in Bytes /\ Starts(a.out \o part, a.out \o x)
  BY <1>3, <1>4, Joined, StartsJoined
<1>6. CASE a.flushes + 1 = a.failing
  <2>1. PICK b : b = [a EXCEPT !.flushes = n, !.out = a.out \o part]
    OBVIOUS
  <2>2. /\ b.err = "ok" /\ b.kind = a.kind /\ b.live = a.live
        /\ b.buf = a.buf /\ b.out = a.out \o part /\ IsWriter(b)
    BY <1>5, <2>1 DEF IsWriter
  <2>3. PICK c : c = mpack_writer_flag_error(b, "io")
    OBVIOUS
  <2>4. Writes(b, c, <<>>) /\ c.err = "io" /\ c.buf = a.buf /\ c.out = a.out \o part
    BY <2>2, <2>3, FlagWrites, Empty, ZenonT(30)
  <2>5. FileFlush(a, x) = c
    BY <1>1, <1>2, <1>6, <2>1, <2>3 DEF FileFlush
  <2>6. IsWriter(c) /\ c.kind = a.kind /\ c.live = a.live /\ c.err # "ok"
    BY <2>2, <2>4, "io" # "ok", Zenon DEF Writes
  <2> QED
    BY <1>5, <2>4, <2>5, <2>6, Zenon
<1>7. CASE a.flushes + 1 # a.failing
  <2>1. PICK b : b = [a EXCEPT !.flushes = n, !.out = a.out \o x]
    OBVIOUS
  <2>2. /\ b.err = "ok" /\ b.kind = a.kind /\ b.live = a.live
        /\ b.buf = a.buf /\ b.out = a.out \o x /\ IsWriter(b)
    BY <1>5, <2>1 DEF IsWriter
  <2>3. FileFlush(a, x) = b
    BY <1>1, <1>7, <2>1 DEF FileFlush
  <2> QED
    BY <1>5, <2>2, <2>3, StartsSelf, Zenon
<1> QED
  BY <1>6, <1>7

LEMMA FileWrites ==
  ASSUME NEW a, NEW x \in Bytes, IsWriter(a), a.kind = "file", a.buf = <<>>, a.err = "ok"
  PROVE  /\ Writes(a, FileFlush(a, x), x)
         /\ FileFlush(a, x).buf = <<>>
<1>1. PICK b : b = FileFlush(a, x)
  OBVIOUS
<1>2. /\ IsWriter(b) /\ b.kind = a.kind /\ b.live = a.live /\ b.buf = <<>>
      /\ b.err = "ok" => b.out = a.out \o x
      /\ Starts(b.out, a.out \o x)
  BY <1>1, FileFlushed, Zenon
<1>3. b.out \in Bytes /\ a.out \in Bytes
  BY <1>2 DEF IsWriter
<1>4. a.out \o a.buf = a.out /\ b.out \o b.buf = b.out
  BY <1>2, <1>3, Empty, Zenon
<1>5. Writes(a, b, x)
  BY <1>2, <1>4, Zenon DEF Writes
<1> QED
  BY <1>1, <1>2, <1>5, Zenon

\* Another buffer, of another size.
Resized(a, kept, size) == [a EXCEPT !.buf = kept, !.size = size]

LEMMA ResizedWriter ==
  ASSUME NEW a, IsWriter(a), NEW kept \in Bytes, NEW size
  PROVE  /\ Resized(a, kept, size).err = a.err /\ Resized(a, kept, size).kind = a.kind
         /\ Resized(a, kept, size).live = a.live /\ Resized(a, kept, size).out = a.out
         /\ Resized(a, kept, size).buf = kept /\ IsWriter(Resized(a, kept, size))
<1>1. PICK m : m = [a EXCEPT !.buf = kept]
  OBVIOUS
<1>2. /\ m.err = a.err /\ m.kind = a.kind /\ m.live = a.live
      /\ m.buf = kept /\ m.out = a.out /\ IsWriter(m)
  BY <1>1 DEF IsWriter
<1>3. PICK b : b = [m EXCEPT !.size = size]
  OBVIOUS
<1>4. /\ b.err = m.err /\ b.kind = m.kind /\ b.live = m.live
      /\ b.buf = m.buf /\ b.out = m.out /\ IsWriter(b)
  BY <1>2, <1>3 DEF IsWriter
<1>5. Resized(a, kept, size) = b
  BY <1>1, <1>3, Zenon DEF Resized
<1> QED
  BY <1>2, <1>4, <1>5, Zenon

\* What a flush of a growable buffer makes of it.
LEMMA Grown ==
  ASSUME NEW a, NEW x
  PROVE  /\ \E size : GrowableFlush(a, x, TRUE) = Resized(a, a.buf \o x, size)
         /\ Len(a.buf) = Len(x) => GrowableFlush(a, x, FALSE) = a
         /\ Len(a.buf) # Len(x) =>
              \E size : GrowableFlush(a, x, FALSE) = Resized(a, x, size)
<1>1. \E size : GrowableFlush(a, x, TRUE) = Resized(a, a.buf \o x, size)
  BY Zenon DEF GrowableFlush, Resized
<1>2. Len(a.buf) = Len(x) => GrowableFlush(a, x, FALSE) = a
  BY Zenon DEF GrowableFlush
<1>3. Len(a.buf) # Len(x) =>
        \E size : GrowableFlush(a, x, FALSE) = Resized(a, x, size)
  BY Zenon DEF GrowableFlush, Resized
<1> QED
  BY <1>1, <1>2, <1>3

LEMMA ResizedWrites ==
  ASSUME NEW a, NEW x \in Bytes, IsWriter(a), NEW kept \in Bytes, kept = a.buf \o x, NEW size
  PROVE  Writes(a, Resized(a, kept, size), x)
<1>1. a.out \in Bytes /\ a.buf \in Bytes
  BY DEF IsWriter
<1>2. PICK b : /\ b = Resized(a, kept, size)
               /\ b.err = a.err /\ b.kind = a.kind /\ b.live = a.live
               /\ b.buf = kept /\ b.out = a.out /\ IsWriter(b)
  BY ResizedWriter
<1>3. /\ b.err = a.err /\ b.kind = a.kind /\ b.live = a.live
      /\ b.buf = kept /\ b.out = a.out /\ IsWriter(b)
  BY <1>2, Zenon
<1>4. b.out \o b.buf = (a.out \o a.buf) \o x
  <2>1. (a.out \o a.buf) \o x = a.out \o (a.buf \o x)
    BY <1>1, Regrouped, ZenonT(30)
  <2> QED
    BY <1>3, <2>1, Zenon
<1>5. Writes(a, b, x)
  BY <1>3, <1>4, Zenon DEF Writes
<1> QED
  BY <1>2, <1>5, Zenon

\* A growable buffer takes what is flushed in again, and the caller's bytes behind it.
LEMMA GrowableWrites ==
  ASSUME NEW a, NEW x \in Bytes, IsWriter(a)
  PROVE  /\ Writes(a, GrowableFlush(a, x, TRUE), x)
         /\ a.buf = <<>> => Writes(a, GrowableFlush(a, x, FALSE), x)
<1>1. a.buf \in Bytes /\ a.buf \o x \in Bytes
  BY Joined DEF IsWriter
<1>2. Writes(a, GrowableFlush(a, x, TRUE), x)
  <2>1. PICK size : GrowableFlush(a, x, TRUE) = Resized(a, a.buf \o x, size)
    BY Grown
  <2> QED
    BY <1>1, <2>1, ResizedWrites
<1>3. ASSUME a.buf = <<>>
      PROVE  Writes(a, GrowableFlush(a, x, FALSE), x)
  <2>1. x = a.buf \o x
    BY <1>3, Empty, Zenon
  <2>2. CASE Len(a.buf) = Len(x)
    <3>1. x = <<>>
      BY <1>3, <2>2, EmptySeq DEF Bytes
    <3>2. GrowableFlush(a, x, FALSE) = a
      BY <2>2, Grown
    <3> QED
      BY <3>1, <3>2, WritesNothing, Zenon
  <2>3. CASE Len(a.buf) # Len(x)
    <3>1. PICK size : GrowableFlush(a, x, FALSE) = Resized(a, x, size)
      BY <2>3, Grown
    <3> QED
      BY <2>1, <3>1, ResizedWrites, Zenon
  <2> QED
    BY <2>2, <2>3
<1> QED
  BY <1>2, <1>3

\* The writer's own buffer is flushed: nothing is written by that, and a file's buffer is empty.
LEMMA FlushWrites ==
  ASSUME NEW a, IsWriter(a), a.err = "ok"
  PROVE  /\ Writes(a, mpack_writer_flush_unchecked(a), <<>>)
         /\ a.kind = "file" => mpack_writer_flush_unchecked(a).buf = <<>>
<1>1. PICK b, x : b = [a EXCEPT !.buf = <<>>] /\ x = a.buf
  OBVIOUS
<1>2. /\ b.err = "ok" /\ b.kind = a.kind /\ b.live = a.live /\ b.out = a.out
      /\ b.buf = <<>> /\ IsWriter(b) /\ x \in Bytes /\ a.out \in Bytes
  BY <1>1, Empty DEF IsWriter
<1>3. PICK c : c = Flush(b, x, FALSE)
  OBVIOUS
<1>4. Writes(b, c, x) /\ (a.kind = "file" => c.buf = <<>>)
  BY <1>2, <1>3, FileWrites, GrowableWrites, Zenon DEF Flush
<1>5. (b.out \o b.buf) \o x = (a.out \o a.buf) \o <<>>
  BY <1>1, <1>2, Joined, Empty, Zenon
<1>6. Writes(a, c, <<>>)
  BY <1>2, <1>4, <1>5, Zenon DEF Writes
<1> QED
  BY <1>1, <1>3, <1>4, <1>6 DEF mpack_writer_flush_unchecked

------------------------------------------------------------------------------
(* Writing bytes.                                                           *)

LEMMA WritesBehind ==
  ASSUME NEW a, NEW b, NEW c, NEW x \in Bytes, IsWriter(a), Writes(a, b, <<>>), Writes(b, c, x)
  PROVE  Writes(a, c, x)
<1>1. <<>> \in Bytes /\ <<>> \o x = x
  BY Empty
<1>2. Writes(a, c, <<>> \o x)
  BY <1>1, WritesThen
<1> QED
  BY <1>1, <1>2, Zenon

LEMMA WritesBefore ==
  ASSUME NEW a, NEW b, NEW c, NEW x \in Bytes, IsWriter(a), Writes(a, b, x), Writes(b, c, <<>>)
  PROVE  Writes(a, c, x)
<1>1. <<>> \in Bytes /\ x \o <<>> = x
  BY Empty
<1>2. Writes(a, c, x \o <<>>)
  BY <1>1, WritesThen
<1> QED
  BY <1>1, <1>2, Zenon

LEMMA WritesFailed ==
  ASSUME NEW a, NEW b, NEW x \in Bytes, IsWriter(a), Writes(a, b, <<>>), b.err # "ok"
  PROVE  Writes(a, b, x)
<1>1. <<>> \in Bytes /\ <<>> \o x = x
  BY Empty
<1>2. Writes(a, b, <<>> \o x)
  BY <1>1, WritesLess
<1> QED
  BY <1>1, <1>2, Zenon

LEMMA EnsureWrites ==
  ASSUME NEW a, NEW n, IsWriter(a)
  PROVE  Writes(a, mpack_writer_ensure(a, n), <<>>)
<1>1. Writes(a, a, <<>>) /\ a.current = NoBuild /\ <<>> \in Bytes
  BY WritesNothing, Empty DEF IsWriter
<1>2. Writes(a, mpack_writer_flag_error(a, "too_big"), <<>>)
  BY <1>1, FlagWrites, Zenon
<1>3. PICK f : f = mpack_writer_flush_unchecked(a)
  OBVIOUS
<1>4. ASSUME a.err = "ok"
      PROVE  Writes(a, f, <<>>) /\ Writes(a, mpack_writer_flag_error(f, "io"), <<>>)
  <2>1. Writes(a, f, <<>>)
    BY <1>3, <1>4, FlushWrites, Zenon
  <2>2. Writes(f, mpack_writer_flag_error(f, "io"), <<>>)
    BY <1>1, <2>1, FlagWrites, Zenon DEF Writes
  <2> QED
    BY <1>1, <2>1, <2>2, WritesBehind, Zenon
<1> QED
  BY <1>1, <1>2, <1>3, <1>4, Zenon DEF mpack_writer_ensure

LEMMA EncodedWrites ==
  ASSUME NEW a, NEW x \in Bytes, IsWriter(a)
  PROVE  Writes(a, WriteEncoded(a, x), x)
<1>1. CASE BufferLeft(a) >= Len(x)
  <2>1. WriteEncoded(a, x) = Put(a, x)
    BY <1>1, Zenon DEF WriteEncoded
  <2> QED
    BY <2>1, PutWrites, Zenon
<1>2. CASE ~(BufferLeft(a) >= Len(x))
  <2>1. PICK e : e = mpack_writer_ensure(a, Len(x))
    OBVIOUS
  <2>2. Writes(a, e, <<>>)
    BY <2>1, EnsureWrites, Zenon
  <2>3. CASE e.err = "ok"
    <3>1. WriteEncoded(a, x) = Put(e, x)
      BY <1>2, <2>1, <2>3, Zenon DEF WriteEncoded
    <3>2. Writes(e, Put(e, x), x)
      BY <2>2, PutWrites, Zenon DEF Writes
    <3> QED
      BY <2>2, <3>1, <3>2, WritesBehind, Zenon
  <2>4. CASE e.err # "ok"
    <3>1. WriteEncoded(a, x) = e
      BY <1>2, <2>1, <2>4, Zenon DEF WriteEncoded
    <3> QED
      BY <2>2, <2>4, <3>1, WritesFailed, Zenon
  <2> QED
    BY <2>3, <2>4
<1> QED
  BY <1>1, <1>2

LEMMA NativeWrites ==
  ASSUME NEW a, NEW x \in Bytes, IsWriter(a)
  PROVE  Writes(a, mpack_write_native(a, x), x)
<1>1. CASE BufferLeft(a) >= Len(x)
  <2>1. mpack_write_native(a, x) = Put(a, x)
    BY <1>1, Zenon DEF mpack_write_native
  <2> QED
    BY <2>1, PutWrites, Zenon
<1>2. CASE ~(BufferLeft(a) >= Len(x))
  <2>1. PICK b : b = mpack_write_native_straddle(a, x) /\ b = mpack_write_native(a, x)
    BY <1>2, Zenon DEF mpack_write_native
  <2>2. Writes(a, a, <<>>) /\ a.current = NoBuild
    BY WritesNothing DEF IsWriter
  <2>3. CASE a.err # "ok"
    <3>1. b = a
      BY <2>1, <2>3, Zenon DEF mpack_write_native_straddle
    <3> QED
      BY <2>1, <2>2, <2>3, <3>1, WritesFailed, Zenon
  <2>4. CASE a.err = "ok" /\ a.kind = "none"
    <3>1. b = mpack_writer_flag_error(a, "too_big")
      BY <2>1, <2>2, <2>4, Zenon DEF mpack_write_native_straddle
    <3>2. "too_big" # "ok"
      OBVIOUS
    <3> QED
      BY <2>1, <3>1, <3>2, FlagWrites, Zenon
  <2>5. CASE a.err = "ok" /\ a.kind # "none"
    <3>1. PICK f : f = mpack_writer_flush_unchecked(a)
      OBVIOUS
    <3>2. Writes(a, f, <<>>) /\ (a.kind = "file" => f.buf = <<>>)
      BY <2>5, <3>1, FlushWrites, Zenon
    <3>3. IsWriter(f) /\ f.kind = a.kind
      BY <3>2, Zenon DEF Writes
    <3>4. b = IF f.err # "ok" THEN f
              ELSE IF Len(x) > BufferLeft(f) THEN Flush(f, x, TRUE) ELSE Put(f, x)
      BY <2>1, <2>2, <2>5, <3>1, Zenon DEF mpack_write_native_straddle
    <3>5. CASE f.err # "ok"
      BY <2>1, <3>2, <3>4, <3>5, WritesFailed, Zenon
    <3>6. ASSUME f.err = "ok"
          PROVE  Writes(f, Flush(f, x, TRUE), x)
      BY <3>2, <3>3, <3>6, FileWrites, GrowableWrites, Zenon DEF Flush
    <3>7. Writes(f, Put(f, x), x)
      BY <3>3, PutWrites
    <3>8. CASE f.err = "ok"
      <4>1. Writes(f, b, x)
        BY <3>4, <3>6, <3>7, <3>8, Zenon
      <4> QED
        BY <2>1, <3>2, <4>1, WritesBehind, Zenon
    <3> QED
      BY <3>5, <3>8
  <2> QED
    BY <2>3, <2>4, <2>5
<1> QED
  BY <1>1, <1>2

------------------------------------------------------------------------------
(* What the format makes of a number and of a tag.                          *)

\* The bytes of a number.
LEMMA StoreBytes ==
  ASSUME NEW value \in Int, NEW bytes \in {1, 2, 4, 8}
  PROVE  Store(value, bytes) \in Bytes
<1>1. 2 ^ Bits(bytes) \in Int /\ 2 ^ Bits(bytes) > 0
  BY DEF Bits
<1>2. PICK unsigned \in Int : unsigned = value % 2 ^ Bits(bytes)
  BY <1>1
<1>3. \A k \in 0 .. 2 : (unsigned \div 256 ^ k) % 256 \in Int
  <2>1. 256 ^ 0 = 1 /\ 256 ^ 1 = 256 /\ 256 ^ 2 = 65536
    OBVIOUS
  <2>2. \A k \in 0 .. 2 : k = 0 \/ k = 1 \/ k = 2
    OBVIOUS
  <2> QED
    BY <2>1, <2>2
<1>4. PICK digit : digit = [k \in 0 .. 7 |-> IF k > 2 THEN 0 ELSE (unsigned \div 256 ^ k) % 256]
  OBVIOUS
<1>5. \A k \in 0 .. 7 : digit[k] \in Int
  BY <1>3, <1>4
<1>6. Store(value, bytes) = [i \in 1 .. bytes |-> digit[bytes - i]]
  BY <1>2, <1>4 DEF Store
<1>7. [i \in 1 .. bytes |-> digit[bytes - i]] \in [1 .. bytes -> Int]
  BY <1>5
<1>8. PICK n \in Nat : n = bytes
  OBVIOUS
<1>9. Store(value, bytes) \in [1 .. n -> Int]
  BY <1>6, <1>7, <1>8
<1>10. [1 .. n -> Int] \in {[1 .. k -> Int] : k \in Nat}
  OBVIOUS
<1>11. Store(value, bytes) \in UNION {[1 .. k -> Int] : k \in Nat}
  BY <1>9, <1>10, Zenon
<1> QED
  BY <1>11, SeqDef, Zenon DEF Bytes

LEMMA HeaderBytes ==
  ASSUME NEW byte \in Int, NEW n \in Int, NEW bytes \in {1, 2, 4, 8}
  PROVE  Header(byte, n, bytes) \in Bytes
<1>1. <<byte>> \in Bytes
  BY DEF Bytes
<1> QED
  BY <1>1, StoreBytes, Joined DEF Header

ElementTypes == {"nil", "bool", "uint", "int", "float", "double", "str", "bin", "array", "map"}

\* The head of any element.
LEMMA HeadBytes ==
  ASSUME NEW n \in Int
  PROVE  \A type \in ElementTypes : Encode(Tag(type, n)) \in Bytes
<1>1. \A byte \in Int : <<byte>> \in Bytes
  BY DEF Bytes
<1>2. \A byte \in Int : \A bytes \in {1, 2, 4, 8} : Header(byte, n, bytes) \in Bytes
  BY HeaderBytes
<1>3. \A bytes \in {1, 2, 4, 8} : Store(n, bytes) \in Bytes
  BY StoreBytes
<1>4. /\ UMax(1) = 255 /\ UMax(2) = 65535 /\ UMax(4) \in Int
      /\ UMax(4) > UMax(2)
  BY DEF UMax, Bits
<1>5. /\ IMin(1) = -128 /\ IMin(2) = -32768 /\ IMin(4) \in Int /\ IMin(4) < IMin(2)
  BY DEF IMin, Bits
<1>6. EncodeUint(n) \in Bytes
  BY <1>2, <1>3, <1>4 DEF EncodeUint
<1>7. EncodeInt(n) \in Bytes
  BY <1>2, <1>3, <1>5, <1>6 DEF EncodeInt
<1>8. EncodeArray(n) \in Bytes /\ EncodeMap(n) \in Bytes
  BY <1>1, <1>2, <1>4 DEF EncodeArray, EncodeMap
<1>9. EncodeStr(n) \in Bytes /\ EncodeBin(n) \in Bytes
  BY <1>1, <1>2, <1>4 DEF EncodeStr, EncodeBin
<1>10. <<192>> \in Bytes /\ <<194 + n>> \in Bytes
  BY <1>1
<1>11. Header(\hca, n, 4) \in Bytes /\ Header(\hcb, n, 8) \in Bytes
  BY <1>2
<1>12. ASSUME NEW type \in ElementTypes
       PROVE  Encode(Tag(type, n)) \in Bytes
  <2>1. PICK t : t = Tag(type, n)
    OBVIOUS
  <2>2. t.type = type /\ t.n = n
    BY <2>1 DEF Tag
  <2> QED
    BY <2>1, <2>2, <1>6, <1>7, <1>8, <1>9, <1>10, <1>11 DEF Encode, ElementTypes
<1> QED
  BY <1>12

\* A number that is not negative has one encoding.
LEMMA UnsignedHead ==
  ASSUME NEW n \in Int, n >= 0
  PROVE  Encode(Tag("int", n)) = Encode(Tag("uint", n))
<1>1. /\ IMin(1) = -128 /\ IMin(2) = -32768 /\ IMin(4) \in Int /\ IMin(4) < 0
  BY DEF IMin, Bits
<1>2. EncodeInt(n) = EncodeUint(n)
  BY <1>1 DEF EncodeInt
<1>3. PICK s, u : s = Tag("int", n) /\ u = Tag("uint", n)
  OBVIOUS
<1>4. s.type = "int" /\ s.n = n /\ u.type = "uint" /\ u.n = n
  BY <1>3 DEF Tag
<1>5. Encode(s) = EncodeInt(n) /\ Encode(u) = EncodeUint(n)
  BY <1>4 DEF Encode
<1> QED
  BY <1>2, <1>3, <1>5

------------------------------------------------------------------------------
(* The write functions.                                                     *)

LEMMA ScalarWrites ==
  ASSUME NEW a, NEW tag, IsWriter(a), Encode(tag) \in Bytes
  PROVE  Writes(a, WriteScalar(a, tag), Encode(tag))
<1>1. PICK t : t = mpack_writer_track_element(a)
  OBVIOUS
<1>2. Writes(a, t, <<>>) /\ IsWriter(t)
  BY <1>1, TrackingWrites, Zenon DEF Writes
<1>3. Writes(t, WriteEncoded(t, Encode(tag)), Encode(tag))
  BY <1>2, EncodedWrites
<1>4. WriteScalar(a, tag) = WriteEncoded(t, Encode(tag))
  BY <1>1, Zenon DEF WriteScalar
<1> QED
  BY <1>2, <1>3, <1>4, WritesBehind, Zenon

LEMMA StartBytesWrites ==
  ASSUME NEW a, NEW type, NEW n, IsWriter(a), Encode(Tag(type, n)) \in Bytes
  PROVE  Writes(a, StartBytes(a, type, n), Encode(Tag(type, n)))
<1>1. PICK b : b = WriteScalar(a, Tag(type, n))
  OBVIOUS
<1>2. Writes(a, b, Encode(Tag(type, n))) /\ IsWriter(b)
  BY <1>1, ScalarWrites, Zenon DEF Writes
<1>3. Writes(b, mpack_writer_track_push(b, type, n), <<>>)
  BY <1>2, TrackingWrites, Zenon
<1> QED
  BY <1>1, <1>2, <1>3, WritesBefore, Zenon DEF StartBytes

LEMMA StartCompoundWrites ==
  ASSUME NEW a, NEW type, NEW n, IsWriter(a), Encode(Tag(type, n)) \in Bytes
  PROVE  Writes(a, StartCompound(a, type, n), Encode(Tag(type, n)))
<1>1. PICK b : b = StartBytes(a, type, n)
  OBVIOUS
<1>2. Writes(a, b, Encode(Tag(type, n)))
  BY <1>1, StartBytesWrites, Zenon
<1>3. IsWriter(b)
  BY <1>2, Zenon DEF Writes
<1>4. mpack_builder_compound(b, 1) = b
  BY <1>3, TrackingWrites, Zenon
<1> QED
  BY <1>1, <1>2, <1>4, Zenon DEF StartCompound, StartBytes

LEMMA FinishCompoundWrites ==
  ASSUME NEW a, NEW type, IsWriter(a)
  PROVE  Writes(a, FinishCompound(a, type), <<>>)
<1>1. PICK b : b = mpack_writer_track_pop(a, type)
  OBVIOUS
<1>2. Writes(a, b, <<>>)
  BY <1>1, TrackingWrites, Zenon
<1>3. IsWriter(b)
  BY <1>2, Zenon DEF Writes
<1>4. mpack_builder_compound(b, -1) = b
  BY <1>3, TrackingWrites, Zenon
<1> QED
  BY <1>1, <1>2, <1>4, Zenon DEF FinishCompound

LEMMA BytesWrites ==
  ASSUME NEW a, NEW x \in Bytes, IsWriter(a)
  PROVE  /\ Writes(a, mpack_write_bytes(a, x), x)
         /\ Writes(a, mpack_write_object_bytes(a, x), x)
<1>1. ASSUME NEW b, Writes(a, b, <<>>)
      PROVE  Writes(a, mpack_write_native(b, x), x)
  <2>1. Writes(b, mpack_write_native(b, x), x)
    BY <1>1, NativeWrites, Zenon DEF Writes
  <2> QED
    BY <1>1, <2>1, WritesBehind, Zenon
<1> QED
  BY <1>1, TrackingWrites, Zenon DEF mpack_write_bytes, mpack_write_object_bytes

\* Strings and binary data: the head of their length, and their bytes.
LEMMA StrWrites ==
  ASSUME NEW a, NEW x \in Bytes, IsWriter(a)
  PROVE  /\ Writes(a, mpack_write_str(a, x), Encode(Tag("str", Len(x))) \o x)
         /\ Writes(a, mpack_write_utf8(a, x), Encode(Tag("str", Len(x))) \o x)
<1>1. PICK head \in Bytes : head = Encode(Tag("str", Len(x))) /\ head = EncodeStr(Len(x))
  <2>1. Len(x) \in Int
    BY LenProperties DEF Bytes
  <2>2. PICK t : t = Tag("str", Len(x))
    OBVIOUS
  <2>3. t.type = "str" /\ t.n = Len(x)
    BY <2>2 DEF Tag
  <2>4. Encode(t) = EncodeStr(Len(x))
    BY <2>3 DEF Encode
  <2>5. Encode(t) \in Bytes
    BY <2>1, <2>2, HeadBytes DEF ElementTypes
  <2> QED
    BY <2>2, <2>4, <2>5, Zenon
<1>2. head \o x \in Bytes
  BY Joined
<1>3. PICK t : t = mpack_writer_track_element(a)
  OBVIOUS
<1>4. Writes(a, t, <<>>) /\ IsWriter(t)
  BY <1>3, TrackingWrites, Zenon DEF Writes
<1>5. Writes(t, WriteEncoded(t, head \o x), head \o x)
  BY <1>2, <1>4, EncodedWrites
<1>6. PICK h : h = WriteEncoded(t, head)
  OBVIOUS
<1>7. Writes(t, h, head)
  BY <1>4, <1>6, EncodedWrites, Zenon
<1>8. Writes(h, mpack_write_native(h, x), x)
  BY <1>7, NativeWrites, Zenon DEF Writes
<1>9. Writes(t, mpack_write_native(h, x), head \o x)
  BY <1>4, <1>7, <1>8, WritesThen
<1>10. Writes(t, mpack_write_str(a, x), head \o x)
  BY <1>1, <1>3, <1>5, <1>6, <1>9, Zenon DEF mpack_write_str
<1>11. Writes(a, mpack_write_str(a, x), head \o x)
  BY <1>2, <1>4, <1>10, WritesBehind, Zenon
<1>12. Writes(a, mpack_writer_flag_error(a, "invalid"), head \o x)
  <2>1. "invalid" # "ok"
    OBVIOUS
  <2> QED
    BY <1>2, <2>1, FlagWrites, Zenon
<1>13. Writes(a, mpack_write_utf8(a, x), head \o x)
  BY <1>11, <1>12, Zenon DEF mpack_write_utf8
<1> QED
  BY <1>1, <1>11, <1>13, Zenon

LEMMA BinWrites ==
  ASSUME NEW a, NEW x \in Bytes, IsWriter(a)
  PROVE  Writes(a, mpack_write_bin(a, x), Encode(Tag("bin", Len(x))) \o x)
<1>1. PICK head \in Bytes : head = Encode(Tag("bin", Len(x)))
  <2>1. Len(x) \in Int
    BY LenProperties DEF Bytes
  <2> QED
    BY <2>1, HeadBytes DEF ElementTypes
<1>2. PICK b : b = StartBytes(a, "bin", Len(x))
  OBVIOUS
<1>3. Writes(a, b, head) /\ IsWriter(b)
  <2>1. Writes(a, b, head)
    BY <1>1, <1>2, StartBytesWrites, Zenon
  <2> QED
    BY <2>1, Zenon DEF Writes
<1>4. PICK c : c = mpack_write_bytes(b, x)
  OBVIOUS
<1>5. Writes(b, c, x) /\ IsWriter(c)
  BY <1>3, <1>4, BytesWrites, Zenon DEF Writes
<1>6. Writes(a, c, head \o x) /\ head \o x \in Bytes
  BY <1>3, <1>5, WritesThen, Joined
<1>7. Writes(c, mpack_writer_track_pop(c, "bin"), <<>>)
  BY <1>5, TrackingWrites, Zenon
<1>8. Writes(a, mpack_writer_track_pop(c, "bin"), head \o x)
  BY <1>6, <1>7, WritesBefore, Zenon
<1> QED
  BY <1>1, <1>2, <1>4, <1>8, Zenon DEF mpack_write_bin

LEMMA FlushMessageWrites ==
  ASSUME NEW a, IsWriter(a)
  PROVE  Writes(a, mpack_writer_flush_message(a), <<>>)
<1>1. \A e : Writes(a, mpack_writer_flag_error(a, e), <<>>)
  BY FlagWrites, Empty
<1>2. Writes(a, a, <<>>)
  BY WritesNothing
<1>3. \A e : mpack_writer_flag_error(a, e).err = "ok" => a.err = "ok"
  BY FlagWrites, Empty, Zenon
<1>4. a.err = "ok" => Writes(a, mpack_writer_flush_unchecked(a), <<>>)
  BY FlushWrites
<1> QED
  BY <1>1, <1>2, <1>3, <1>4, Zenon DEF mpack_writer_flush_message

(* A writer destroyed: all that was written is handed over, or there is an
   error and its beginning is.                                              *)
LEMMA DestroyWrites ==
  ASSUME NEW a, IsWriter(a)
  PROVE  /\ IsWriter(mpack_writer_destroy(a)) /\ ~mpack_writer_destroy(a).live
         /\ mpack_writer_destroy(a).kind = a.kind
         /\ a.err # "ok" => /\ mpack_writer_destroy(a).err # "ok"
                            /\ mpack_writer_destroy(a).out = a.out
         /\ a.err = "ok" /\ (a.kind # "file" => a.out = <<>>) =>
              /\ Starts(mpack_writer_destroy(a).out, a.out \o a.buf)
              /\ mpack_writer_destroy(a).err = "ok" =>
                   mpack_writer_destroy(a).out = a.out \o a.buf
<1>1. PICK f : f = IF a.err = "ok" /\ a.buf # <<>> /\ a.kind # "none" THEN Flush(a, a.buf, FALSE) ELSE a
  OBVIOUS
<1>2. PICK closed : closed = [f EXCEPT !.live = FALSE]
  OBVIOUS
<1>3. PICK b : b = mpack_writer_destroy(a)
  OBVIOUS
<1>4. a.buf \in Bytes /\ a.out \in Bytes
  BY DEF IsWriter
<1>5. a.kind # "file" => f = a
  <2>1. ASSUME a.kind # "file"
        PROVE  Flush(a, a.buf, FALSE) = a
    BY <2>1, Grown, Zenon DEF Flush
  <2> QED
    BY <1>1, <2>1, Zenon
<1>6. /\ IsWriter(f) /\ f.kind = a.kind /\ f.buf = a.buf
      /\ a.err # "ok" => f = a
      /\ a.err = "ok" /\ a.kind = "file" =>
           /\ Starts(f.out, a.out \o a.buf)
           /\ f.err = "ok" => f.out = a.out \o a.buf
  <2>1. CASE a.err = "ok" /\ a.buf # <<>> /\ a.kind = "file"
    <3>1. f = FileFlush(a, a.buf)
      BY <1>1, <2>1, "file" # "none", Zenon DEF Flush
    <3> QED
      BY <1>4, <2>1, <3>1, FileFlushed, Zenon
  <2>2. CASE a.err # "ok" \/ a.kind # "file"
    BY <1>1, <1>5, <2>2, Zenon
  <2>3. CASE a.buf = <<>> /\ a.err = "ok" /\ a.kind = "file"
    <3>1. f = a
      BY <1>1, <2>3, Zenon
    <3>2. a.out \o a.buf = a.out
      BY <1>4, <2>3, Empty, Zenon
    <3> QED
      BY <1>4, <2>3, <3>1, <3>2, StartsSelf, Zenon
  <2> QED
    BY <2>1, <2>2, <2>3
<1>7. /\ IsWriter(closed) /\ ~closed.live /\ closed.kind = a.kind
      /\ closed.err = f.err /\ closed.out = f.out
  BY <1>2, <1>6 DEF IsWriter
<1>8. b = CASE a.kind = "file" /\ f.flushes + 1 = a.failing -> mpack_writer_flag_error(closed, "io")
            [] a.kind # "file" /\ f.err = "ok" -> [closed EXCEPT !.out = f.buf]
            [] OTHER -> closed
  BY <1>1, <1>2, <1>3, Zenon DEF mpack_writer_destroy
<1>9. CASE a.kind = "file"
  <2>1. b = mpack_writer_flag_error(closed, "io") \/ b = closed
    BY <1>8, <1>9
  <2>2. /\ IsWriter(b) /\ ~b.live /\ b.kind = a.kind /\ b.out = f.out
        /\ f.err # "ok" => b.err # "ok"
    <3>1. CASE b = mpack_writer_flag_error(closed, "io")
      <4>1. Writes(closed, b, <<>>) /\ b.out = closed.out
        BY <1>7, <3>1, FlagWrites, Empty, Zenon
      <4> QED
        BY <1>7, <4>1, Zenon DEF Writes
    <3>2. CASE b = closed
      BY <1>7, <3>2, Zenon
    <3> QED
      BY <2>1, <3>1, <3>2
  <2> QED
    BY <1>3, <1>6, <1>9, <2>2, Zenon
<1>10. CASE a.kind # "file" /\ a.err # "ok"
  <2>1. b = closed
    BY <1>6, <1>8, <1>10
  <2> QED
    BY <1>3, <1>6, <1>7, <1>10, <2>1, Zenon
<1>11. CASE a.kind # "file" /\ a.err = "ok"
  <2>1. b = [closed EXCEPT !.out = f.buf] /\ f = a
    BY <1>5, <1>8, <1>11
  <2>2. PICK kept \in Bytes : kept = a.buf
    BY <1>4
  <2>3. b = [closed EXCEPT !.out = kept]
    BY <2>1, <2>2, Zenon
  <2>4. IsWriter(b) /\ ~b.live /\ b.kind = a.kind /\ b.out = kept /\ b.err = f.err
    BY <1>7, <2>3 DEF IsWriter
  <2>5. a.out = <<>> => a.out \o a.buf = kept
    BY <2>2, Empty, Zenon
  <2> QED
    BY <1>3, <1>11, <2>2, <2>4, <2>5, StartsSelf, Zenon
<1> QED
  BY <1>9, <1>10, <1>11

------------------------------------------------------------------------------
(* The calls of a script that builds nothing.                               *)

\* The number in the head of the element a call begins.
Number(call) == IF call.type \in {"str", "bin"} /\ call.op # "head" THEN Len(call.body) ELSE call.n

LEMMA CallTypes ==
  ASSUME NEW call \in Calls
  PROVE  /\ call.op \in Ops /\ call.n \in Int /\ call.body \in Bytes
         /\ Number(call) \in Int
         /\ Plausible(call)
<1>1. call.op \in Ops /\ call.n \in Int /\ call.body \in Seq(0 .. 255) /\ Plausible(call)
  BY DEF Calls
<1>2. PICK body \in Seq(0 .. 255) : body = call.body
  BY <1>1
<1>3. body \in Bytes /\ Len(body) \in Int
  <2>1. 0 .. 255 \subseteq Int
    OBVIOUS
  <2>2. body \in Seq(Int)
    BY <2>1, SeqMonotonic
  <2> QED
    BY <2>2, LenProperties DEF Bytes
<1>4. Number(call) \in Int
  BY <1>1, <1>2, <1>3 DEF Number
<1> QED
  BY <1>1, <1>2, <1>3, <1>4

\* What the format makes of a call, when it builds nothing.
LEMMA CallMeans ==
  ASSUME NEW s \in Seq(Calls), NEW i \in 1 .. Len(s), s[i].op \notin {"build", "complete"}
  PROVE  /\ s[i] \in Calls
         /\ Begins(s[i]) => s[i].type \in ElementTypes
         /\ Begins(s[i]) => Encode(ElementTag(s, i)) = Encode(Tag(s[i].type, Number(s[i])))
<1>1. PICK call \in Calls : call = s[i]
  BY ElementOfSeq
<1>2. call.op \in Ops /\ call.n \in Int /\ Number(call) \in Int /\ Plausible(call)
  BY CallTypes
<1>3. Begins(call) => call.type \in ElementTypes
  BY <1>2 DEF Begins, Plausible, ElementTypes, Ops
<1>4. Contents(s, i) = Number(call)
  BY <1>1 DEF Contents, Number
<1>5. ASSUME Begins(call), call.type = "int"
      PROVE  Number(call) = call.n
  BY <1>5 DEF Number
<1>6. ASSUME Begins(call)
      PROVE  Encode(ElementTag(s, i)) = Encode(Tag(call.type, Number(call)))
  <2>1. CASE call.type = "int" /\ call.n >= 0
    <3>1. ElementTag(s, i) = Tag("uint", call.n)
      BY <1>1, <2>1, Zenon DEF ElementTag
    <3> QED
      BY <1>2, <1>5, <1>6, <2>1, <3>1, UnsignedHead, Zenon
  <2>2. CASE ~(call.type = "int" /\ call.n >= 0)
    BY <1>1, <1>4, <2>2, Zenon DEF ElementTag
  <2> QED
    BY <2>1, <2>2
<1> QED
  BY <1>1, <1>3, <1>6, Zenon

LEMMA CallBytesTyped ==
  ASSUME NEW s \in Seq(Calls), NEW i \in 1 .. Len(s), s[i].op \notin {"build", "complete"}
  PROVE  CallBytes(s, i) \in Bytes
<1>1. PICK call \in Calls : call = s[i]
  BY ElementOfSeq
<1>2. PICK head, body : /\ CallBytes(s, i) = head \o body
                        /\ head = IF Begins(call) THEN Encode(ElementTag(s, i)) ELSE <<>>
                        /\ body = IF call.op = "open" THEN <<>> ELSE call.body
  BY <1>1, Zenon DEF CallBytes
<1>3. Begins(call) => Encode(ElementTag(s, i)) \in Bytes
  <2>1. Begins(call) => Encode(Tag(call.type, Number(call))) \in Bytes
    BY <1>1, CallMeans, CallTypes, HeadBytes
  <2> QED
    BY <1>1, <2>1, CallMeans, Zenon
<1>4. head \in Bytes /\ body \in Bytes
  BY <1>2, <1>3, CallTypes, Empty
<1> QED
  BY <1>2, <1>4, Joined

\* A call writes what the format makes of it.
LEMMA CallWrites ==
  ASSUME NEW s \in Seq(Calls), NEW i \in 1 .. Len(s), s[i].op \notin {"build", "complete"},
         IsWriter(w)
  PROVE  CallBytes(s, i) \in Bytes /\ Writes(w, WriteCall(s[i]), CallBytes(s, i))
<1>1. PICK call \in Calls : call = s[i]
  BY ElementOfSeq
<1>2. PICK n \in Int, body \in Bytes : n = Number(call) /\ body = call.body
  BY CallTypes
<1>3. /\ call.op \in Ops /\ Plausible(call) /\ call.op \notin {"build", "complete"}
      /\ call.n \in Int
  BY <1>1, CallTypes
<1>4. Begins(call) => /\ call.type \in ElementTypes
                      /\ Encode(ElementTag(s, i)) = Encode(Tag(call.type, n))
  BY <1>1, <1>2, CallMeans, Zenon
<1>5. PICK head : head = Encode(Tag(call.type, n))
  OBVIOUS
<1>6. Begins(call) => head \in Bytes
  BY <1>2, <1>4, <1>5, HeadBytes
<1>7. /\ Begins(call) /\ call.op = "open" => CallBytes(s, i) = head \o <<>>
      /\ Begins(call) /\ call.op # "open" => CallBytes(s, i) = head \o body
      /\ ~Begins(call) /\ call.op # "open" => CallBytes(s, i) = <<>> \o body
  BY <1>1, <1>2, <1>4, <1>5, Zenon DEF CallBytes
<1>8. /\ <<>> \in Bytes /\ <<>> \o body = body /\ body \o <<>> = body
      /\ Begins(call) => head \o <<>> = head /\ head \o body \in Bytes
  BY <1>6, Empty, Joined
<1>9. PICK c : c = WriteCall(call)
  OBVIOUS
<1> SUFFICES CallBytes(s, i) \in Bytes /\ Writes(w, c, CallBytes(s, i))
  BY <1>1, <1>9, Zenon
<1>10. CASE call.op = "scalar"
  <2>1. Begins(call) /\ call.n = n /\ body = <<>>
    BY <1>2, <1>3, <1>10 DEF Begins, Plausible, Number
  <2>2. c = WriteScalar(w, Tag(call.type, n))
    BY <1>9, <1>10, <2>1 DEF WriteCall
  <2>3. CallBytes(s, i) = head
    BY <1>7, <1>8, <1>10, <2>1
  <2> QED
    BY <1>5, <1>6, <2>1, <2>2, <2>3, ScalarWrites, Zenon
<1>11. CASE call.op \in {"str", "utf8"}
  <2>1. Begins(call) /\ call.type = "str" /\ n = Len(body)
    BY <1>2, <1>3, <1>11 DEF Begins, Plausible, Number
  <2>2. c = mpack_write_str(w, body) \/ c = mpack_write_utf8(w, body)
    BY <1>2, <1>9, <1>11 DEF WriteCall
  <2>3. CallBytes(s, i) = head \o body
    BY <1>7, <1>11, <2>1
  <2> QED
    BY <1>5, <1>8, <2>1, <2>2, <2>3, StrWrites, Zenon
<1>12. CASE call.op = "bin"
  <2>1. Begins(call) /\ call.type = "bin" /\ n = Len(body)
    BY <1>2, <1>3, <1>12 DEF Begins, Plausible, Number
  <2>2. c = mpack_write_bin(w, body)
    BY <1>2, <1>9, <1>12 DEF WriteCall
  <2>3. CallBytes(s, i) = head \o body
    BY <1>7, <1>12, <2>1
  <2> QED
    BY <1>5, <1>8, <2>1, <2>2, <2>3, BinWrites, Zenon
<1>13. CASE call.op = "object"
  <2>1. Begins(call) /\ call.n = n
    BY <1>2, <1>3, <1>13 DEF Begins, Plausible, Number
  <2>2. c = mpack_write_object_bytes(w, head \o body)
    BY <1>2, <1>5, <1>9, <1>13, <2>1 DEF WriteCall
  <2>3. CallBytes(s, i) = head \o body
    BY <1>7, <1>13, <2>1
  <2> QED
    BY <1>8, <2>1, <2>2, <2>3, BytesWrites, Zenon
<1>14. CASE call.op = "open"
  <2>1. Begins(call) /\ n = Len(body)
    BY <1>2, <1>3, <1>14 DEF Begins, Plausible, Number
  <2>2. c = StartBytes(w, call.type, n)
    BY <1>2, <1>9, <1>14, <2>1 DEF WriteCall
  <2>3. CallBytes(s, i) = head
    BY <1>7, <1>8, <1>14, <2>1
  <2> QED
    BY <1>5, <1>6, <2>1, <2>2, <2>3, StartBytesWrites, Zenon
<1>15. CASE call.op \in {"start", "head"}
  <2>1. Begins(call) /\ n = call.n /\ body = <<>>
    BY <1>2, <1>3, <1>15 DEF Begins, Plausible, Number
  <2>2. c = StartBytes(w, call.type, n) \/ c = StartCompound(w, call.type, n)
    BY <1>3, <1>9, <1>15, <2>1 DEF WriteCall, Plausible
  <2>3. CallBytes(s, i) = head
    BY <1>7, <1>8, <1>15, <2>1
  <2> QED
    BY <1>5, <1>6, <2>1, <2>2, <2>3, StartBytesWrites, StartCompoundWrites, Zenon
<1>16. CASE call.op = "bytes"
  <2>1. ~Begins(call)
    BY <1>16 DEF Begins
  <2>2. c = mpack_write_bytes(w, body)
    BY <1>2, <1>9, <1>16 DEF WriteCall
  <2>3. CallBytes(s, i) = body
    BY <1>7, <1>8, <1>16, <2>1
  <2> QED
    BY <2>2, <2>3, BytesWrites, Zenon
<1>17. CASE call.op \in {"close", "finish", "flush"}
  <2>1. ~Begins(call) /\ body = <<>>
    BY <1>2, <1>3, <1>17 DEF Begins, Plausible
  <2>2. \/ c = mpack_writer_track_pop(w, call.type)
        \/ c = FinishCompound(w, call.type)
        \/ c = mpack_writer_flush_message(w)
    BY <1>9, <1>17 DEF WriteCall
  <2>3. CallBytes(s, i) = <<>>
    BY <1>7, <1>8, <1>17, <2>1
  <2> QED
    BY <1>8, <2>2, <2>3, TrackingWrites, FinishCompoundWrites, FlushMessageWrites, Zenon
<1> QED
  BY <1>3, <1>10, <1>11, <1>12, <1>13, <1>14, <1>15, <1>16, <1>17 DEF Ops

------------------------------------------------------------------------------
(* The encoding of the first calls, for any number of them.                 *)

LEMMA NatMin ==
  ASSUME NEW T, T \subseteq Nat, T # {}
  PROVE  \E m \in T : \A k \in T : m <= k
<1>1. PICK R : R = OpToRel(<, Nat)
  OBVIOUS
<1>2. IsWellFoundedOn(R, Nat)
  BY <1>1, NatLessThanWellFounded
<1>3. PICK m \in T : \A k \in T : ~(<<k, m>> \in R)
  BY <1>2, WFMin
<1>4. ASSUME NEW k \in T PROVE ~(k < m)
  <2>1. <<k, m>> \in Nat \X Nat
    OBVIOUS
  <2>2. k < m => <<k, m>> \in R
    BY <2>1, <1>1, Zenon DEF OpToRel
  <2> QED
    BY <2>2, <1>3
<1> QED
  BY <1>4

\* A set that holds 0, and with a number the one after it, holds them all.
LEMMA Induct ==
  ASSUME NEW S, 0 \in S, \A n \in Nat : n \in S => n + 1 \in S
  PROVE  Nat \subseteq S
<1> SUFFICES ASSUME ~(Nat \subseteq S) PROVE FALSE
  OBVIOUS
<1>1. PICK m \in Nat \ S : \A k \in Nat \ S : m <= k
  <2>1. Nat \ S # {} /\ Nat \ S \subseteq Nat
    OBVIOUS
  <2> QED
    BY <2>1, NatMin
<1>2. m - 1 \in Nat
  BY <1>1
<1>3. m - 1 \in S
  BY <1>1, <1>2
<1> QED
  BY <1>1, <1>2, <1>3

\* f gives the encodings of the first calls up to k of them.
Encodes(f, s, k) ==
  f = [n \in 0 .. k |-> IF n = 0 THEN <<>> ELSE f[n - 1] \o CallBytes(s, n)]

LEMMA SomeEncodes ==
  ASSUME NEW s, NEW k \in Nat
  PROVE  \E f : Encodes(f, s, k)
<1>1. PICK S : S = {m \in Nat : \E f : Encodes(f, s, m)}
  OBVIOUS
<1>2. 0 \in S
  <2>1. PICK f : f = [n \in 0 .. 0 |-> <<>>]
    OBVIOUS
  <2>2. Encodes(f, s, 0)
    <3>1. [n \in 0 .. 0 |-> IF n = 0 THEN <<>> ELSE f[n - 1] \o CallBytes(s, n)] = [n \in 0 .. 0 |-> <<>>]
      OBVIOUS
    <3> QED
      BY <2>1, <3>1, Zenon DEF Encodes
  <2> QED
    BY <1>1, <2>2
<1>3. ASSUME NEW m \in Nat, m \in S
      PROVE  m + 1 \in S
  <2>1. PICK f : Encodes(f, s, m)
    BY <1>1, <1>3
  <2>2. PICK g : g = [n \in 0 .. m + 1 |-> IF n = 0 THEN <<>> ELSE f[n - 1] \o CallBytes(s, n)]
    OBVIOUS
  <2>3. ASSUME NEW n \in 0 .. m
        PROVE  g[n] = f[n]
    <3>1. PICK v : v = IF n = 0 THEN <<>> ELSE f[n - 1] \o CallBytes(s, n)
      OBVIOUS
    <3>2. f[n] = v
      BY <2>1, <3>1, Zenon DEF Encodes
    <3>3. n \in 0 .. m + 1
      OBVIOUS
    <3>4. g[n] = v
      BY <2>2, <3>1, <3>3, Zenon
    <3> QED
      BY <3>2, <3>4, Zenon
  <2>4. \A n \in 0 .. m + 1 : n # 0 => g[n - 1] = f[n - 1]
    BY <2>3
  <2>5. Encodes(g, s, m + 1)
    <3>1. [n \in 0 .. m + 1 |-> IF n = 0 THEN <<>> ELSE g[n - 1] \o CallBytes(s, n)]
            = [n \in 0 .. m + 1 |-> IF n = 0 THEN <<>> ELSE f[n - 1] \o CallBytes(s, n)]
      BY <2>4
    <3> QED
      BY <2>2, <3>1, Zenon DEF Encodes
  <2> QED
    BY <1>1, <2>5
<1>4. Nat \subseteq S
  BY <1>2, <1>3, Induct
<1> QED
  BY <1>1, <1>4

LEMMA EncodingEncodes ==
  ASSUME NEW s, Len(s) \in Nat
  PROVE  Encodes(Encoding(s), s, Len(s))
<1>1. PICK f : Encodes(f, s, Len(s))
  BY SomeEncodes
<1> QED
  BY <1>1, Zenon DEF Encoding, Encodes

\* The encoding begins with that of any number of the first calls.
LEMMA EncodingGrows ==
  ASSUME NEW s \in Seq(Calls), Plain(s)
  PROVE  /\ Encoding(s)[0] = <<>>
         /\ \A n \in 0 .. Len(s) : Encoding(s)[n] \in Bytes
         /\ \A n \in 1 .. Len(s) : /\ CallBytes(s, n) \in Bytes
                                   /\ Encoding(s)[n] = Encoding(s)[n - 1] \o CallBytes(s, n)
         /\ \A n \in 0 .. Len(s) : Starts(Encoding(s)[n], Encoding(s)[Len(s)])
<1>1. PICK last \in Nat : last = Len(s)
  BY LenProperties
<1>2. PICK f : f = Encoding(s) /\ Encodes(f, s, last)
  BY <1>1, EncodingEncodes
<1>3. f[0] = <<>> /\ \A n \in 1 .. last : f[n] = f[n - 1] \o CallBytes(s, n)
  <2>1. \A n \in 0 .. last : f[n] = IF n = 0 THEN <<>> ELSE f[n - 1] \o CallBytes(s, n)
    BY <1>2, Zenon DEF Encodes
  <2>2. 0 \in 0 .. last /\ \A n \in 1 .. last : n \in 0 .. last /\ n # 0
    OBVIOUS
  <2> QED
    BY <2>1, <2>2, Zenon
<1>4. \A n \in 1 .. last : CallBytes(s, n) \in Bytes
  <2>1. ASSUME NEW n \in 1 .. last
        PROVE  s[n].op \notin {"build", "complete"}
    BY <1>1 DEF Plain
  <2> QED
    BY <1>1, <2>1, CallBytesTyped
<1>5. \A n \in 0 .. last : f[n] \in Bytes
  <2>1. PICK S : S = {n \in Nat : n <= last => f[n] \in Bytes}
    OBVIOUS
  <2>2. 0 \in S
    BY <1>3, <2>1, Empty
  <2>3. ASSUME NEW n \in Nat, n \in S
        PROVE  n + 1 \in S
    <3>1. ASSUME n + 1 <= last
          PROVE  f[n + 1] \in Bytes
      <4>1. n + 1 \in 1 .. last /\ (n + 1) - 1 = n /\ f[n] \in Bytes
        BY <2>1, <2>3, <3>1
      <4>2. f[n + 1] = f[n] \o CallBytes(s, n + 1)
        BY <1>3, <4>1
      <4> QED
        BY <1>4, <4>1, <4>2, Joined
    <3> QED
      BY <2>1, <3>1
  <2>4. Nat \subseteq S
    BY <2>2, <2>3, Induct
  <2> QED
    BY <2>1, <2>4
<1>6. ASSUME NEW m \in 0 .. last
      PROVE  Starts(f[m], f[last])
  <2>1. PICK S : S = {n \in Nat : m <= n /\ n <= last => Starts(f[m], f[n])}
    OBVIOUS
  <2>2. 0 \in S
    BY <1>5, <2>1, StartsSelf
  <2>3. ASSUME NEW n \in Nat, n \in S
        PROVE  n + 1 \in S
    <3>1. ASSUME m <= n + 1, n + 1 <= last
          PROVE  Starts(f[m], f[n + 1])
      <4>1. CASE m = n + 1
        BY <1>5, <4>1, StartsSelf
      <4>2. CASE m # n + 1
        <5>1. n + 1 \in 1 .. last /\ (n + 1) - 1 = n /\ Starts(f[m], f[n])
          BY <2>1, <2>3, <3>1, <4>2
        <5>2. f[n + 1] = f[n] \o CallBytes(s, n + 1)
          BY <1>3, <5>1
        <5> QED
          BY <1>4, <1>5, <5>1, <5>2, StartsLonger
      <4> QED
        BY <4>1, <4>2
    <3> QED
      BY <2>1, <3>1
  <2>4. Nat \subseteq S
    BY <2>2, <2>3, Induct
  <2> QED
    BY <2>1, <2>4
<1> QED
  BY <1>1, <1>2, <1>3, <1>4, <1>5, <1>6

------------------------------------------------------------------------------
(* The writer of a script that builds nothing has the encoding of its calls
   so far behind it, in the output and in the buffer; with an error, the
   output is the beginning of that.                                         *)
Written(n) == Encoding(script)[n]

WriterInv ==
  /\ script \in Seq(Calls)
  /\ ref.bytes = Written(Len(script))
  /\ Plain(script) =>
       /\ IsWriter(w)
       /\ done \in 0 .. Len(script)
       /\ w.live /\ w.kind # "file" => w.out = <<>>
       /\ w.live /\ w.err = "ok" => w.out \o w.buf = Written(done)
       /\ w.err # "ok" => Starts(w.out, Written(done))
       /\ ~w.live /\ w.err = "ok" => done = Len(script) /\ w.out = Written(done)

LEMMA NewWriterIsWriter ==
  ASSUME NEW kind \in {"none", "growable", "file"}, NEW size, NEW tracking, NEW failing,
         NEW a, a = NewWriter(kind, size, tracking, failing)
  PROVE  IsWriter(a) /\ a.live /\ a.out = <<>> /\ a.buf = <<>>
<1>1. PICK b : b = [kind |-> kind, size |-> size, buf |-> <<>>, err |-> "ok",
            tracking |-> tracking, track |-> <<>>,
            failing |-> failing, flushes |-> 0, out |-> <<>>, live |-> TRUE,
            pages |-> <<>>, builds |-> <<>>, current |-> NoBuild,
            stash |-> [buf |-> <<>>, size |-> 0]]
  OBVIOUS
<1>2. IsWriter(b) /\ b.live /\ b.out = <<>> /\ b.buf = <<>>
  BY <1>1, Empty DEF IsWriter
<1>3. PICK c : c = mpack_writer_flag_error(b, "bug")
  OBVIOUS
<1>4. Writes(b, c, <<>>) /\ c.out = b.out /\ c.buf = b.buf
  BY <1>2, <1>3, FlagWrites, Empty, Zenon
<1>5. IsWriter(c) /\ c.live
  BY <1>2, <1>4, Zenon DEF Writes
<1>6. a \in {b, c}
  BY <1>1, <1>3, Zenon DEF NewWriter
<1> QED
  BY <1>2, <1>4, <1>5, <1>6, Zenon

LEMMA WriterInitInv == WriterInit => WriterInv
<1> SUFFICES ASSUME NEW case \in Cases, Begin(case)
             PROVE  WriterInv
  BY DEF WriterInit
<1>1. /\ script = case.script /\ w = case.w /\ done = 0
      /\ ref = Reference(script) /\ script \in Seq(Calls)
  BY ScriptsAssumption, Zenon DEF Begin
<1>2. PICK elements, ends, balanced :
        ref = [elements |-> elements, bytes |-> Encoding(script)[Len(script)],
               ends |-> ends, balanced |-> balanced]
  BY <1>1, Zenon DEF Reference
<1>3. ref.bytes = Written(Len(script))
  BY <1>2 DEF Written
<1>4. IsWriter(w) /\ w.live /\ w.out = <<>> /\ w.buf = <<>>
  <2>1. /\ w.kind \in {"none", "growable", "file"}
        /\ w = NewWriter(w.kind, w.size, w.tracking, w.failing)
    BY <1>1, ScriptsAssumption, Zenon
  <2>2. PICK kind, size, tracking, failing :
          /\ kind = w.kind /\ size = w.size
          /\ tracking = w.tracking /\ failing = w.failing
    OBVIOUS
  <2>3. PICK a : a = NewWriter(kind, size, tracking, failing)
    OBVIOUS
  <2>4. kind \in {"none", "growable", "file"} /\ w = a
    BY <2>1, <2>2, <2>3, Zenon
  <2>5. IsWriter(a) /\ a.live /\ a.out = <<>> /\ a.buf = <<>>
    BY <2>3, <2>4, NewWriterIsWriter, Zenon
  <2> QED
    BY <2>4, <2>5, Zenon
<1>5. ASSUME Plain(script)
      PROVE  done \in 0 .. Len(script) /\ Written(done) = <<>>
  <2>1. Len(script) \in Nat
    BY <1>1, LenProperties
  <2> QED
    BY <1>1, <1>5, <2>1, EncodingGrows DEF Written
<1>6. w.out \o w.buf = <<>> /\ Starts(w.out, <<>>)
  BY <1>4, Empty, StartsSelf, Zenon
<1> QED
  BY <1>1, <1>3, <1>4, <1>5, <1>6, Zenon DEF WriterInv

LEMMA WriteNextInv == WriterInv /\ WriteNext => WriterInv'
<1> SUFFICES ASSUME WriterInv, WriteNext, Plain(script)
             PROVE  /\ IsWriter(w')
                    /\ done' \in 0 .. Len(script)
                    /\ w'.live /\ w'.kind # "file" => w'.out = <<>>
                    /\ w'.live /\ w'.err = "ok" => w'.out \o w'.buf = Written(done')
                    /\ w'.err # "ok" => Starts(w'.out, Written(done'))
                    /\ ~w'.live /\ w'.err = "ok" => done' = Len(script) /\ w'.out = Written(done')
  BY Zenon DEF WriterInv, WriteNext, Written
<1>1. /\ script \in Seq(Calls) /\ done \in 0 .. Len(script) /\ done < Len(script)
      /\ IsWriter(w) /\ w.live /\ done' = done + 1
  BY Zenon DEF WriterInv, WriteNext
<1>2. Len(script) \in Nat
  BY <1>1, LenProperties
<1>3. done + 1 \in 1 .. Len(script) /\ done + 1 \in 0 .. Len(script) /\ (done + 1) - 1 = done
  BY <1>1, <1>2
<1>4. PICK b : b = WriteCall(script[done + 1]) /\ w' = b
  BY Zenon DEF WriteNext
<1>5. PICK x : x = CallBytes(script, done + 1)
  OBVIOUS
<1>6. Writes(w, b, x) /\ x \in Bytes
  <2>1. script[done + 1].op \notin {"build", "complete"}
    BY <1>1, <1>3 DEF Plain
  <2> QED
    BY <1>1, <1>3, <1>4, <1>5, <2>1, CallWrites
<1>7. PICK sofar, next : /\ sofar = Written(done) /\ next = Written(done + 1)
  OBVIOUS
<1>8. next = sofar \o x /\ sofar \in Bytes
  BY <1>1, <1>3, <1>5, <1>7, EncodingGrows DEF Written
<1>9. /\ w.kind # "file" => w.out = <<>>
      /\ w.err = "ok" => w.out \o w.buf = sofar
      /\ w.err # "ok" => Starts(w.out, sofar)
  BY <1>1, <1>7, Zenon DEF WriterInv
<1>10. /\ IsWriter(b) /\ b.live /\ b.kind = w.kind
       /\ w.kind # "file" => b.out = w.out
  BY <1>1, <1>6, Zenon DEF Writes
<1>11. b.err = "ok" => b.out \o b.buf = next
  BY <1>6, <1>8, <1>9, Zenon DEF Writes
<1>12. ASSUME b.err # "ok"
       PROVE  Starts(b.out, next)
  <2>1. CASE w.err = "ok"
    BY <1>6, <1>8, <1>9, <1>12, <2>1, Zenon DEF Writes
  <2>2. CASE w.err # "ok"
    <3>1. b.out = w.out /\ Starts(b.out, sofar) /\ b.out \in Bytes
      BY <1>6, <1>9, <1>10, <2>2, Zenon DEF Writes, IsWriter
    <3> QED
      BY <1>6, <1>8, <3>1, StartsLonger
  <2> QED
    BY <2>1, <2>2
<1> QED
  BY <1>1, <1>3, <1>4, <1>7, <1>9, <1>10, <1>11, <1>12, Zenon

LEMMA DestroyWriterInv == WriterInv /\ DestroyWriter => WriterInv'
<1> SUFFICES ASSUME WriterInv, DestroyWriter, Plain(script)
             PROVE  /\ IsWriter(w') /\ ~w'.live
                    /\ w'.err # "ok" => Starts(w'.out, Written(done))
                    /\ w'.err = "ok" => done = Len(script) /\ w'.out = Written(done)
  BY Zenon DEF WriterInv, DestroyWriter, Written
<1>1. /\ IsWriter(w) /\ w.live /\ w.kind # "file" => w.out = <<>>
      /\ w.err = "ok" => w.out \o w.buf = Written(done)
      /\ w.err # "ok" => Starts(w.out, Written(done))
      /\ done = Len(script) \/ w.err # "ok"
  BY Zenon DEF WriterInv, DestroyWriter
<1>2. PICK b : b = mpack_writer_destroy(w) /\ w' = b
  BY Zenon DEF DestroyWriter
<1>3. /\ IsWriter(b) /\ ~b.live
      /\ w.err # "ok" => b.err # "ok" /\ b.out = w.out
      /\ w.err = "ok" => /\ Starts(b.out, w.out \o w.buf)
                         /\ b.err = "ok" => b.out = w.out \o w.buf
  BY <1>1, <1>2, DestroyWrites, Zenon DEF WriterInv, DestroyWriter
<1> QED
  BY <1>1, <1>2, <1>3, Zenon

\* The invariant is as strong as the property.
LEMMA WriterInvReference == WriterInv /\ Plain(script) => WritesReference
<1> SUFFICES ASSUME WriterInv, Plain(script)
             PROVE  /\ IsPrefix(w.out, ref.bytes)
                    /\ ~w.live /\ w.err = "ok" => w.out = ref.bytes
  BY Zenon DEF WritesReference
<1>1. /\ script \in Seq(Calls) /\ ref.bytes = Written(Len(script))
      /\ IsWriter(w) /\ done \in 0 .. Len(script)
  BY Zenon DEF WriterInv
<1>2. PICK out, sofar, all : out = w.out /\ sofar = Written(done) /\ all = Written(Len(script))
  OBVIOUS
<1>3. out \in Bytes /\ sofar \in Bytes /\ all \in Bytes /\ Starts(sofar, all)
  <2>1. Len(script) \in 0 .. Len(script)
    BY <1>1, LenProperties
  <2> QED
    BY <1>1, <1>2, <2>1, EncodingGrows DEF Written, IsWriter
<1>4. Starts(out, sofar)
  <2>1. CASE w.err # "ok"
    BY <1>2, <2>1, Zenon DEF WriterInv
  <2>2. CASE w.err = "ok" /\ w.live
    <3>1. sofar = out \o w.buf /\ w.buf \in Bytes
      BY <1>1, <1>2, <2>2, Zenon DEF WriterInv, IsWriter
    <3> QED
      BY <3>1, Zenon DEF Starts
  <2>3. CASE w.err = "ok" /\ ~w.live
    <3>1. sofar = out
      BY <1>2, <2>3, Zenon DEF WriterInv
    <3> QED
      BY <1>3, <3>1, StartsSelf, Zenon
  <2> QED
    BY <2>1, <2>2, <2>3
<1>5. Starts(out, all)
  <2>1. PICK more \in Bytes : all = sofar \o more
    BY <1>3 DEF Starts
  <2>2. Starts(out, sofar \o more)
    BY <1>3, <1>4, StartsLonger, Zenon
  <2> QED
    BY <2>1, <2>2, Zenon
<1>6. IsPrefix(out, all)
  BY <1>3, <1>5, StartsPrefix
<1>7. ~w.live /\ w.err = "ok" => out = all
  BY <1>2, Zenon DEF WriterInv
<1> QED
  BY <1>1, <1>2, <1>6, <1>7, Zenon

(* Whatever calls a program makes that builds nothing, in any order, with
   any writer, buffer and failing flush: what the writer has handed over is
   the beginning of their encoding, and a writer destroyed without an error
   has handed over all of it.                                               *)
THEOREM PlainWritesReference == WriterSpec => [](Plain(script) => WritesReference)
<1>1. WriterInit => WriterInv
  BY WriterInitInv
<1>2. WriterInv /\ [WriterNext]_writerVars => WriterInv'
  <2>1. WriterInv /\ UNCHANGED writerVars => WriterInv'
    BY Zenon DEF WriterInv, writerVars, Written
  <2> QED
    BY <2>1, WriteNextInv, DestroyWriterInv DEF WriterNext
<1>3. WriterInv => (Plain(script) => WritesReference)
  BY WriterInvReference
<1> QED
  BY <1>1, <1>2, <1>3, PTL DEF WriterSpec
=============================================================================
