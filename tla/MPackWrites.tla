----------------------------- MODULE MPackWrites -----------------------------
(***************************************************************************)
(* A program that writes with mpack: it makes the calls of a script, one a *)
(* step, to a writer whose flush function delivers or fails, and destroys  *)
(* the writer at the end or after an error.                                *)
(***************************************************************************)
EXTENDS MPackBuilder

CONSTANTS
  Cases \* [script |-> the calls a writer makes, w |-> the writer as initialized]

(* A call of the write API, with the type, number and bytes it is given; an
   "open" carries the bytes the calls behind it will write, and a "head" is
   the tag of a container alone.                                            *)
Call(op, type, n, body) == [op |-> op, type |-> type, n |-> n, body |-> body]

Ops == {"scalar", "str", "utf8", "bin", "object", "open", "bytes", "close",
        "start", "finish", "build", "complete", "head", "flush"}

(* The calls there are, each with what the API's function of that name takes;
   whether a script of them keeps the rules of the API is another matter.   *)
Plausible(call) ==
  CASE call.op = "scalar"          -> call.type \in {"nil", "bool", "uint", "int", "float", "double"} /\ call.body = <<>>
    [] call.op \in {"str", "utf8"} -> call.type = "str"
    [] call.op = "object"          -> call.type = "str" /\ call.n = Len(call.body)
    [] call.op = "bin"             -> call.type = "bin"
    [] call.op = "open"            -> call.type \in {"str", "bin"}
    [] call.op \in {"start", "build"} -> call.type \in {"array", "map"} /\ call.n \in Nat /\ call.body = <<>>
    [] call.op = "head" -> call.type \in {"str", "bin", "array", "map"} /\ call.n \in Nat /\ call.body = <<>>
    [] call.op = "bytes"           -> TRUE
    [] call.op \in {"close", "finish", "complete", "flush"} -> call.body = <<>>

Calls == {call \in [op : Ops, type : STRING, n : Int, body : Seq(0 .. 255)] : Plausible(call)}

\* A writer is as one of the init functions leaves it.
ASSUME ScriptsAssumption ==
  \A case \in Cases :
    /\ case.script \in Seq(Calls)
    /\ case.w.kind \in {"none", "growable", "file"}
    /\ case.w = NewWriter(case.w.kind, case.w.size, case.w.tracking, case.w.failing)

VARIABLES
  script, \* what the writer is to call
  ref,    \* what the format makes of the script
  done,   \* how many of the calls it has made
  w       \* the writer

writerVars == <<script, ref, done, w>>

------------------------------------------------------------------------------
(* The elements of a script, by the numbers of the calls that begin them,
   and what the format makes of them: the reference for both ends.          *)
Begins(call) == call.op \in {"scalar", "str", "utf8", "bin", "open", "start", "build", "object", "head"}
Opens(call)  == call.op \in {"open", "start", "build"}
Closes(call) == call.op \in {"close", "finish", "complete"}

Count(s, Test(_)) == Cardinality({i \in DOMAIN s : Test(s[i])})
Depth(s, i) == Count(SubSeq(s, 1, i - 1), Opens) - Count(SubSeq(s, 1, i - 1), Closes)

\* The calls within the element that call i opens, the one that closes it included.
Inside(s, i) == {j \in i + 1 .. Len(s) : \A k \in i + 1 .. j : Depth(s, k) > Depth(s, i)}
Children(s, i) == {j \in Inside(s, i) : Begins(s[j]) /\ Depth(s, j) = Depth(s, i) + 1}

Contents(s, i) ==
  CASE s[i].op = "build" /\ s[i].type = "map" -> Cardinality(Children(s, i)) \div 2
    [] s[i].op = "build" /\ s[i].type = "array" -> Cardinality(Children(s, i))
    [] s[i].type \in {"str", "bin"} /\ s[i].op # "head" -> Len(s[i].body)
    [] OTHER -> s[i].n

ElementTag(s, i) ==
  IF s[i].type = "int" /\ s[i].n >= 0 THEN Tag("uint", s[i].n) ELSE Tag(s[i].type, Contents(s, i))

\* An element: its tag and bytes, whether only its head is there, how many elements it contains.
Element(s, i) ==
  LET t == ElementTag(s, i)
  IN  [tag |-> t, body |-> s[i].body, bytes |-> Encode(t) \o s[i].body, bare |-> s[i].op = "head",
       inside |-> IF Opens(s[i]) THEN Cardinality({j \in Inside(s, i) : Begins(s[j])}) ELSE 0]

\* Every container is closed, by its own kind of call, with as much in it as it was opened for.
Balanced(s) ==
  /\ Count(s, Opens) = Count(s, Closes)
  /\ \A i \in DOMAIN s : s[i].op = "bytes" => \E k \in DOMAIN s : s[k].op = "open" /\ i \in Inside(s, k)
  /\ \A i \in DOMAIN s : Opens(s[i]) =>
      /\ \E c \in DOMAIN s :
           /\ c = i + Cardinality(Inside(s, i))
           /\ <<s[i].op, s[c].op>> \in {<<"open", "close">>, <<"start", "finish">>, <<"build", "complete">>}
           /\ s[c].type = s[i].type
      /\ s[i].type = "array" /\ s[i].op = "start" => Cardinality(Children(s, i)) = s[i].n
      /\ s[i].type = "map" /\ s[i].op = "start" => Cardinality(Children(s, i)) = 2 * s[i].n
      /\ s[i].type = "map" => Cardinality(Children(s, i)) % 2 = 0
      /\ s[i].op = "open" =>
           /\ Children(s, i) = {}
           /\ s[i].body = FlattenSeq([k \in 1 .. Cardinality(Inside(s, i)) - 1 |-> s[i + k].body])

(* What the format makes of the first calls of a script, for any number of
   them: of a call the head of the element it begins and the bytes it brings.  *)
CallBytes(s, i) ==
  (IF Begins(s[i]) THEN Encode(ElementTag(s, i)) ELSE <<>>)
    \o (IF s[i].op = "open" THEN <<>> ELSE s[i].body)

Encoding(s) ==
  LET upto[n \in 0 .. Len(s)] == IF n = 0 THEN <<>> ELSE upto[n - 1] \o CallBytes(s, n)
  IN  upto

Reference(s) ==
  LET elements == [k \in DOMAIN SelectSeq(s, Begins) |->
                     Element(s, CHOOSE i \in DOMAIN s : Begins(s[i]) /\ Count(SubSeq(s, 1, i), Begins) = k)]
  IN  [elements |-> elements,
       bytes    |-> Encoding(s)[Len(s)],
       ends     |-> [k \in DOMAIN elements |-> Len(FlattenSeq([m \in 1 .. k |-> elements[m].bytes]))],
       balanced |-> Balanced(s)]

------------------------------------------------------------------------------
(* The writer.                                                              *)
WriteCall(call) ==
  CASE call.op = "scalar"   -> WriteScalar(w, Tag(call.type, call.n))
    [] call.op = "str"      -> mpack_write_str(w, call.body)
    [] call.op = "utf8"     -> mpack_write_utf8(w, call.body)
    [] call.op = "bin"      -> mpack_write_bin(w, call.body)
    [] call.op = "object"   -> mpack_write_object_bytes(w, Encode(Tag(call.type, call.n)) \o call.body)
    [] call.op = "open"     -> StartBytes(w, call.type, Len(call.body))
    [] call.op = "bytes"    -> mpack_write_bytes(w, call.body)
    [] call.op = "close"    -> mpack_writer_track_pop(w, call.type)
    [] call.op = "head" /\ call.type \in {"str", "bin"} -> StartBytes(w, call.type, call.n)
    [] call.op \in {"start", "head"} /\ call.type \in {"array", "map"} -> StartCompound(w, call.type, call.n)
    [] call.op = "finish"   -> FinishCompound(w, call.type)
    [] call.op = "build"    -> mpack_builder_build(w, call.type)
    [] call.op = "complete" -> mpack_builder_complete(w, call.type)
    [] call.op = "flush"    -> mpack_writer_flush_message(w)

WriteNext ==
  /\ done < Len(script)
  /\ w.live
  /\ w' = WriteCall(script[done + 1])
  /\ done' = done + 1
  /\ UNCHANGED <<script, ref>>

\* The writer may be destroyed before the script ends.
DestroyWriter ==
  /\ w.live
  /\ done = Len(script) \/ w.err # "ok"
  /\ w' = mpack_writer_destroy(w)
  /\ UNCHANGED <<script, ref, done>>

------------------------------------------------------------------------------
Begin(case) ==
  /\ script = case.script /\ ref = Reference(case.script) /\ w = case.w
  /\ done = 0

WriterInit == \E case \in Cases : Begin(case)

WriterNext == WriteNext \/ DestroyWriter

WriterSpec == WriterInit /\ [][WriterNext]_writerVars

------------------------------------------------------------------------------
\* No container is built.
Plain(s) == \A i \in DOMAIN s : s[i].op \notin {"build", "complete"}

(* What a writer hands to its flush function, or to the caller at its end,
   is the beginning of the encoding of the calls, also when a flush failed,
   the buffer ran out or a call was refused, and a writer destroyed without
   an error has handed over all of it, builds included: buffering, flushing,
   straddling writes, pages and the heads put in afterwards lose, repeat and
   reorder nothing.  Without builds that is so even of calls that break the
   rules of the API (mpack_writer_flush_unchecked, mpack_write_native_straddle,
   mpack_builder_resolve).                                                  *)
WritesReference ==
  ref.balanced \/ Plain(script) =>
    /\ IsPrefix(w.out, ref.bytes)
    /\ ~w.live /\ w.err = "ok" => w.out = ref.bytes

(* mpack.h:3817: "Builder maps and arrays are encoded exactly the same as
   ordinary maps and arrays in the final message."                          *)
BuiltAsOrdinary ==
  ~w.live /\ w.err = "ok" /\ ref.balanced => w.out = ref.bytes
=============================================================================
