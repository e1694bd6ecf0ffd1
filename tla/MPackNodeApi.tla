----------------------------- MODULE MPackNodeApi -----------------------------
(***************************************************************************)
(* The node API of mpack (rpcserver/mpack/mpack.c): the accessors of the   *)
(* nodes of a parsed tree.  An accessor is given the tree and a node       *)
(* [type, n, at], and answers with the tree, whose error it may have set,  *)
(* and what it returns.  In a tree in error every answer is empty.         *)
(***************************************************************************)
EXTENDS MPackTree

Answer(t, got) == [t |-> t, got |-> got]

\* mpack_tree_nil_node, mpack_tree_missing_node
NilNode     == [type |-> "nil", n |-> 0, at |-> 0]
MissingNode == [type |-> "missing", n |-> 0, at |-> 0]

\* The tree must have been parsed.
mpack_tree_root(t) ==
  CASE t.err # "ok" -> Answer(t, NilNode)
    [] t.err = "ok" /\ t.state # "parsed" -> Answer(mpack_tree_flag_error(t, "bug"), NilNode)
    [] OTHER -> Answer(t, t.nodes[<<1, 1>>])

\* mpack_node_data_unchecked, mpack_node_child
Bytes(t, node) == SubSeq(t.data, node.at + 1, node.at + node.n)
ChildNode(t, node, k) == t.nodes[Child(node.at, k)]

\* What is asked for if ok holds, else an error and the empty answer.
Need(t, ok, e, got, empty) ==
  CASE t.err # "ok"         -> Answer(t, empty)
    [] t.err = "ok" /\ ok   -> Answer(t, got)
    [] t.err = "ok" /\ ~ok  -> Answer(mpack_tree_flag_error(t, e), empty)

\* mpack_node_nil, missing, bool: the n of a type.
NodeOf(t, node, types) == Need(t, node.type \in types, "type", node.n, 0)

\* mpack_node_float, mpack_node_double, and the strict ones, which convert less.
mpack_node_real(t, node, types) == NodeOf(t, node, types)

\* mpack_node_data_len, strlen, bin_size, array_length, map_count
mpack_node_length(t, node, types) == NodeOf(t, node, types)

\* mpack_node_str, data, bin_data
BytesOf(t, node, types) == Need(t, node.type \in types, "type", Bytes(t, node), <<>>)

mpack_node_tag(t, node) == IF t.err # "ok" THEN Answer(t, NilTag) ELSE Answer(t, Tag(node.type, node.n))
mpack_node_type(t, node) == IF t.err # "ok" THEN Answer(t, "nil") ELSE Answer(t, node.type)
mpack_node_is_nil(t, node) == Answer(t, t.err # "ok" \/ node.type = "nil")
mpack_node_is_missing(t, node) == Answer(t, t.err = "ok" /\ node.type = "missing")

\* mpack_node_true, mpack_node_false
mpack_node_bool_match(t, node, value) ==
  LET b == NodeOf(t, node, {"bool"})
  IN  Answer(IF b.got = value THEN b.t ELSE mpack_tree_flag_error(b.t, "type"), 0)

\* mpack_node_u8 .. u64, i8 .. i64, int, uint
mpack_node_integer(t, node, lo, hi) ==
  Need(t, node.type \in {"uint", "int"} /\ lo <= node.n /\ node.n <= hi, "type", node.n, 0)

------------------------------------------------------------------------------
\* mpack_node_check_utf8, mpack_node_check_utf8_cstr
mpack_node_check_utf8(t, node, allow_null) ==
  Need(t, node.type = "str" /\ Utf8Check(Bytes(t, node), allow_null), "type", 0, 0)

\* The type, then the room, then the content: all that copies or allocates.
Copied(t, node, types, room, Sound(_)) ==
  CASE t.err = "ok" /\ node.type \in types /\ node.n > room -> Answer(mpack_tree_flag_error(t, "too_big"), <<>>)
    [] OTHER -> Need(t, node.type \in types /\ Sound(Bytes(t, node)), "type", Bytes(t, node), <<>>)

AnyBytes(str) == TRUE
Utf8(str) == Utf8Check(str, TRUE)
Utf8NoNull(str) == Utf8Check(str, FALSE)

mpack_node_copy_data(t, node, bufsize)      == Copied(t, node, {"str", "bin"}, bufsize, AnyBytes)
mpack_node_copy_utf8(t, node, bufsize)      == Copied(t, node, {"str"}, bufsize, Utf8)
mpack_node_copy_cstr(t, node, bufsize)      == Copied(t, node, {"str"}, bufsize - 1, NoNull)
mpack_node_copy_utf8_cstr(t, node, bufsize) == Copied(t, node, {"str"}, bufsize - 1, Utf8NoNull)
mpack_node_data_alloc(t, node, maxlen)      == Copied(t, node, {"str", "bin"}, maxlen, AnyBytes)

WithTerminator(t, maxlen, answer) ==
  IF t.err = "ok" /\ maxlen < 1 THEN Answer(mpack_tree_flag_error(t, "bug"), <<>>) ELSE answer

mpack_node_cstr_alloc(t, node, maxlen) ==
  WithTerminator(t, maxlen, Copied(t, node, {"str"}, maxlen - 1, NoNull))

mpack_node_utf8_cstr_alloc(t, node, maxlen) ==
  WithTerminator(t, maxlen, Copied(t, node, {"str"}, maxlen - 1, Utf8NoNull))

------------------------------------------------------------------------------
\* Mutant: the error of the tree is not looked at.
mpack_node_array_at_Trusts(t, node, index) ==
  CASE node.type # "array" -> Answer(mpack_tree_flag_error(t, "type"), NilNode)
    [] node.type = "array" /\ index < node.n -> Answer(t, ChildNode(t, node, index))
    [] OTHER -> Answer(mpack_tree_flag_error(t, "data"), NilNode)

mpack_node_array_at(t, node, index) ==
  IF t.err = "ok" /\ node.type # "array" THEN Answer(mpack_tree_flag_error(t, "type"), NilNode)
  ELSE Need(t, index < node.n, "data", ChildNode(t, node, index), NilNode)

\* mpack_node_map_key_at (offset 0), mpack_node_map_value_at (offset 1)
mpack_node_map_at(t, node, index, offset) ==
  IF t.err = "ok" /\ node.type # "map" THEN Answer(mpack_tree_flag_error(t, "type"), NilNode)
  ELSE Need(t, index < node.n, "data", ChildNode(t, node, 2 * index + offset), NilNode)

(* mpack_node_map_int_impl, map_uint_impl and map_str_impl: the indices of the
   pairs whose key is equal; a second one is an error.  got is the set of the
   values found, which then has one element at most.                        *)
Lookup(t, node, IsKey(_)) ==
  LET found == {i \in 0 .. node.n - 1 : IsKey(ChildNode(t, node, 2 * i))}
  IN  CASE t.err # "ok" -> Answer(t, {})
        [] t.err = "ok" /\ node.type # "map" -> Answer(mpack_tree_flag_error(t, "type"), {})
        [] OTHER -> Need(t, Cardinality(found) <= 1, "data", {ChildNode(t, node, 2 * i + 1) : i \in found}, {})

\* The key is a number, whatever the signedness it is stored with, or a string.
LookupNumber(t, node, num) == Lookup(t, node, LAMBDA key : key.type \in {"int", "uint"} /\ key.n = num)
LookupStr(t, node, str) == Lookup(t, node, LAMBDA key : key.type = "str" /\ Bytes(t, key) = str)

Found(lookup) == CHOOSE node \in lookup.got : TRUE

mpack_node_wrap_lookup(lookup) ==
  IF lookup.got = {} THEN Answer(mpack_tree_flag_error(lookup.t, "data"), NilNode)
  ELSE Answer(lookup.t, Found(lookup))

\* Mutant: the error of the lookup is not looked at.
mpack_node_wrap_lookup_optional_Missing(lookup) ==
  IF lookup.got # {} THEN Answer(lookup.t, Found(lookup)) ELSE Answer(lookup.t, MissingNode)

mpack_node_wrap_lookup_optional(lookup) ==
  IF lookup.got # {} THEN Answer(lookup.t, Found(lookup))
  ELSE Answer(lookup.t, IF lookup.t.err = "ok" THEN MissingNode ELSE NilNode)

mpack_node_map_contains(lookup) == Answer(lookup.t, lookup.got # {})

IndexOf(strings, str) ==
  IF \E i \in DOMAIN strings : strings[i] = str
  THEN (CHOOSE i \in DOMAIN strings : strings[i] = str) - 1 ELSE Len(strings)

mpack_node_enum_optional(t, node, strings) ==
  Answer(t, IF t.err # "ok" \/ node.type # "str" THEN Len(strings) ELSE IndexOf(strings, Bytes(t, node)))

mpack_node_enum(t, node, strings) ==
  LET e == mpack_node_enum_optional(t, node, strings)
  IN  IF e.got = Len(strings) THEN Answer(mpack_tree_flag_error(t, "type"), e.got) ELSE e
==============================================================================
