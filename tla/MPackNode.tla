------------------------------ MODULE MPackNode ------------------------------
(***************************************************************************)
(* The part of the mpack node API (rpcserver/mpack/mpack.c) the RPC code   *)
(* reads requests with.  A tree carries ONE error.  The first accessor     *)
(* that fails sets it, and from then on every accessor of that tree        *)
(* answers with a nil node, zero or the empty string, whatever it is asked *)
(* about.  A handle is therefore a pair: a node and the error its tree     *)
(* holds when the handle is used; every accessor returns a new handle.     *)
(***************************************************************************)
EXTENDS Integers, Sequences

(* A parsed node.  len is the number of elements of an array, of pairs of a
   map, of bytes of a string; a map holds its keys and values alternately.
   text stands for the bytes of a string or of a number, and nul says that a
   string has a NUL among its bytes.  mpack writes no len for nil, bool and
   number nodes and the caller's node pool is uninitialized stack memory: a
   scalar's len may be any number, so it is a part of the input.           *)
EmptyText == ""

Node(type, len, kids, text, nul) ==
  [type |-> type, len |-> len, kids |-> kids, text |-> text, nul |-> nul]

ArrayNode(kids) == Node("array", Len(kids), kids, EmptyText, FALSE)
MapNode(kids)   == Node("map", Len(kids) \div 2, kids, EmptyText, FALSE)
StrNode(text, len, nul) == Node("str", len, <<>>, text, nul)
ScalarNode(type, text, garbage) == Node(type, garbage, <<>>, text, FALSE)

\* mpack_tree_nil_node: the tree's own nil node, zeroed, so its len is 0.
NilNode == Node("nil", 0, <<>>, EmptyText, FALSE)

------------------------------------------------------------------------------
Handle(err, data) == [err |-> err, data |-> data]

\* mpack_tree_flag_error: the first error stays.
mpack_node_flag_error(h, e) == [h EXCEPT !.err = IF @ = "ok" THEN e ELSE @]

\* A lookup that failed: the error is flagged and the answer is the nil node.
FailedLookup(h, e) == [mpack_node_flag_error(h, e) EXCEPT !.data = NilNode]

(* mpack_tree_init_pool, mpack_tree_parse and mpack_tree_root for a payload
   [ok, nodes, root]: ok says the bytes are one well-formed message, nodes is
   the number of nodes it needs.  The pool is fixed, so a message that needs
   more nodes is an error, and the root of a tree in error is nil.          *)
mpack_tree_root(payload, pool) ==
  IF payload.ok /\ payload.nodes <= pool
  THEN Handle("ok", payload.root)
  ELSE Handle(IF payload.ok THEN "too_big" ELSE "invalid", NilNode)

\* Mutant: the last element is out of reach.
mpack_node_array_at_LastOut(h, i) ==
  IF h.err = "ok" /\ h.data.type = "array" /\ i < h.data.len - 1
  THEN [h EXCEPT !.data = h.data.kids[i + 1]]
  ELSE FailedLookup(h, IF h.data.type = "array" THEN "data" ELSE "type")

mpack_node_array_at(h, i) ==
  IF h.err = "ok" /\ h.data.type = "array" /\ i < h.data.len
  THEN [h EXCEPT !.data = h.data.kids[i + 1]]
  ELSE FailedLookup(h, IF h.data.type = "array" THEN "data" ELSE "type")

\* The indices of the pairs of a map whose key is the given string.
PairsWithKey(map, key) ==
  {i \in 1 .. map.len : /\ map.kids[2 * i - 1].type = "str"
                        /\ map.kids[2 * i - 1].text = key}

\* A key that is missing, and a key that occurs twice, are both errors.
mpack_node_map_cstr(h, key) ==
  IF /\ h.err = "ok"
     /\ h.data.type = "map"
     /\ \E i \in 1 .. h.data.len : PairsWithKey(h.data, key) = {i}
  THEN [h EXCEPT !.data =
          h.data.kids[2 * (CHOOSE i \in PairsWithKey(h.data, key) : TRUE)]]
  ELSE FailedLookup(h, IF h.data.type = "map" THEN "data" ELSE "type")

\* The length, 0 on an error, beside the tree's error after the call.
mpack_node_array_length(h) ==
  IF h.err = "ok" /\ h.data.type = "array"
  THEN [err |-> "ok", length |-> h.data.len]
  ELSE [err |-> mpack_node_flag_error(h, "type").err, length |-> 0]

(* mpack_node_copy_cstr into a buffer of bufsize bytes: the text in the buffer,
   empty on an error, beside the tree's error after the call.               *)
mpack_node_copy_cstr(h, bufsize) ==
  LET fault == IF h.data.type # "str" \/ h.data.nul THEN "type" ELSE "too_big"
  IN  IF /\ h.err = "ok"
         /\ h.data.type = "str"
         /\ h.data.len <= bufsize - 1
         /\ ~h.data.nul
      THEN [err |-> "ok", cstr |-> h.data.text]
      ELSE [err |-> mpack_node_flag_error(h, fault).err, cstr |-> EmptyText]
==============================================================================
