--------------------------- MODULE MPackNodeProofs ---------------------------
(***************************************************************************)
(* Lemmas about the accessors of MPackNode: what each answers on a tree    *)
(* without errors, and that after the first error every one of them        *)
(* answers nothing and the error stays.                                    *)
(***************************************************************************)
EXTENDS MPackNode, TLAPS

\* The first error is set on a handle of a tree without one, and stays.
LEMMA FlagErrorSets ==
  ASSUME NEW node, NEW e
  PROVE  /\ mpack_node_flag_error(Handle("ok", node), e) = Handle(e, node)
         /\ FailedLookup(Handle("ok", node), e) = Handle(e, NilNode)
<1>1. mpack_node_flag_error(Handle("ok", node), e) = Handle(e, node)
  BY DEF mpack_node_flag_error, Handle
<1>2. FailedLookup(Handle("ok", node), e) = Handle(e, NilNode)
  BY <1>1 DEF FailedLookup, Handle
<1> QED
  BY <1>1, <1>2

\* A node that is there is found, and leaves the tree free of errors.
LEMMA ArrayAtFound ==
  ASSUME NEW node, NEW i, node.type = "array", i < node.len
  PROVE  mpack_node_array_at(Handle("ok", node), i)
           = Handle("ok", node.kids[i + 1])
  BY DEF mpack_node_array_at, Handle

\* A node that is not there leaves an error.
LEMMA ArrayAtMissing ==
  ASSUME NEW node, NEW i, ~(node.type = "array" /\ i < node.len)
  PROVE  \E e : /\ e # "ok"
                /\ mpack_node_array_at(Handle("ok", node), i) = Handle(e, NilNode)
<1> DEFINE e == IF node.type = "array" THEN "data" ELSE "type"
<1>1. mpack_node_array_at(Handle("ok", node), i)
        = FailedLookup(Handle("ok", node), e)
  BY DEF mpack_node_array_at, Handle
<1>2. e # "ok"
  OBVIOUS
<1> HIDE DEF e
<1> QED
  BY <1>1, <1>2, FlagErrorSets

\* On a tree in error every lookup answers nil and keeps the error.
LEMMA ArrayAtSticks ==
  ASSUME NEW e, e # "ok", NEW node, NEW i
  PROVE  mpack_node_array_at(Handle(e, node), i) = Handle(e, NilNode)
  BY DEF mpack_node_array_at, Handle, FailedLookup, mpack_node_flag_error

\* A string that fits the buffer and has no NUL in it is copied there.
LEMMA CopyFits ==
  ASSUME NEW node, NEW size \in Nat, node.len \in Nat,
         node.type = "str", node.len < size, ~node.nul
  PROVE  mpack_node_copy_cstr(Handle("ok", node), size)
           = [err |-> "ok", cstr |-> node.text]
  BY DEF mpack_node_copy_cstr, Handle

\* Anything else leaves an error and an empty buffer.
LEMMA CopyFails ==
  ASSUME NEW node, NEW size \in Nat, node.len \in Nat,
         ~(node.type = "str" /\ node.len < size /\ ~node.nul)
  PROVE  \E e : /\ e # "ok"
                /\ mpack_node_copy_cstr(Handle("ok", node), size)
                     = [err |-> e, cstr |-> EmptyText]
<1> DEFINE e == IF node.type # "str" \/ node.nul THEN "type" ELSE "too_big"
<1>1. mpack_node_copy_cstr(Handle("ok", node), size)
        = [err |-> mpack_node_flag_error(Handle("ok", node), e).err,
           cstr |-> EmptyText]
  BY DEF mpack_node_copy_cstr, Handle
<1>2. e # "ok"
  OBVIOUS
<1> HIDE DEF e
<1>3. mpack_node_flag_error(Handle("ok", node), e).err = e
  <2>1. mpack_node_flag_error(Handle("ok", node), e) = Handle(e, node)
    BY FlagErrorSets
  <2>2. Handle(e, node).err = e
    BY DEF Handle
  <2> QED
    BY <2>1, <2>2
<1> QED
  BY <1>1, <1>2, <1>3

\* So does a copy on a tree in error.
LEMMA CopySticks ==
  ASSUME NEW e, e # "ok", NEW node, NEW size
  PROVE  mpack_node_copy_cstr(Handle(e, node), size)
           = [err |-> e, cstr |-> EmptyText]
  BY DEF mpack_node_copy_cstr, Handle, mpack_node_flag_error
==============================================================================
