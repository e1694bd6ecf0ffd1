------------------------------ MODULE RpcHandler ------------------------------
(***************************************************************************)
(* What rpc_msg_handler (rpcserver/rpcserver.cpp) does with one payload,   *)
(* as an operator: the sequence of replies it publishes, empty or a single *)
(* one.  The handler, the registered method and the error reply all read   *)
(* the same mpack tree, so the tree's sticky error is threaded through     *)
(* them in the order of the calls.                                         *)
(***************************************************************************)
EXTENDS MPackNode

NODE_POOL == 128       \* mpack_node_data_t pool[128]
CSTR_SIZE == 128       \* char cstr[128], char requestid[128]

\* A handle on the node of root, in the state an earlier call left the tree.
After(call, root) == Handle(call.err, root.data)

(* A reply is published on a topic of len bytes copied from a zeroed buffer of
   CSTR_SIZE bytes that holds text: with an empty text and a positive len the
   topic is len NUL bytes, and beyond CSTR_SIZE what lies behind the buffer. *)
Topic(text, len) == [text |-> text, len |-> len]

Reply(topic, status, cause, args) ==
  [topic |-> topic, status |-> status, cause |-> cause, args |-> args]

(* The caller's size variable is written from the node even when the copy has
   failed, so size may be positive while id is the empty string.            *)
rpc_msg_get_request_id(node) ==
  LET requestid_node == mpack_node_map_cstr(node, "request_id")
      copy == mpack_node_copy_cstr(requestid_node, CSTR_SIZE)
  IN  CASE node.data.type # "map" ->
             [err |-> node.err, id |-> EmptyText, size |-> 0]
        [] node.data.type = "map" /\ requestid_node.data.len = 0 ->
             [err |-> requestid_node.err, id |-> EmptyText, size |-> 0]
        [] node.data.type = "map" /\ requestid_node.data.len # 0 ->
             [err |-> copy.err, id |-> copy.cstr,
              size |-> requestid_node.data.len]

\* Mutant: the whole id buffer is sent as the topic.
rpc_send_error_reply_WholeBuffer(root, cause) ==
  LET req == rpc_msg_get_request_id(mpack_node_array_at(root, 0))
  IN  IF req.size = 0
      THEN <<>>
      ELSE <<Reply(Topic(req.id, CSTR_SIZE), "ERROR", cause, <<>>)>>

rpc_send_error_reply(root, cause) ==
  LET req == rpc_msg_get_request_id(mpack_node_array_at(root, 0))
  IN  IF req.size = 0
      THEN <<>>
      ELSE <<Reply(Topic(req.id, req.size), "ERROR", cause, <<>>)>>

\* Mutant: further parameters are let through.
rpc_check_params_validity_AtLeast(params, param_types) ==
  LET array == mpack_node_array_length(params)
  IN  [err   |-> array.err,
       valid |-> /\ array.length >= Len(param_types)
                 /\ \A i \in 1 .. Len(param_types) :
                      params.data.kids[i].type = param_types[i]]

\* Mutant: a parameter of another type leaves a type error in the tree.
rpc_check_params_validity_FlagsType(params, param_types) ==
  LET array == mpack_node_array_length(params)
      valid == /\ array.length = Len(param_types)
               /\ \A i \in 1 .. Len(param_types) :
                    params.data.kids[i].type = param_types[i]
  IN  [err   |-> IF valid THEN array.err
                 ELSE mpack_node_flag_error(params, "type").err,
       valid |-> valid]

(* The parameter types are compared on the raw nodes; a params node that is no
   array leaves an error in the tree, which the caller's error reply meets.  *)
rpc_check_params_validity(params, param_types) ==
  LET array == mpack_node_array_length(params)
  IN  [err   |-> array.err,
       valid |-> /\ array.length = Len(param_types)
                 /\ \A i \in 1 .. Len(param_types) :
                      params.data.kids[i].type = param_types[i]]

rpc_request_add(root) ==
  LET params   == mpack_node_array_at(root, 2)
      req      == rpc_msg_get_request_id(
                    mpack_node_array_at(After(params, root), 0))
      validity == rpc_check_params_validity(
                    After(req, params), <<"double", "double">>)
  IN  CASE req.size = 0 -> <<>>
        [] req.size # 0 /\ ~validity.valid ->
             rpc_send_error_reply(After(validity, root), "invalid parameters.")
        [] req.size # 0 /\ validity.valid ->
             <<Reply(Topic(req.id, req.size), "SUCCESS", EmptyText,
                     <<params.data.kids[1].text, params.data.kids[2].text>>)>>

rpc_msg_handler(methods, payload) ==
  LET root  == mpack_tree_root(payload, NODE_POOL)
      map   == mpack_node_array_at(root, 0)
      func  == mpack_node_array_at(After(map, root), 1)
      name  == mpack_node_copy_cstr(func, CSTR_SIZE)
      paras == mpack_node_array_at(After(name, root), 2)
  IN  CASE root.data.type # "array" \/ map.data.type # "map" -> <<>>
        [] /\ root.data.type = "array"
           /\ map.data.type = "map"
           /\ name.cstr \in methods -> rpc_request_add(After(paras, root))
        [] /\ root.data.type = "array"
           /\ map.data.type = "map"
           /\ name.cstr \notin methods ->
             rpc_send_error_reply(After(paras, root), "unsupported function")
==============================================================================
