---------------------------- MODULE WorkerHandler ----------------------------
(***************************************************************************)
(* What msg_handler (rpc/rpcs.cpp) replies to one frame,                   *)
(*   msg: [func_name, [params]]                                            *)
(* beside what it is meant to reply, stated on the frame itself.  As in    *)
(* RpcHandler the calls share one mpack tree and its sticky error, but     *)
(* here every path ends in a reply: there is no request id to look up.     *)
(***************************************************************************)
EXTENDS MPackNode

POOL_NODES == 128    \* mpack_node_data_t pool[128]
NAME_SIZE  == 128    \* char cstr[128]

\* What rpc_hash_mgr_init registers.
rpc_hashmgr == {"add"}

Reply(status, cause, args) == [status |-> status, cause |-> cause, args |-> args]

\* A handle on the node of root, in the state an earlier call left the tree.
After(call, root) == Handle(call.err, root.data)

rpc_check_param_validity(params, param_types) ==
  LET array == mpack_node_array_length(params)
  IN  /\ params.err = "ok" /\ params.data.type = "array"
      /\ array.length = Len(param_types)
      /\ \A i \in 1 .. Len(param_types) : params.data.kids[i].type = param_types[i]

rpc_request_add(params) ==
  IF rpc_check_param_validity(params, <<"double", "double">>)
  THEN Reply("SUCCESS", EmptyText,
             <<params.data.kids[1].text, params.data.kids[2].text>>)
  ELSE Reply("FAILED", EmptyText, <<>>)

\* Mutant: the parameters are taken for the last element.
msg_handler_LastElement(payload) ==
  LET root  == mpack_tree_root(payload, POOL_NODES)
      func  == mpack_node_array_at(root, 0)
      name  == mpack_node_copy_cstr(func, NAME_SIZE)
      paras == mpack_node_array_at(After(name, root), root.data.len - 1)
  IN  IF name.cstr \in rpc_hashmgr
      THEN rpc_request_add(paras)
      ELSE Reply("FAILED", "unknown entry", <<>>)

msg_handler(payload) ==
  LET root  == mpack_tree_root(payload, POOL_NODES)
      func  == mpack_node_array_at(root, 0)
      name  == mpack_node_copy_cstr(func, NAME_SIZE)
      paras == mpack_node_array_at(After(name, root), 1)
  IN  IF name.cstr \in rpc_hashmgr
      THEN rpc_request_add(paras)
      ELSE Reply("FAILED", "unknown entry", <<>>)

------------------------------------------------------------------------------
\* A frame as the parser leaves it: the len of its nodes are unsigned numbers.
PayloadOK(payload) ==
  /\ payload.ok \in BOOLEAN
  /\ payload.nodes \in Nat
  /\ payload.root.len \in Nat
  /\ payload.root.type = "array" =>
       \A i \in 1 .. payload.root.len : payload.root.kids[i].len \in Nat

CallsAdd(payload) ==
  /\ payload.ok /\ payload.nodes <= POOL_NODES
  /\ payload.root.type = "array" /\ payload.root.len >= 1
  /\ LET name == payload.root.kids[1]
     IN  /\ name.type = "str" /\ ~name.nul /\ name.len < NAME_SIZE
         /\ name.text = "add"

WithTwoDoubles(payload) ==
  /\ payload.root.len >= 2
  /\ LET params == payload.root.kids[2]
     IN  /\ params.type = "array" /\ params.len = 2
         /\ params.kids[1].type = "double" /\ params.kids[2].type = "double"

\* The reply a frame is to have.
PromisedReply(payload) ==
  CASE ~CallsAdd(payload) -> Reply("FAILED", "unknown entry", <<>>)
    [] CallsAdd(payload) /\ ~WithTwoDoubles(payload) -> Reply("FAILED", EmptyText, <<>>)
    [] CallsAdd(payload) /\ WithTwoDoubles(payload) ->
         Reply("SUCCESS", EmptyText,
               <<payload.root.kids[2].kids[1].text, payload.root.kids[2].kids[2].text>>)
==============================================================================
