--------------------------- MODULE RpcServerProofs ---------------------------
(***************************************************************************)
(* Theorems about RpcServer.  First about one message: rpc_msg_handler     *)
(* keeps the contract, for every payload and every set of registered       *)
(* methods.  Then about the frames: type correctness; that rpc_handle_req  *)
(* stays in step with the frames of its messages; that replies go to the   *)
(* id of their request and keep the order of the requests; that the server *)
(* implements RpcService; and that only faults of the socket lose calls.   *)
(***************************************************************************)
EXTENDS RpcServer, MPackNodeProofs, SequenceTheorems, FunctionTheorems,
        FiniteSetTheorems

------------------------------------------------------------------------------
(* The contract.  The argument is about the sticky error: as long as no     *)
(* accessor has failed, each reads what the contract names; after the first *)
(* failure the root has no first element any more, so no request id is      *)
(* found and nothing is sent.                                               *)


\* A proper string is copied into the handler's buffer.
LEMMA CopyProper ==
  ASSUME NEW node, node.len \in Nat, ProperString(node)
  PROVE  mpack_node_copy_cstr(Handle("ok", node), CSTR_SIZE)
           = [err |-> "ok", cstr |-> node.text]
  BY CopyFits, 128 \in Nat DEF ProperString, CSTR_SIZE

\* Anything else leaves an error and an empty buffer.
LEMMA CopyImproper ==
  ASSUME NEW node, node.len \in Nat, ~ProperString(node)
  PROVE  \E e : /\ e # "ok"
                /\ mpack_node_copy_cstr(Handle("ok", node), CSTR_SIZE)
                     = [err |-> e, cstr |-> EmptyText]
  BY CopyFails, 128 \in Nat DEF ProperString, CSTR_SIZE

\* A nil node has no request id.
LEMMA NoIdInNil ==
  ASSUME NEW e
  PROVE  rpc_msg_get_request_id(Handle(e, NilNode))
           = [err |-> e, id |-> EmptyText, size |-> 0]
  BY DEF rpc_msg_get_request_id, Handle, NilNode, Node

\* On a tree in error the error reply finds no request id and is not sent.
LEMMA NoErrorReplyAfterError ==
  ASSUME NEW e, e # "ok", NEW node, NEW cause
  PROVE  rpc_send_error_reply(Handle(e, node), cause) = <<>>
  BY ArrayAtSticks, NoIdInNil DEF rpc_send_error_reply

\* Nor does a method that is called on a tree in error answer anything.
LEMMA NoCallAfterError ==
  ASSUME NEW e, e # "ok", NEW node
  PROVE  rpc_request_add(Handle(e, node)) = <<>>
<1> DEFINE params == mpack_node_array_at(Handle(e, node), 2)
           first  == mpack_node_array_at(After(params, Handle(e, node)), 0)
<1>1. params = Handle(e, NilNode)
  BY ArrayAtSticks
<1>2. After(params, Handle(e, node)) = Handle(e, node)
  BY <1>1 DEF After, Handle
<1>3. first = Handle(e, NilNode)
  BY <1>2, ArrayAtSticks
<1>4. rpc_msg_get_request_id(first).size = 0
  BY <1>3, NoIdInNil
<1> QED
  BY <1>4 DEF rpc_request_add

------------------------------------------------------------------------------
\* A map with one request id: the lookup finds the value beside the key.
LEMMA LookupFound ==
  ASSUME NEW map, map.type = "map", NEW i \in 1 .. map.len,
         PairsWithKey(map, "request_id") = {i}
  PROVE  mpack_node_map_cstr(Handle("ok", map), "request_id")
           = Handle("ok", map.kids[2 * i])
<1>1. (CHOOSE k \in PairsWithKey(map, "request_id") : TRUE) = i
  OBVIOUS
<1> QED
  BY <1>1 DEF mpack_node_map_cstr, Handle

\* Without exactly one, the lookup leaves an error and a nil node.
LEMMA LookupMissing ==
  ASSUME NEW map, map.type = "map",
         ~ \E i \in 1 .. map.len : PairsWithKey(map, "request_id") = {i}
  PROVE  mpack_node_map_cstr(Handle("ok", map), "request_id")
           = Handle("data", NilNode)
<1>1. mpack_node_map_cstr(Handle("ok", map), "request_id")
        = FailedLookup(Handle("ok", map), "data")
  BY DEF mpack_node_map_cstr, Handle
<1> QED
  BY <1>1, FlagErrorSets

\* A proper id is read as it is, and leaves the tree free of errors.
LEMMA ProperIdIsRead ==
  ASSUME NEW map, map.type = "map", NEW i \in 1 .. map.len,
         PairsWithKey(map, "request_id") = {i},
         map.kids[2 * i].len \in Nat \ {0},
         ProperString(map.kids[2 * i])
  PROVE  rpc_msg_get_request_id(Handle("ok", map))
           = [err |-> "ok", id |-> map.kids[2 * i].text,
              size |-> map.kids[2 * i].len]
<1> DEFINE node == map.kids[2 * i]
<1>1. mpack_node_map_cstr(Handle("ok", map), "request_id") = Handle("ok", node)
  BY LookupFound
<1>2. mpack_node_copy_cstr(Handle("ok", node), CSTR_SIZE)
        = [err |-> "ok", cstr |-> node.text]
  BY CopyProper
<1>3. /\ Handle("ok", map).data.type = "map"
      /\ Handle("ok", node).data = node
      /\ node.len # 0
  BY DEF Handle
<1> HIDE DEF node
<1>4. rpc_msg_get_request_id(Handle("ok", map))
        = [err |-> "ok", id |-> node.text, size |-> node.len]
  BY <1>1, <1>2, <1>3 DEF rpc_msg_get_request_id
<1> QED
  BY <1>4 DEF node

\* An id that is not proper has size 0, or leaves an error in the tree.
LEMMA ImproperIdLeavesError ==
  ASSUME NEW map, map.type = "map", map.len \in Nat,
         \A j \in 1 .. 2 * map.len : map.kids[j].len \in Nat,
         ~ \E i \in 1 .. map.len :
             /\ PairsWithKey(map, "request_id") = {i}
             /\ ProperString(map.kids[2 * i])
             /\ map.kids[2 * i].len > 0
  PROVE  \/ rpc_msg_get_request_id(Handle("ok", map)).size = 0
         \/ rpc_msg_get_request_id(Handle("ok", map)).err # "ok"
<1> DEFINE req == rpc_msg_get_request_id(Handle("ok", map))
<1>0. Handle("ok", map).data.type = "map"
  BY DEF Handle
<1>1. CASE ~ \E i \in 1 .. map.len : PairsWithKey(map, "request_id") = {i}
  <2>1. mpack_node_map_cstr(Handle("ok", map), "request_id")
          = Handle("data", NilNode)
    BY <1>1, LookupMissing
  <2>2. Handle("data", NilNode).data.len = 0
    BY DEF Handle, NilNode, Node
  <2> QED
    BY <1>0, <2>1, <2>2 DEF rpc_msg_get_request_id
<1>2. CASE \E i \in 1 .. map.len : PairsWithKey(map, "request_id") = {i}
  <2>1. PICK i \in 1 .. map.len : PairsWithKey(map, "request_id") = {i}
    BY <1>2
  <2> DEFINE node == map.kids[2 * i]
  <2>2. mpack_node_map_cstr(Handle("ok", map), "request_id")
          = Handle("ok", node)
    BY <2>1, LookupFound
  <2>3. node.len \in Nat
    <3>1. 2 * i \in 1 .. 2 * map.len
      BY <2>1
    <3> QED
      BY <3>1
  <2>4. Handle("ok", node).data = node
    BY DEF Handle
  <2> HIDE DEF node
  <2>5. CASE node.len = 0
    BY <1>0, <2>2, <2>4, <2>5 DEF rpc_msg_get_request_id
  <2>6. CASE node.len # 0
    <3>1. ~ProperString(node)
      BY <2>1, <2>3, <2>6 DEF node
    <3>2. PICK e : /\ e # "ok"
                   /\ mpack_node_copy_cstr(Handle("ok", node), CSTR_SIZE)
                        = [err |-> e, cstr |-> EmptyText]
      BY <2>3, <3>1, CopyImproper
    <3>3. req = [err |-> e, id |-> EmptyText, size |-> node.len]
      BY <1>0, <2>2, <2>4, <2>6, <3>2 DEF rpc_msg_get_request_id
    <3> QED
      BY <3>2, <3>3
  <2> QED
    BY <2>5, <2>6
<1> QED
  BY <1>1, <1>2

------------------------------------------------------------------------------
\* The same, for the id of a payload.
LEMMA ProperIdOfPayload ==
  ASSUME NEW payload, PayloadOK(payload), HasProperId(payload)
  PROVE  /\ rpc_msg_get_request_id(Handle("ok", payload.root.kids[1]))
               = [err |-> "ok", id |-> RequestId(payload).text,
                  size |-> RequestId(payload).len]
         /\ RequestId(payload).len \in Nat \ {0}
<1> DEFINE map == payload.root.kids[1]
<1>1. /\ 1 \in 1 .. payload.root.len
      /\ payload.root.type = "array"
      /\ map.type = "map"
  BY DEF HasProperId, NamesId, PayloadOK
<1>2. map.len \in Nat /\ \A j \in 1 .. 2 * map.len : map.kids[j].len \in Nat
  BY <1>1 DEF PayloadOK
<1>3. PICK i \in 1 .. map.len : /\ PairsWithKey(map, "request_id") = {i}
                                /\ map.kids[2 * i].len > 0
  BY DEF HasProperId, NamesId
<1>4. RequestId(payload) = map.kids[2 * i]
  <2>1. (CHOOSE k \in PairsWithKey(map, "request_id") : TRUE) = i
    BY <1>3
  <2> QED
    BY <2>1 DEF RequestId
<1>5. 2 * i \in 1 .. 2 * map.len
  BY <1>2, <1>3
<1>6. map.kids[2 * i].len \in Nat \ {0}
  BY <1>2, <1>3, <1>5
<1>7. ProperString(map.kids[2 * i])
  BY <1>4 DEF HasProperId
<1> QED
  BY <1>1, <1>3, <1>4, <1>6, <1>7, ProperIdIsRead

\* On a tree without errors the error reply goes to the proper id.
LEMMA ErrorReplyToProperId ==
  ASSUME NEW payload, PayloadOK(payload), HasProperId(payload), NEW cause
  PROVE  rpc_send_error_reply(Handle("ok", payload.root), cause)
           = <<Reply(OwnTopic(payload), "ERROR", cause, <<>>)>>
<1> DEFINE root == payload.root
           map  == root.kids[1]
<1>1. mpack_node_array_at(Handle("ok", root), 0) = Handle("ok", map)
  <2>1. root.type = "array" /\ 0 < root.len
    BY DEF HasProperId, NamesId, PayloadOK
  <2> QED
    BY <2>1, ArrayAtFound, 0 + 1 = 1
<1>2. rpc_msg_get_request_id(Handle("ok", map))
        = [err |-> "ok", id |-> RequestId(payload).text,
           size |-> RequestId(payload).len]
  BY ProperIdOfPayload
<1>3. RequestId(payload).len # 0
  BY ProperIdOfPayload
<1> QED
  BY <1>1, <1>2, <1>3 DEF rpc_send_error_reply, OwnTopic

------------------------------------------------------------------------------
\* The parameter check on a tree without errors.
LEMMA ParamsOfCleanTree ==
  ASSUME NEW params, params.len \in Nat
  PROVE  LET check == rpc_check_params_validity(Handle("ok", params),
                                               <<"double", "double">>)
         IN  /\ check.valid <=> TwoDoubles(params)
             /\ check.err = "ok" <=> params.type = "array"
<1> DEFINE types  == <<"double", "double">>
           array  == mpack_node_array_length(Handle("ok", params))
           check  == rpc_check_params_validity(Handle("ok", params), types)
<1>1. Len(types) = 2 /\ types[1] = "double" /\ types[2] = "double"
  OBVIOUS
<1>2. Handle("ok", params).data = params /\ Handle("ok", params).err = "ok"
  BY DEF Handle
<1>3. mpack_node_flag_error(Handle("ok", params), "type").err = "type"
  <2>1. mpack_node_flag_error(Handle("ok", params), "type")
          = Handle("type", params)
    BY FlagErrorSets
  <2> QED
    BY <2>1 DEF Handle
<1>4. CASE params.type = "array"
  <2>1. array = [err |-> "ok", length |-> params.len]
    BY <1>2, <1>4 DEF mpack_node_array_length
  <2>2. check.err = "ok"
    BY <2>1 DEF rpc_check_params_validity
  <2>3. check.valid <=> /\ params.len = 2
                        /\ \A i \in 1 .. 2 : params.kids[i].type = types[i]
    BY <1>1, <1>2, <2>1 DEF rpc_check_params_validity
  <2>4. check.valid <=> TwoDoubles(params)
    BY <1>1, <1>4, <2>3 DEF TwoDoubles
  <2> QED
    BY <1>4, <2>2, <2>4
<1>5. CASE params.type # "array"
  <2>1. array = [err |-> "type", length |-> 0]
    BY <1>2, <1>3, <1>5 DEF mpack_node_array_length
  <2>2. check.err = "type" /\ ~check.valid
    BY <1>1, <2>1 DEF rpc_check_params_validity
  <2> QED
    BY <1>5, <2>2 DEF TwoDoubles
<1> QED
  BY <1>4, <1>5

\* On a tree in error no parameters are valid, and the error stays.
LEMMA ParamsOfTreeInError ==
  ASSUME NEW e, e # "ok", NEW params
  PROVE  LET check == rpc_check_params_validity(Handle(e, params),
                                               <<"double", "double">>)
         IN  ~check.valid /\ check.err = e
<1> DEFINE types == <<"double", "double">>
           array == mpack_node_array_length(Handle(e, params))
<1>1. Len(types) = 2
  OBVIOUS
<1>2. array = [err |-> e, length |-> 0]
  BY DEF mpack_node_array_length, mpack_node_flag_error, Handle
<1> QED
  BY <1>1, <1>2 DEF rpc_check_params_validity

\* The registered method on a well-formed call.
LEMMA AddAnswersCall ==
  ASSUME NEW payload, PayloadOK(payload), WellFormed(payload)
  PROVE  rpc_request_add(Handle("ok", payload.root)) =
           IF TwoDoubles(Params(payload))
           THEN <<Reply(OwnTopic(payload), "SUCCESS", EmptyText,
                        <<Params(payload).kids[1].text,
                          Params(payload).kids[2].text>>)>>
           ELSE IF Params(payload).type = "array"
                THEN <<Reply(OwnTopic(payload), "ERROR",
                             "invalid parameters.", <<>>)>>
                ELSE <<>>
<1> DEFINE root   == payload.root
           params == root.kids[3]
           map    == root.kids[1]
           id     == RequestId(payload)
           check  == rpc_check_params_validity(Handle("ok", params),
                                               <<"double", "double">>)
<1>1. root.type = "array" /\ root.len \in Nat /\ root.len >= 3
  BY DEF WellFormed, HasProperId, NamesId, PayloadOK
<1>2. mpack_node_array_at(Handle("ok", root), 2) = Handle("ok", params)
  BY <1>1, ArrayAtFound, 2 + 1 = 3
<1>3. mpack_node_array_at(Handle("ok", root), 0) = Handle("ok", map)
  BY <1>1, ArrayAtFound, 0 + 1 = 1
<1>4. /\ rpc_msg_get_request_id(Handle("ok", map))
           = [err |-> "ok", id |-> id.text, size |-> id.len]
      /\ id.len # 0
  BY ProperIdOfPayload DEF WellFormed
<1>5. After(Handle("ok", params), Handle("ok", root)) = Handle("ok", root)
  BY DEF After, Handle
<1>6. After([err |-> "ok", id |-> id.text, size |-> id.len],
            Handle("ok", params)) = Handle("ok", params)
  BY DEF After, Handle
<1>7. params.len \in Nat
  BY <1>1 DEF PayloadOK
<1>8. /\ check.valid <=> TwoDoubles(params)
      /\ check.err = "ok" <=> params.type = "array"
  BY <1>7, ParamsOfCleanTree
<1>9. After(check, Handle("ok", root)) = Handle(check.err, root)
  BY DEF After, Handle
<1>10. Handle("ok", params).data = params
  BY DEF Handle
<1>11. rpc_request_add(Handle("ok", root)) =
         IF check.valid
         THEN <<Reply(Topic(id.text, id.len), "SUCCESS", EmptyText,
                      <<params.kids[1].text, params.kids[2].text>>)>>
         ELSE rpc_send_error_reply(Handle(check.err, root),
                                   "invalid parameters.")
  <2> DEFINE req == [err |-> "ok", id |-> id.text, size |-> id.len]
  <2>1. req.size # 0 /\ req.id = id.text /\ req.size = id.len
    BY <1>4
  <2>2. rpc_msg_get_request_id(
          mpack_node_array_at(After(Handle("ok", params), Handle("ok", root)), 0))
          = req
    BY <1>3, <1>4, <1>5
  <2>3. rpc_check_params_validity(After(req, Handle("ok", params)),
                                  <<"double", "double">>) = check
    BY <1>6
  <2> HIDE DEF params, map, id, root, req, check
  <2>4. CASE check.valid
    BY <1>2, <1>10, <2>1, <2>2, <2>3, <2>4 DEF rpc_request_add
  <2>5. CASE ~check.valid
    BY <1>2, <1>9, <2>1, <2>2, <2>3, <2>5 DEF rpc_request_add
  <2> QED
    BY <2>4, <2>5
<1>12. CASE TwoDoubles(params)
  BY <1>8, <1>11, <1>12 DEF OwnTopic, Params
<1>13. CASE ~TwoDoubles(params) /\ params.type = "array"
  <2>1. rpc_send_error_reply(Handle("ok", root), "invalid parameters.")
          = <<Reply(OwnTopic(payload), "ERROR", "invalid parameters.", <<>>)>>
    BY ErrorReplyToProperId DEF WellFormed
  <2> QED
    BY <1>8, <1>11, <1>13, <2>1 DEF Params
<1>14. CASE ~TwoDoubles(params) /\ params.type # "array"
  BY <1>8, <1>11, <1>14, NoErrorReplyAfterError DEF Params
<1> QED
  BY <1>12, <1>13, <1>14

\* The registered method on a message whose id is not proper: no answer.
LEMMA AddIgnoresImproperId ==
  ASSUME NEW payload, PayloadOK(payload), Parses(payload),
         payload.root.type = "array", payload.root.len >= 3,
         payload.root.kids[1].type = "map", ~HasProperId(payload)
  PROVE  rpc_request_add(Handle("ok", payload.root)) = <<>>
<1> DEFINE root   == payload.root
           params == root.kids[3]
           map    == root.kids[1]
           req    == rpc_msg_get_request_id(Handle("ok", map))
           check  == rpc_check_params_validity(After(req, Handle("ok", params)),
                                               <<"double", "double">>)
<1>1. root.len \in Nat /\ 0 < root.len /\ 2 < root.len
  BY DEF PayloadOK
<1>2. mpack_node_array_at(Handle("ok", root), 2) = Handle("ok", params)
  BY <1>1, ArrayAtFound, 2 + 1 = 3
<1>3. mpack_node_array_at(Handle("ok", root), 0) = Handle("ok", map)
  BY <1>1, ArrayAtFound, 0 + 1 = 1
<1>4. After(Handle("ok", params), Handle("ok", root)) = Handle("ok", root)
  BY DEF After, Handle
<1>5. rpc_msg_get_request_id(
        mpack_node_array_at(After(Handle("ok", params), Handle("ok", root)), 0))
        = req
  BY <1>3, <1>4
<1>6. req.size = 0 \/ req.err # "ok"
  <2>1. map.len \in Nat /\ \A j \in 1 .. 2 * map.len : map.kids[j].len \in Nat
    BY <1>1 DEF PayloadOK
  <2>2. ~ \E i \in 1 .. map.len :
            /\ PairsWithKey(map, "request_id") = {i}
            /\ ProperString(map.kids[2 * i])
            /\ map.kids[2 * i].len > 0
    <3>1. SUFFICES ASSUME NEW i \in 1 .. map.len,
                          PairsWithKey(map, "request_id") = {i},
                          ProperString(map.kids[2 * i]),
                          map.kids[2 * i].len > 0
                   PROVE  HasProperId(payload)
      OBVIOUS
    <3>2. NamesId(payload)
      BY <1>1, <3>1 DEF NamesId, ProperString
    <3>3. RequestId(payload) = map.kids[2 * i]
      <4>1. (CHOOSE k \in PairsWithKey(map, "request_id") : TRUE) = i
        BY <3>1
      <4> QED
        BY <4>1 DEF RequestId
    <3> QED
      BY <3>1, <3>2, <3>3 DEF HasProperId
  <2> QED
    BY <2>1, <2>2, ImproperIdLeavesError
<1>7. CASE req.size = 0
  <2> HIDE DEF params, map, root, req, check
  <2>1. rpc_request_add(Handle("ok", root)) = <<>>
    BY <1>2, <1>5, <1>7 DEF rpc_request_add
  <2> QED
    BY <2>1 DEF root
<1>8. CASE req.size # 0 /\ req.err # "ok"
  <2>1. After(req, Handle("ok", params)) = Handle(req.err, params)
    BY DEF After, Handle
  <2>2. ~check.valid /\ check.err # "ok"
    <3> HIDE DEF req, params
    <3> QED
      BY <1>8, <2>1, ParamsOfTreeInError
  <2>3. After(check, Handle("ok", root)) = Handle(check.err, root)
    BY DEF After, Handle
  <2>4. rpc_request_add(Handle("ok", root))
          = rpc_send_error_reply(Handle(check.err, root), "invalid parameters.")
    <3>1. rpc_check_params_validity(After(req, Handle("ok", params)),
                                    <<"double", "double">>) = check
      OBVIOUS
    <3> HIDE DEF params, map, root, req, check
    <3> QED
      BY <1>2, <1>5, <1>8, <2>2, <2>3, <3>1 DEF rpc_request_add
  <2> HIDE DEF check, root
  <2>5. rpc_request_add(Handle("ok", root)) = <<>>
    BY <2>2, <2>4, NoErrorReplyAfterError
  <2> QED
    BY <2>5 DEF root
<1> QED
  BY <1>6, <1>7, <1>8

------------------------------------------------------------------------------
\* A message that does not parse, or does not begin with a map, is ignored.
LEMMA OtherMessagesIgnored ==
  ASSUME NEW methods, NEW payload, PayloadOK(payload),
         ~ ( /\ Parses(payload)
             /\ payload.root.type = "array"
             /\ payload.root.len >= 1
             /\ payload.root.kids[1].type = "map" )
  PROVE  rpc_msg_handler(methods, payload) = <<>>
<1> DEFINE root == mpack_tree_root(payload, NODE_POOL)
           map  == mpack_node_array_at(root, 0)
<1>1. SUFFICES root.data.type # "array" \/ map.data.type # "map"
  BY DEF rpc_msg_handler
<1>2. CASE ~Parses(payload)
  BY <1>2 DEF mpack_tree_root, Parses, Handle, NilNode, Node
<1>3. CASE Parses(payload)
  <2>1. root = Handle("ok", payload.root)
    BY <1>3 DEF mpack_tree_root, Parses
  <2>2. root.data = payload.root
    BY <2>1 DEF Handle
  <2>3. CASE payload.root.type # "array"
    BY <2>2, <2>3
  <2>4. CASE payload.root.type = "array" /\ ~(payload.root.len >= 1)
    <3>1. ~(0 < payload.root.len)
      BY <2>4 DEF PayloadOK
    <3>2. PICK e : map = Handle(e, NilNode)
      BY <2>1, <3>1, ArrayAtMissing
    <3> QED
      BY <3>2 DEF Handle, NilNode, Node
  <2>5. CASE /\ payload.root.type = "array"
             /\ payload.root.len >= 1
             /\ payload.root.kids[1].type # "map"
    <3>1. 0 < payload.root.len
      BY <2>5 DEF PayloadOK
    <3>2. map = Handle("ok", payload.root.kids[1])
      BY <2>1, <2>5, <3>1, ArrayAtFound, 0 + 1 = 1
    <3> QED
      BY <2>5, <3>2 DEF Handle
  <2> QED
    BY <1>3, <2>3, <2>4, <2>5
<1> QED
  BY <1>2, <1>3

\* A message that begins with a map is dispatched when its name can be copied
\* and a third element is there; otherwise the tree is in error: no answer.
LEMMA MapMessagesDispatched ==
  ASSUME NEW methods, NEW payload, PayloadOK(payload), Parses(payload),
         payload.root.type = "array", payload.root.len >= 1,
         payload.root.kids[1].type = "map"
  PROVE  rpc_msg_handler(methods, payload) =
           IF payload.root.len >= 3 /\ ProperString(payload.root.kids[2])
           THEN IF payload.root.kids[2].text \in methods
                THEN rpc_request_add(Handle("ok", payload.root))
                ELSE rpc_send_error_reply(Handle("ok", payload.root),
                                          "unsupported function")
           ELSE <<>>
<1> DEFINE node  == payload.root
           root  == mpack_tree_root(payload, NODE_POOL)
           map   == mpack_node_array_at(root, 0)
           func  == mpack_node_array_at(After(map, root), 1)
           name  == mpack_node_copy_cstr(func, CSTR_SIZE)
           paras == mpack_node_array_at(After(name, root), 2)
<1>1. root = Handle("ok", node)
  BY DEF mpack_tree_root, Parses
<1>2. node.len \in Nat /\ 0 < node.len
  BY DEF PayloadOK
<1>3. map = Handle("ok", node.kids[1])
  BY <1>1, <1>2, ArrayAtFound, 0 + 1 = 1
<1>4. /\ root.data = node
      /\ root.data.type = "array"
      /\ map.data.type = "map"
      /\ After(map, root) = Handle("ok", node)
  BY <1>1, <1>3 DEF Handle, After
<1>5. \A e : After([err |-> e, cstr |-> EmptyText], root) = Handle(e, node)
  BY <1>1 DEF After, Handle
<1>6. CASE node.len >= 3 /\ ProperString(node.kids[2])
  <2>1. func = Handle("ok", node.kids[2])
    BY <1>2, <1>4, <1>6, ArrayAtFound, 1 < node.len, 1 + 1 = 2
  <2>2. name = [err |-> "ok", cstr |-> node.kids[2].text]
    <3>1. node.kids[2].len \in Nat
      BY <1>2, <1>6 DEF PayloadOK
    <3> QED
      BY <1>6, <2>1, <3>1, CopyProper
  <2>3. After(name, root) = Handle("ok", node)
    BY <1>1, <2>2 DEF After, Handle
  <2>4. paras = Handle("ok", node.kids[3])
    BY <1>2, <1>6, <2>3, ArrayAtFound, 2 < node.len, 2 + 1 = 3
  <2>5. After(paras, root) = Handle("ok", node)
    BY <1>4, <2>4 DEF After, Handle
  <2>6. name.cstr = node.kids[2].text
    BY <2>2
  <2> QED
    BY <1>4, <1>6, <2>5, <2>6 DEF rpc_msg_handler
<1>7. CASE ~(node.len >= 3 /\ ProperString(node.kids[2]))
  <2>1. \E e : e # "ok" /\ After(paras, root) = Handle(e, node)
    <3>1. CASE ~(1 < node.len)
      <4>1. PICK e : e # "ok" /\ func = Handle(e, NilNode)
        BY <1>4, <3>1, ArrayAtMissing
      <4>2. name = [err |-> e, cstr |-> EmptyText]
        BY <4>1, CopySticks
      <4>3. paras = Handle(e, NilNode)
        BY <1>5, <4>1, <4>2, ArrayAtSticks
      <4> QED
        BY <1>4, <4>1, <4>3 DEF After, Handle
    <3>2. CASE 1 < node.len /\ ~ProperString(node.kids[2])
      <4>1. func = Handle("ok", node.kids[2])
        BY <1>4, <3>2, ArrayAtFound, 1 + 1 = 2
      <4>2. node.kids[2].len \in Nat
        BY <1>2, <3>2 DEF PayloadOK
      <4>3. PICK e : e # "ok" /\ name = [err |-> e, cstr |-> EmptyText]
        BY <3>2, <4>1, <4>2, CopyImproper
      <4>4. paras = Handle(e, NilNode)
        BY <1>5, <4>3, ArrayAtSticks
      <4> QED
        BY <1>4, <4>3, <4>4 DEF After, Handle
    <3>3. CASE 1 < node.len /\ ProperString(node.kids[2]) /\ ~(node.len >= 3)
      <4>1. func = Handle("ok", node.kids[2])
        BY <1>4, <3>3, ArrayAtFound, 1 + 1 = 2
      <4>2. node.kids[2].len \in Nat
        BY <1>2, <3>3 DEF PayloadOK
      <4>3. name = [err |-> "ok", cstr |-> node.kids[2].text]
        BY <3>3, <4>1, <4>2, CopyProper
      <4>4. After(name, root) = Handle("ok", node)
        BY <1>1, <4>3 DEF After, Handle
      <4>5. PICK e : e # "ok" /\ paras = Handle(e, NilNode)
        BY <1>2, <3>3, <4>4, ArrayAtMissing, ~(2 < node.len)
      <4>6. After(paras, root) = Handle(e, node)
        BY <1>1, <4>5 DEF After, Handle
      <4> QED
        BY <4>5, <4>6
    <3> QED
      BY <1>7, <3>1, <3>2, <3>3
  <2>2. PICK e : e # "ok" /\ After(paras, root) = Handle(e, node)
    BY <2>1
  <2>3. /\ rpc_request_add(Handle(e, node)) = <<>>
        /\ rpc_send_error_reply(Handle(e, node), "unsupported function") = <<>>
    BY <2>2, NoCallAfterError, NoErrorReplyAfterError
  <2> QED
    BY <1>4, <1>7, <2>2, <2>3 DEF rpc_msg_handler
<1> QED
  BY <1>6, <1>7

------------------------------------------------------------------------------
(* The handler keeps the contract: for every payload and every registry it
   gives the one answer of a well-formed message, and for any other message
   none, or a complaint about the function.                                  *)
THEOREM HandlerKeepsContract ==
  ASSUME NEW methods, NEW payload, PayloadOK(payload)
  PROVE  Allowed(methods, payload, rpc_msg_handler(methods, payload))
<1> DEFINE root   == payload.root
           answer == rpc_msg_handler(methods, payload)
           IsRequest == /\ Parses(payload)
                        /\ root.type = "array"
                        /\ root.len >= 1
                        /\ root.kids[1].type = "map"
<1>1. CASE ~IsRequest
  <2>1. answer = <<>>
    BY <1>1, OtherMessagesIgnored
  <2>2. ~WellFormed(payload)
    BY <1>1 DEF WellFormed, HasProperId, NamesId
  <2> QED
    BY <2>1, <2>2 DEF Allowed
<1>2. CASE IsRequest /\ ~(root.len >= 3 /\ ProperString(root.kids[2]))
  <2>1. answer = <<>>
    BY <1>2, MapMessagesDispatched
  <2>2. ~WellFormed(payload)
    BY <1>2 DEF WellFormed
  <2> QED
    BY <2>1, <2>2 DEF Allowed
<1>3. CASE WellFormed(payload)
  <2>1. IsRequest /\ root.len >= 3 /\ ProperString(root.kids[2])
    BY <1>3 DEF WellFormed, HasProperId, NamesId
  <2>2. CASE Function(payload) \in methods
    <3>1. answer = rpc_request_add(Handle("ok", root))
      BY <2>1, <2>2, MapMessagesDispatched DEF Function
    <3>2. TwoDoubles(Params(payload)) => Params(payload).type = "array"
      BY DEF TwoDoubles
    <3>3. answer = AnswerTo(methods, payload)
      <4>1. CASE TwoDoubles(Params(payload))
        BY <1>3, <2>2, <3>1, <3>2, <4>1, AddAnswersCall DEF AnswerTo
      <4>2. CASE ~TwoDoubles(Params(payload)) /\ Params(payload).type = "array"
        BY <1>3, <2>2, <3>1, <4>2, AddAnswersCall DEF AnswerTo
      <4>3. CASE ~TwoDoubles(Params(payload)) /\ Params(payload).type # "array"
        BY <1>3, <2>2, <3>1, <4>3, AddAnswersCall DEF AnswerTo
      <4> QED
        BY <4>1, <4>2, <4>3
    <3> QED
      BY <1>3, <3>3 DEF Allowed
  <2>3. CASE Function(payload) \notin methods
    <3>1. answer = rpc_send_error_reply(Handle("ok", root),
                                        "unsupported function")
      BY <2>1, <2>3, MapMessagesDispatched DEF Function
    <3>2. answer = AnswerTo(methods, payload)
      BY <1>3, <2>3, <3>1, ErrorReplyToProperId DEF WellFormed, AnswerTo
    <3> QED
      BY <1>3, <3>2 DEF Allowed
  <2> QED
    BY <2>2, <2>3
<1>4. CASE /\ IsRequest /\ root.len >= 3 /\ ProperString(root.kids[2])
           /\ ~HasProperId(payload)
  <2>1. ~WellFormed(payload)
    BY <1>4 DEF WellFormed
  <2>2. CASE root.kids[2].text \in methods
    <3>1. answer = <<>>
      BY <1>4, <2>2, MapMessagesDispatched, AddIgnoresImproperId
    <3> QED
      BY <2>1, <3>1 DEF Allowed
  <2>3. CASE root.kids[2].text \notin methods
    <3>1. answer = rpc_send_error_reply(Handle("ok", root),
                                        "unsupported function")
      BY <1>4, <2>3, MapMessagesDispatched
    <3>2. \/ answer = <<>>
          \/ \E topic : answer = <<Reply(topic, "ERROR",
                                        "unsupported function", <<>>)>>
      BY <3>1 DEF rpc_send_error_reply
    <3>3. ASSUME NEW topic,
                 answer = <<Reply(topic, "ERROR", "unsupported function", <<>>)>>
          PROVE  Len(answer) = 1 /\ answer[1].status = "ERROR"
                 /\ answer[1].cause = "unsupported function"
      <4> DEFINE reply == Reply(topic, "ERROR", "unsupported function", <<>>)
      <4>1. reply.status = "ERROR" /\ reply.cause = "unsupported function"
        BY DEF Reply
      <4> HIDE DEF reply
      <4>2. answer = <<reply>>
        BY <3>3 DEF reply
      <4>3. Len(<<reply>>) = 1 /\ <<reply>>[1] = reply
        OBVIOUS
      <4> QED
        BY <4>1, <4>2, <4>3
    <3> QED
      BY <2>1, <3>2, <3>3 DEF Allowed
  <2> QED
    BY <2>2, <2>3
<1> QED
  BY <1>1, <1>2, <1>3, <1>4 DEF WellFormed

(* A reply to a message that names a proper request id goes to that id, well
   formed or not.                                                            *)
THEOREM HandlerUsesOwnTopic ==
  ASSUME NEW methods, NEW payload, PayloadOK(payload), HasProperId(payload),
         NEW i \in DOMAIN rpc_msg_handler(methods, payload)
  PROVE  rpc_msg_handler(methods, payload)[i].topic = OwnTopic(payload)
<1> DEFINE answer == rpc_msg_handler(methods, payload)
<1>1. CASE ~WellFormed(payload)
  <2>1. answer = <<>>
    <3>1. /\ Parses(payload)
          /\ payload.root.type = "array"
          /\ payload.root.len >= 1
          /\ payload.root.kids[1].type = "map"
      BY DEF HasProperId, NamesId
    <3> QED
      BY <1>1, <3>1, MapMessagesDispatched DEF WellFormed
  <2> QED
    BY <2>1
<1>2. CASE WellFormed(payload)
  <2>1. answer = AnswerTo(methods, payload)
    BY <1>2, HandlerKeepsContract DEF Allowed
  <2>2. \/ answer = <<>>
        \/ \E status, cause, args :
             answer = <<Reply(OwnTopic(payload), status, cause, args)>>
    BY <2>1 DEF AnswerTo
  <2>3. ASSUME NEW status, NEW cause, NEW args,
               answer = <<Reply(OwnTopic(payload), status, cause, args)>>
        PROVE  answer[i].topic = OwnTopic(payload)
    BY <2>3 DEF Reply
  <2> QED
    BY <2>2, <2>3
<1> QED
  BY <1>1, <1>2

\* The handler answers at most once.
LEMMA HandlerAnswersAtMostOnce ==
  ASSUME NEW methods, NEW payload
  PROVE  \/ rpc_msg_handler(methods, payload) = <<>>
         \/ \E reply : rpc_msg_handler(methods, payload) = <<reply>>
<1>1. \A root, cause : \/ rpc_send_error_reply(root, cause) = <<>>
                      \/ \E reply : rpc_send_error_reply(root, cause) = <<reply>>
  BY DEF rpc_send_error_reply
<1>2. \A root : \/ rpc_request_add(root) = <<>>
                \/ \E reply : rpc_request_add(root) = <<reply>>
  BY <1>1 DEF rpc_request_add
<1> QED
  BY <1>1, <1>2 DEF rpc_msg_handler

------------------------------------------------------------------------------
(* The server and the frames of its socket.                                 *)

\* What is left of a sequence when its first n elements are gone.
LEMMA DropProperties ==
  ASSUME NEW S, NEW s \in Seq(S), NEW n \in 0 .. Len(s)
  PROVE  /\ Drop(s, n) \in Seq(S)
         /\ Len(Drop(s, n)) = Len(s) - n
         /\ \A i \in 1 .. Len(s) - n : Drop(s, n)[i] = s[i + n]
<1>1. \A i \in n + 1 .. Len(s) : s[i] \in S
  BY ElementOfSeq
<1>2. n + 1 \in Int /\ Len(s) \in Int
  BY LenProperties
<1> QED
  BY <1>1, <1>2, SubSeqProperties DEF Drop

\* The frames of a message.
LEMMA FramesProperties ==
  ASSUME NEW k \in Nat, NEW m \in Messages
  PROVE  /\ Frames(k, m) \in Seq(Frame)
         /\ Len(Frames(k, m)) = m.parts
         /\ \A n \in 1 .. m.parts :
              Frames(k, m)[n] = [msg |-> k, pos |-> n, more |-> n < m.parts,
                                 body |-> m.payload]
<1>1. m.parts \in 1 .. MaxFrames /\ m.payload \in Payloads
  BY DEF Messages
<1>2. \A n \in 1 .. m.parts :
        [msg |-> k, pos |-> n, more |-> n < m.parts, body |-> m.payload] \in Frame
  BY <1>1, BoundsAssumption DEF Frame
<1>3. m.parts \in Nat
  BY <1>1, BoundsAssumption
<1> QED
  BY <1>2, <1>3, IsASeq DEF Frames

\* What PublishReplies appends is empty or one reply of the handled message.
LEMMA PublishProperties ==
  ASSUME PublishReplies, registry \subseteq Methods,
         published \in Seq([msg : Nat, reply : HandlerReplies]),
         BodyFrame \in Frame
  PROVE  \/ /\ rpc_msg_handler(registry, BodyFrame.body) = <<>>
            /\ published' = published
         \/ \E reply \in HandlerReplies :
              /\ rpc_msg_handler(registry, BodyFrame.body) = <<reply>>
              /\ published' = Append(published, [msg |-> BodyFrame.msg,
                                                 reply |-> reply])
              /\ \E i \in DOMAIN rpc_msg_handler(registry, BodyFrame.body) :
                   reply = rpc_msg_handler(registry, BodyFrame.body)[i]
<1> DEFINE Published == [msg : Nat, reply : HandlerReplies]
           answer == rpc_msg_handler(registry, BodyFrame.body)
<1>1. PICK call \in HandlerTable :
        /\ call.methods = registry
        /\ call.payload = BodyFrame.body
        /\ published' = published \o
             [i \in DOMAIN call.replies |->
                [msg |-> BodyFrame.msg, reply |-> call.replies[i]]]
  BY DEF PublishReplies
<1>2. call.replies = answer
  BY <1>1 DEF HandlerTable
<1>3. CASE answer = <<>>
  <2>1. [i \in DOMAIN call.replies |->
           [msg |-> BodyFrame.msg, reply |-> call.replies[i]]] = <<>>
    BY <1>2, <1>3
  <2> QED
    BY <1>1, <1>3, <2>1, ConcatEmptySeq
<1>4. CASE \E r : answer = <<r>>
  <2>1. PICK r : answer = <<r>>
    BY <1>4
  <2>2. r \in HandlerReplies
    <3>1. 1 \in DOMAIN call.replies /\ call.replies[1] = r
      BY <1>2, <2>1
    <3> QED
      BY <1>1, <3>1 DEF HandlerReplies
  <2> DEFINE new == [msg |-> BodyFrame.msg, reply |-> r]
  <2>3. [i \in DOMAIN call.replies |->
           [msg |-> BodyFrame.msg, reply |-> call.replies[i]]] = <<new>>
    BY <1>2, <2>1
  <2>4. new \in Published
    BY <2>2 DEF Frame
  <2>5. published' = Append(published, new)
    <3> HIDE DEF new
    <3> QED
      BY <1>1, <2>3, <2>4, AppendIsConcat
  <2>6. 1 \in DOMAIN answer /\ answer[1] = r
    BY <2>1
  <2> QED
    BY <2>1, <2>2, <2>5, <2>6
<1> QED
  BY <1>3, <1>4, HandlerAnswersAtMostOnce

------------------------------------------------------------------------------
\* What a delivery leaves in the socket: the frames there were, then the new.
LEMMA DeliverProperties ==
  ASSUME TypeOK, NEW m \in Messages, Deliver(m)
  PROVE  LET k == Len(received) + 1
         IN  /\ k \in Nat
             /\ received' \in Seq(Messages)
             /\ DOMAIN received = 1 .. k - 1
             /\ DOMAIN received' = 1 .. k
             /\ \A j \in DOMAIN received : received'[j] = received[j]
             /\ received'[k] = m
             /\ inbox' \in Seq(Frame)
             /\ m.parts \in 1 .. MaxFrames
             /\ Len(inbox') = Len(inbox) + m.parts
             /\ \A i \in 1 .. Len(inbox) : inbox'[i] = inbox[i]
             /\ \A n \in 1 .. m.parts :
                  /\ inbox'[Len(inbox) + n].msg = k
                  /\ inbox'[Len(inbox) + n].pos = n
                  /\ inbox'[Len(inbox) + n].more = (n < m.parts)
                  /\ inbox'[Len(inbox) + n].body = m.payload
<1> DEFINE k == Len(received) + 1
           frames == Frames(k, m)
<1>1. received \in Seq(Messages) /\ inbox \in Seq(Frame)
  BY DEF TypeOK
<1>2. Len(received) \in Nat /\ Len(inbox) \in Nat /\ k \in Nat
  BY <1>1, LenProperties
<1>3. m.parts \in 1 .. MaxFrames /\ m.parts \in Nat
  BY BoundsAssumption DEF Messages
<1>4. /\ frames \in Seq(Frame)
      /\ Len(frames) = m.parts
      /\ \A n \in 1 .. m.parts :
           frames[n] = [msg |-> k, pos |-> n, more |-> n < m.parts,
                        body |-> m.payload]
  BY <1>2, FramesProperties
<1>5. received' = Append(received, m) /\ inbox' = inbox \o frames
  BY DEF Deliver
<1>6. /\ received' \in Seq(Messages)
      /\ DOMAIN received = 1 .. k - 1
      /\ DOMAIN received' = 1 .. k
      /\ \A j \in DOMAIN received : received'[j] = received[j]
      /\ received'[k] = m
  <2>1. /\ received' \in Seq(Messages)
        /\ Len(received') = k
        /\ \A j \in 1 .. Len(received) : received'[j] = received[j]
        /\ received'[k] = m
    BY <1>1, <1>5, AppendProperties
  <2> QED
    BY <1>1, <1>2, <2>1, LenProperties
<1>7. /\ inbox' \in Seq(Frame)
      /\ Len(inbox') = Len(inbox) + m.parts
      /\ \A i \in 1 .. Len(inbox) : inbox'[i] = inbox[i]
      /\ \A n \in 1 .. m.parts : inbox'[Len(inbox) + n] = frames[n]
  <2> HIDE DEF frames
  <2>1. /\ inbox' \in Seq(Frame)
        /\ Len(inbox') = Len(inbox) + Len(frames)
        /\ \A i \in 1 .. Len(inbox) + Len(frames) : inbox'[i] =
             IF i <= Len(inbox) THEN inbox[i] ELSE frames[i - Len(inbox)]
    BY <1>1, <1>4, <1>5, ConcatProperties
  <2>2. ASSUME NEW n \in 1 .. m.parts
        PROVE  inbox'[Len(inbox) + n] = frames[n]
    <3>1. /\ Len(inbox) + n \in 1 .. Len(inbox) + Len(frames)
          /\ ~(Len(inbox) + n <= Len(inbox))
          /\ Len(inbox) + n - Len(inbox) = n
      BY <1>2, <1>3, <1>4
    <3> QED
      BY <2>1, <3>1
  <2>3. ASSUME NEW i \in 1 .. Len(inbox)
        PROVE  inbox'[i] = inbox[i]
    <3>1. i \in 1 .. Len(inbox) + Len(frames) /\ i <= Len(inbox)
      BY <1>2, <1>3, <1>4
    <3> QED
      BY <2>1, <3>1
  <2> QED
    BY <1>4, <2>1, <2>2, <2>3
<1>8. ASSUME NEW n \in 1 .. m.parts
      PROVE  /\ inbox'[Len(inbox) + n].msg = k
             /\ inbox'[Len(inbox) + n].pos = n
             /\ inbox'[Len(inbox) + n].more = (n < m.parts)
             /\ inbox'[Len(inbox) + n].body = m.payload
  <2> DEFINE frame == [msg |-> k, pos |-> n, more |-> n < m.parts,
                       body |-> m.payload]
  <2>1. inbox'[Len(inbox) + n] = frame
    <3> HIDE DEF frames, k
    <3> QED
      BY <1>4, <1>7
  <2>2. /\ frame.msg = k /\ frame.pos = n
        /\ frame.more = (n < m.parts) /\ frame.body = m.payload
    OBVIOUS
  <2> HIDE DEF frame
  <2> QED
    BY <2>1, <2>2
<1> HIDE DEF frames
<1> QED
  BY <1>2, <1>3, <1>6, <1>7, <1>8

\* What a step of rpc_handle_req takes from the socket: up to two frames, and
\* all it publishes is one reply, to the second of the two.
LEMMA HandleProperties ==
  ASSUME TypeOK, rpc_handle_req
  PROVE  /\ received' = received /\ registry' = registry
         /\ \/ RecvTopicFails /\ inbox' = inbox /\ published' = published
            \/ /\ SkipSinglePart \/ RecvBodyFails
               /\ Len(inbox) >= 1
               /\ inbox' = Drop(inbox, 1)
               /\ published' = published
            \/ /\ HandleRequest
               /\ Len(inbox) >= 2
               /\ inbox' = Drop(inbox, 2)
               /\ \/ published' = published
                  \/ \E reply \in HandlerReplies :
                       /\ published' = Append(published, [msg |-> inbox[2].msg,
                                                          reply |-> reply])
                       /\ \E i \in DOMAIN rpc_msg_handler(registry, inbox[2].body) :
                            reply = rpc_msg_handler(registry, inbox[2].body)[i]
<1>1. inbox \in Seq(Frame) /\ Len(inbox) \in Nat
  BY LenProperties DEF TypeOK
<1>2. CASE RecvTopicFails
  BY <1>2 DEF RecvTopicFails
<1>3. CASE SkipSinglePart \/ RecvBodyFails
  <2>1. Len(inbox) >= 1
    BY <1>1, <1>3 DEF SkipSinglePart, RecvBodyFails, Readable
  <2> QED
    BY <1>3, <2>1 DEF SkipSinglePart, RecvBodyFails
<1>4. CASE HandleRequest
  <2>1. /\ Len(inbox) >= 2
        /\ inbox' = Drop(inbox, 2)
        /\ received' = received /\ registry' = registry
        /\ PublishReplies
    BY <1>4 DEF HandleRequest
  <2>2. inbox[2] \in Frame
    BY <1>1, <2>1, ElementOfSeq
  <2>3. /\ registry \subseteq Methods
        /\ published \in Seq([msg : Nat, reply : HandlerReplies])
    BY DEF TypeOK
  <2>4. \/ published' = published
        \/ \E reply \in HandlerReplies :
              /\ published' = Append(published, [msg |-> inbox[2].msg,
                                                 reply |-> reply])
              /\ \E i \in DOMAIN rpc_msg_handler(registry, inbox[2].body) :
                   reply = rpc_msg_handler(registry, inbox[2].body)[i]
    BY <2>1, <2>2, <2>3, PublishProperties DEF BodyFrame
  <2> QED
    BY <1>4, <2>1, <2>4
<1> QED
  BY <1>2, <1>3, <1>4 DEF rpc_handle_req

------------------------------------------------------------------------------
(* The inductive invariants.  What the socket holds is a run of whole messages
   of which a first part may be gone.                                        *)

\* After a frame that goes on comes the next of its message, after the last
\* one the first of another; the last frame in the socket is a last one.
FramesChained ==
  /\ \A i \in 1 .. Len(inbox) - 1 :
       inbox[i + 1].pos = IF inbox[i].more THEN inbox[i].pos + 1 ELSE 1
  /\ \A i \in 1 .. Len(inbox) :
       /\ inbox[i].more => inbox[i].pos < MaxFrames
       /\ i = Len(inbox) => ~inbox[i].more

\* The frame to be taken next is no middle frame of its message.
HeadIsTopic == inbox # <<>> /\ inbox[1].more => inbox[1].pos = 1

\* Frames are in the order of their messages, and of their positions in them.
FramesOrdered ==
  \A i, j \in 1 .. Len(inbox) : i < j =>
    \/ inbox[i].msg < inbox[j].msg
    \/ inbox[i].msg = inbox[j].msg /\ inbox[i].pos < inbox[j].pos

\* What was answered is behind: of it, only frames after the second are left.
AnsweredIsBehind ==
  \A p \in 1 .. Len(published), i \in 1 .. Len(inbox) :
    \/ published[p].msg < inbox[i].msg
    \/ published[p].msg = inbox[i].msg /\ inbox[i].pos > 2

\* A frame carries the payload of its message.
FramesCarryPayload ==
  \A i \in 1 .. Len(inbox) : inbox[i].body = received[inbox[i].msg].payload

\* A frame goes on only before the last of its message.
FramesOfMessages ==
  \A i \in 1 .. Len(inbox) :
    inbox[i].more => inbox[i].pos < received[inbox[i].msg].parts

(* rpc_handle_req takes at most two frames and skips a third one as a message
   of a single part; after a failed receive it does so already with the second.
   Beyond this it takes payloads for topics.                                 *)
FewFrames ==
  MaxFrames <= 2 \/ (MaxFrames <= 3 /\ (FailFrames <= 2 \/ MaxRecvFailures = 0))

InvSync  == FramesChained /\ HeadIsTopic /\ FramesOfMessages
InvOrder == FramesOrdered /\ AnsweredIsBehind /\ RepliesInOrder
InvTopic == FramesCarryPayload /\ ReplyOnOwnTopic

------------------------------------------------------------------------------
LEMMA InitType == Init => TypeOK
<1> SUFFICES ASSUME Init PROVE TypeOK
  OBVIOUS
<1>1. received = <<>> /\ inbox = <<>> /\ published = <<>>
  BY DEF Init
<1>2. received \in Seq(Messages) /\ inbox \in Seq(Frame)
      /\ published \in Seq([msg : Nat, reply : HandlerReplies])
  BY <1>1
<1>3. DOMAIN inbox = {} /\ DOMAIN published = {}
  BY <1>1
<1>4. recvFailures \in 0 .. MaxRecvFailures
  BY BoundsAssumption DEF Init
<1> QED
  BY <1>2, <1>3, <1>4 DEF Init, TypeOK

LEMMA NextType == TypeOK /\ [Next]_vars => TypeOK'
<1> SUFFICES ASSUME TypeOK, [Next]_vars PROVE TypeOK'
  OBVIOUS
<1> DEFINE Published == [msg : Nat, reply : HandlerReplies]
<1>1. /\ received \in Seq(Messages)
      /\ inbox \in Seq(Frame)
      /\ published \in Seq(Published)
      /\ \A i \in 1 .. Len(inbox) : inbox[i].msg \in DOMAIN received
      /\ \A p \in 1 .. Len(published) : published[p].msg \in DOMAIN received
  BY LenProperties DEF TypeOK
<1>2. Len(inbox) \in Nat /\ Len(published) \in Nat
  BY <1>1, LenProperties
<1>3. CASE \E method \in Methods : rpc_register_method(method)
  BY <1>3 DEF rpc_register_method, TypeOK
<1>4. CASE rpc_server_start
  BY <1>4 DEF rpc_server_start, TypeOK
<1>5. CASE \E m \in Messages : Deliver(m)
  <2>1. PICK m \in Messages : Deliver(m)
    BY <1>5
  <2> DEFINE k == Len(received) + 1
  <2>2. /\ k \in Nat
        /\ received' \in Seq(Messages)
        /\ DOMAIN received = 1 .. k - 1
        /\ DOMAIN received' = 1 .. k
        /\ inbox' \in Seq(Frame)
        /\ m.parts \in 1 .. MaxFrames
        /\ Len(inbox') = Len(inbox) + m.parts
        /\ \A i \in 1 .. Len(inbox) : inbox'[i] = inbox[i]
        /\ \A n \in 1 .. m.parts : inbox'[Len(inbox) + n].msg = k
    BY <2>1, DeliverProperties
  <2>3. k \in DOMAIN received' /\ DOMAIN received \subseteq DOMAIN received'
    BY <1>1, <2>2, LenProperties
  <2> HIDE DEF k
  <2>4. ASSUME NEW i \in 1 .. Len(inbox')
        PROVE  inbox'[i].msg \in DOMAIN received'
    <3>1. CASE i \in 1 .. Len(inbox)
      BY <1>1, <2>2, <2>3, <3>1
    <3>2. CASE i \notin 1 .. Len(inbox)
      <4>1. i - Len(inbox) \in 1 .. m.parts /\ Len(inbox) + (i - Len(inbox)) = i
        BY <1>2, <2>2, <3>2, BoundsAssumption
      <4> QED
        BY <2>2, <2>3, <4>1
    <3> QED
      BY <3>1, <3>2
  <2>5. \A i \in DOMAIN inbox' : inbox'[i].msg \in DOMAIN received'
    BY <2>2, <2>4, LenProperties
  <2>6. UNCHANGED <<started, registry, published, recvFailures>>
    BY <2>1 DEF Deliver
  <2>7. \A p \in DOMAIN published' : published'[p].msg \in DOMAIN received'
    BY <2>3, <2>6 DEF TypeOK
  <2> QED
    BY <2>2, <2>5, <2>6, <2>7 DEF TypeOK
<1>6. CASE rpc_handle_req
  <2>1. /\ started' = started /\ registry' = registry /\ received' = received
        /\ recvFailures' \in 0 .. MaxRecvFailures
    BY <1>6, BoundsAssumption DEF TypeOK, rpc_handle_req, RecvTopicFails,
       SkipSinglePart, RecvBodyFails, HandleRequest
  <2>2. \E n \in 0 .. Len(inbox) : inbox' = Drop(inbox, n) \/ inbox' = inbox
    BY <1>2, <1>6, HandleProperties
  <2>3. /\ inbox' \in Seq(Frame)
        /\ \A i \in 1 .. Len(inbox') : inbox'[i].msg \in DOMAIN received
    <3>1. PICK n \in 0 .. Len(inbox) : inbox' = Drop(inbox, n) \/ inbox' = inbox
      BY <2>2
    <3>2. CASE inbox' = Drop(inbox, n)
      <4>1. /\ inbox' \in Seq(Frame)
            /\ Len(inbox') = Len(inbox) - n
            /\ \A i \in 1 .. Len(inbox) - n : inbox'[i] = inbox[i + n]
        BY <1>1, <3>2, DropProperties
      <4>2. \A i \in 1 .. Len(inbox) - n : i + n \in 1 .. Len(inbox)
        BY <1>2
      <4> QED
        BY <1>1, <4>1, <4>2
    <3> QED
      BY <1>1, <3>1, <3>2
  <2>4. /\ published' \in Seq(Published)
        /\ \A p \in 1 .. Len(published') : published'[p].msg \in DOMAIN received
    <3>1. CASE published' = published
      BY <1>1, <3>1
    <3>2. CASE published' # published
      <4>1. PICK reply \in HandlerReplies :
              /\ Len(inbox) >= 2
              /\ published' = Append(published, [msg |-> inbox[2].msg,
                                                 reply |-> reply])
        BY <1>6, <3>2, HandleProperties
      <4>2. inbox[2].msg \in DOMAIN received /\ inbox[2].msg \in Nat
        <5>1. 2 \in 1 .. Len(inbox)
          BY <1>2, <4>1
        <5>2. inbox[2] \in Frame
          BY <1>1, <5>1, ElementOfSeq
        <5> QED
          BY <1>1, <5>1, <5>2 DEF Frame
      <4> DEFINE new == [msg |-> inbox[2].msg, reply |-> reply]
      <4>3. new \in Published /\ new.msg \in DOMAIN received
        BY <4>2
      <4>4. published' = Append(published, new)
        BY <4>1
      <4> HIDE DEF new
      <4>5. /\ published' \in Seq(Published)
            /\ Len(published') = Len(published) + 1
            /\ \A p \in 1 .. Len(published) : published'[p] = published[p]
            /\ published'[Len(published) + 1] = new
        BY <1>1, <4>3, <4>4, AppendProperties
      <4>6. \A p \in 1 .. Len(published') :
              p \in 1 .. Len(published) \/ p = Len(published) + 1
        BY <1>2, <4>5
      <4> QED
        BY <1>1, <4>3, <4>5, <4>6
    <3> QED
      BY <3>1, <3>2
  <2>5. /\ \A i \in DOMAIN inbox' : inbox'[i].msg \in DOMAIN received'
        /\ \A p \in DOMAIN published' : published'[p].msg \in DOMAIN received'
    BY <2>1, <2>3, <2>4, LenProperties
  <2> QED
    BY <2>1, <2>3, <2>4, <2>5 DEF TypeOK
<1>7. CASE UNCHANGED vars
  BY <1>7 DEF vars, TypeOK
<1> QED
  BY <1>3, <1>4, <1>5, <1>6, <1>7 DEF Next

(* Type correctness: in particular every frame and every reply belongs to a
   message that was received, and replies are replies of the handler.        *)
THEOREM TypeCorrect == Spec => []TypeOK
<1> QED
  BY InitType, NextType, PTL DEF Spec

------------------------------------------------------------------------------
\* Frames that are taken leave a chain.
LEMMA DropChained ==
  ASSUME TypeOK, FramesChained, NEW n \in 0 .. Len(inbox),
         inbox' = Drop(inbox, n)
  PROVE  FramesChained'
<1>1. inbox \in Seq(Frame) /\ Len(inbox) \in Nat
  BY LenProperties DEF TypeOK
<1>2. /\ Len(inbox') = Len(inbox) - n
      /\ \A i \in 1 .. Len(inbox) - n : inbox'[i] = inbox[i + n]
  BY <1>1, DropProperties
<1>3. ASSUME NEW i \in 1 .. Len(inbox') - 1
      PROVE  inbox'[i + 1].pos = IF inbox'[i].more THEN inbox'[i].pos + 1 ELSE 1
  <2>1. /\ i + n \in 1 .. Len(inbox) - 1
        /\ i \in 1 .. Len(inbox) - n
        /\ i + 1 \in 1 .. Len(inbox) - n
        /\ (i + 1) + n = (i + n) + 1
    BY <1>1, <1>2
  <2>2. inbox'[i] = inbox[i + n] /\ inbox'[i + 1] = inbox[(i + n) + 1]
    BY <1>2, <2>1
  <2> QED
    BY <2>1, <2>2 DEF FramesChained
<1>4. ASSUME NEW i \in 1 .. Len(inbox')
      PROVE  /\ inbox'[i].more => inbox'[i].pos < MaxFrames
             /\ i = Len(inbox') => ~inbox'[i].more
  <2>1. /\ i + n \in 1 .. Len(inbox)
        /\ i \in 1 .. Len(inbox) - n
        /\ i = Len(inbox') => i + n = Len(inbox)
    BY <1>1, <1>2
  <2>2. inbox'[i] = inbox[i + n]
    BY <1>2, <2>1
  <2> QED
    BY <2>1, <2>2 DEF FramesChained
<1> QED
  BY <1>3, <1>4 DEF FramesChained

\* So does a delivery, and a waiting head stays the head.
LEMMA DeliverChained ==
  ASSUME TypeOK, InvSync, NEW m \in Messages, Deliver(m)
  PROVE  FramesChained' /\ HeadIsTopic'
<1> DEFINE L == Len(inbox)
<1>1. inbox \in Seq(Frame) /\ L \in Nat
  BY LenProperties DEF TypeOK
<1>2. /\ m.parts \in 1 .. MaxFrames
      /\ inbox' \in Seq(Frame)
      /\ Len(inbox') = L + m.parts
      /\ \A i \in 1 .. L : inbox'[i] = inbox[i]
      /\ \A n \in 1 .. m.parts : /\ inbox'[L + n].pos = n
                                 /\ inbox'[L + n].more = (n < m.parts)
  BY DeliverProperties
<1>3. MaxFrames \in Nat /\ m.parts \in Nat /\ m.parts >= 1
  BY <1>2, BoundsAssumption
<1>4. /\ \A i \in 1 .. L - 1 :
           inbox[i + 1].pos = IF inbox[i].more THEN inbox[i].pos + 1 ELSE 1
      /\ \A i \in 1 .. L : /\ inbox[i].more => inbox[i].pos < MaxFrames
                           /\ i = L => ~inbox[i].more
      /\ inbox # <<>> /\ inbox[1].more => inbox[1].pos = 1
  BY DEF InvSync, FramesChained, HeadIsTopic
<1> HIDE DEF L
<1>5. ASSUME NEW i \in 1 .. Len(inbox') - 1
      PROVE  inbox'[i + 1].pos = IF inbox'[i].more THEN inbox'[i].pos + 1 ELSE 1
  <2>1. CASE i < L
    <3>1. i \in 1 .. L - 1 /\ i \in 1 .. L /\ i + 1 \in 1 .. L
      BY <1>1, <2>1
    <3> QED
      BY <1>2, <1>4, <3>1
  <2>2. CASE i = L
    <3>1. i \in 1 .. L /\ 1 \in 1 .. m.parts
      BY <1>1, <1>3, <2>2
    <3>2. inbox'[i].more = inbox[i].more /\ ~inbox[i].more
      BY <1>2, <1>4, <2>2, <3>1
    <3>3. inbox'[i + 1].pos = 1
      BY <1>2, <2>2, <3>1
    <3> QED
      BY <3>2, <3>3
  <2>3. CASE i > L
    <3>1. PICK n \in 1 .. m.parts : i = L + n /\ n < m.parts
      <4>1. i - L \in 1 .. m.parts /\ i = L + (i - L) /\ i - L < m.parts
        BY <1>1, <1>2, <1>3, <2>3
      <4> QED
        BY <4>1
    <3>2. n + 1 \in 1 .. m.parts /\ i + 1 = L + (n + 1)
      BY <1>1, <1>3, <3>1
    <3> QED
      BY <1>2, <3>1, <3>2
  <2> QED
    BY <1>1, <2>1, <2>2, <2>3
<1>6. ASSUME NEW i \in 1 .. Len(inbox')
      PROVE  /\ inbox'[i].more => inbox'[i].pos < MaxFrames
             /\ i = Len(inbox') => ~inbox'[i].more
  <2>1. CASE i <= L
    <3>1. i \in 1 .. L /\ i # Len(inbox')
      BY <1>1, <1>2, <1>3, <2>1
    <3> QED
      BY <1>2, <1>4, <3>1
  <2>2. CASE i > L
    <3>1. PICK n \in 1 .. m.parts : i = L + n
      <4>1. i - L \in 1 .. m.parts /\ i = L + (i - L)
        BY <1>1, <1>2, <1>3, <2>2
      <4> QED
        BY <4>1
    <3>2. inbox'[i].pos = n /\ inbox'[i].more = (n < m.parts)
      BY <1>2, <3>1
    <3>3. n < m.parts => n < MaxFrames
      BY <1>2, <1>3
    <3>4. i = Len(inbox') => ~(n < m.parts)
      BY <1>1, <1>2, <1>3, <3>1
    <3> QED
      BY <3>2, <3>3, <3>4
  <2> QED
    BY <1>1, <1>2, <2>1, <2>2
<1>7. inbox'[1].more => inbox'[1].pos = 1
  <2>1. CASE L = 0
    <3>1. 1 \in 1 .. m.parts /\ L + 1 = 1
      BY <1>3, <2>1
    <3> QED
      BY <1>2, <3>1
  <2>2. CASE L # 0
    <3>1. 1 \in 1 .. L /\ inbox # <<>>
      BY <1>1, <2>2 DEF L
    <3> QED
      BY <1>2, <1>4, <3>1
  <2> QED
    BY <2>1, <2>2
<1> QED
  BY <1>5, <1>6, <1>7 DEF FramesChained, HeadIsTopic

LEMMA NextFrames ==
  TypeOK /\ FramesOfMessages /\ [Next]_vars => FramesOfMessages'
<1> SUFFICES ASSUME TypeOK, FramesOfMessages, [Next]_vars PROVE FramesOfMessages'
  OBVIOUS
<1>1. inbox \in Seq(Frame) /\ Len(inbox) \in Nat
  BY LenProperties DEF TypeOK
<1>2. ASSUME inbox' = inbox, received' = received PROVE FramesOfMessages'
  BY <1>2 DEF FramesOfMessages
<1>3. ASSUME NEW m \in Messages, Deliver(m) PROVE FramesOfMessages'
  <2> DEFINE k == Len(received) + 1
             L == Len(inbox)
  <2>1. /\ m.parts \in 1 .. MaxFrames
        /\ L' = L + m.parts
        /\ received'[k] = m
        /\ \A j \in DOMAIN received : received'[j] = received[j]
        /\ \A i \in 1 .. L : inbox'[i] = inbox[i]
        /\ \A n \in 1 .. m.parts : /\ inbox'[L + n].msg = k
                                   /\ inbox'[L + n].pos = n
                                   /\ inbox'[L + n].more = (n < m.parts)
    BY <1>3, DeliverProperties
  <2>2. m.parts \in Nat
    BY <2>1, BoundsAssumption
  <2>3. \A i \in 1 .. L : inbox[i].msg \in DOMAIN received
    BY <1>1, LenProperties DEF TypeOK
  <2> HIDE DEF k
  <2>4. ASSUME NEW i \in 1 .. L', inbox'[i].more
        PROVE  inbox'[i].pos < received'[inbox'[i].msg].parts
    <3>1. CASE i \in 1 .. L
      <4>1. inbox'[i] = inbox[i] /\ inbox[i].msg \in DOMAIN received
        BY <2>1, <2>3, <3>1
      <4>2. received'[inbox[i].msg] = received[inbox[i].msg]
        BY <2>1, <4>1
      <4>3. inbox[i].pos < received[inbox[i].msg].parts
        BY <2>4, <3>1, <4>1 DEF FramesOfMessages
      <4>4. inbox'[i].pos = inbox[i].pos /\ inbox'[i].msg = inbox[i].msg
        BY <4>1
      <4> QED
        BY <4>2, <4>3, <4>4
    <3>2. CASE i \notin 1 .. L
      <4>1. PICK n \in 1 .. m.parts : i = L + n
        <5>1. i - L \in 1 .. m.parts /\ i = L + (i - L)
          BY <1>1, <2>1, <2>2, <3>2
        <5> QED
          BY <5>1
      <4>2. inbox'[i].msg = k /\ inbox'[i].pos = n /\ inbox'[i].more = (n < m.parts)
        BY <2>1, <4>1
      <4>3. n < m.parts
        BY <2>4, <4>2
      <4> QED
        BY <2>1, <4>2, <4>3
    <3> QED
      BY <3>1, <3>2
  <2> QED
    BY <2>4 DEF FramesOfMessages
<1>4. CASE SkipSinglePart \/ RecvBodyFails \/ HandleRequest
  <2>1. PICK n \in 0 .. Len(inbox) : inbox' = Drop(inbox, n)
    <3>1. inbox # <<>> => Len(inbox) >= 1
      BY <1>1
    <3>2. Len(inbox) >= 1
      BY <1>4, <3>1 DEF SkipSinglePart, RecvBodyFails, HandleRequest, Readable
    <3>3. 1 \in 0 .. Len(inbox) /\ (Len(inbox) >= 2 => 2 \in 0 .. Len(inbox))
      BY <1>1, <3>2
    <3> QED
      BY <1>4, <3>3 DEF SkipSinglePart, RecvBodyFails, HandleRequest
  <2>2. /\ Len(inbox') = Len(inbox) - n
        /\ \A i \in 1 .. Len(inbox) - n : inbox'[i] = inbox[i + n]
    BY <1>1, <2>1, DropProperties
  <2>3. \A i \in 1 .. Len(inbox) - n : i + n \in 1 .. Len(inbox)
    BY <1>1
  <2>4. received' = received
    BY <1>4 DEF SkipSinglePart, RecvBodyFails, HandleRequest
  <2> QED
    BY <2>2, <2>3, <2>4 DEF FramesOfMessages
<1> QED
  BY <1>2, <1>3, <1>4 DEF Next, vars, rpc_register_method, rpc_server_start,
     rpc_handle_req, RecvTopicFails

LEMMA NextSync == FewFrames /\ TypeOK /\ InvSync /\ [Next]_vars => InvSync'
<1> SUFFICES ASSUME FewFrames, TypeOK, InvSync, [Next]_vars
             PROVE  InvSync'
  OBVIOUS
<1>1. inbox \in Seq(Frame) /\ Len(inbox) \in Nat /\ MaxFrames \in Nat
  BY LenProperties, BoundsAssumption DEF TypeOK
<1>5. FramesOfMessages'
  BY NextFrames DEF InvSync
<1>2. ASSUME inbox' = inbox PROVE InvSync'
  BY <1>2, <1>5 DEF InvSync, FramesChained, HeadIsTopic
<1>3. CASE \E m \in Messages : Deliver(m)
  BY <1>3, <1>5, DeliverChained DEF InvSync
<1>4. CASE SkipSinglePart \/ RecvBodyFails \/ HandleRequest
  <2>1. PICK n \in {1, 2} :
          /\ n <= Len(inbox)
          /\ inbox' = Drop(inbox, n)
          /\ n = 1 => SkipSinglePart \/ RecvBodyFails
          /\ n = 2 => HandleRequest
    <3>1. inbox # <<>> => Len(inbox) >= 1
      BY <1>1
    <3>2. Len(inbox) >= 1 \/ ~(SkipSinglePart \/ RecvBodyFails)
      BY <3>1 DEF SkipSinglePart, RecvBodyFails, Readable
    <3>3. CASE SkipSinglePart \/ RecvBodyFails
      BY <1>1, <3>2, <3>3 DEF SkipSinglePart, RecvBodyFails
    <3>4. CASE HandleRequest
      BY <1>1, <3>4 DEF HandleRequest
    <3> QED
      BY <1>4, <3>3, <3>4
  <2>2. n \in 0 .. Len(inbox) /\ n + 1 \in Nat
    BY <1>1, <2>1
  <2>3. FramesChained'
    BY <2>1, <2>2, DropChained DEF InvSync
  <2>4. HeadIsTopic'
    <3>1. SUFFICES ASSUME inbox' # <<>>, inbox'[1].more
                   PROVE  inbox'[1].pos = 1
      BY DEF HeadIsTopic
    <3>2. n < Len(inbox) /\ inbox'[1] = inbox[n + 1]
      <4>1. /\ inbox' \in Seq(Frame)
            /\ Len(inbox') = Len(inbox) - n
            /\ \A i \in 1 .. Len(inbox) - n : inbox'[i] = inbox[i + n]
        BY <1>1, <2>1, <2>2, DropProperties
      <4>2. Len(inbox') # 0
        BY <3>1, <4>1, EmptySeq
      <4>3. n < Len(inbox) /\ 1 \in 1 .. Len(inbox) - n /\ 1 + n = n + 1
        BY <1>1, <2>1, <4>1, <4>2
      <4> QED
        BY <4>1, <4>3
    <3>3. /\ \A i \in 1 .. Len(inbox) - 1 :
               inbox[i + 1].pos = IF inbox[i].more THEN inbox[i].pos + 1 ELSE 1
          /\ \A i \in 1 .. Len(inbox) : inbox[i].more => inbox[i].pos < MaxFrames
          /\ inbox # <<>> /\ inbox[1].more => inbox[1].pos = 1
      BY DEF InvSync, FramesChained, HeadIsTopic
    <3>4. inbox # <<>> /\ 1 \in 1 .. Len(inbox) - 1
      BY <1>1, <2>1, <3>2
    <3>5. inbox[2].pos = IF inbox[1].more THEN inbox[1].pos + 1 ELSE 1
      BY <3>3, <3>4, 1 + 1 = 2
    <3>6. CASE n = 1 /\ SkipSinglePart
      BY <3>2, <3>5, <3>6, 1 + 1 = 2 DEF SkipSinglePart, TopicFrame
    <3>7. CASE n = 1 /\ RecvBodyFails
      <4>1. /\ MaxRecvFailures # 0 /\ inbox[1].more
            /\ \A k \in DOMAIN received : received[k].parts <= FailFrames
        BY <3>7, BoundsAssumption DEF RecvBodyFails, TopicFrame, TypeOK
      <4>2. inbox[2].pos = 2
        BY <3>3, <3>4, <3>5, <4>1
      <4>3. inbox[2].more /\ 2 \in 1 .. Len(inbox)
        BY <1>1, <3>1, <3>2, <3>7
      <4>4. 2 < MaxFrames
        BY <3>3, <4>2, <4>3
      <4>5. inbox[2].msg \in DOMAIN received
        BY <1>1, <4>3, LenProperties DEF TypeOK
      <4>6. received[inbox[2].msg].parts \in Nat
        <5>1. received[inbox[2].msg] \in Messages
          BY <4>5, LenProperties DEF TypeOK
        <5> QED
          BY <5>1, BoundsAssumption DEF Messages
      <4>7. 2 < received[inbox[2].msg].parts
        BY <4>2, <4>3 DEF InvSync, FramesOfMessages
      <4>8. 2 < FailFrames /\ FailFrames \in Nat
        BY <4>1, <4>5, <4>6, <4>7, BoundsAssumption
      <4> QED
        BY <1>1, <4>1, <4>4, <4>8 DEF FewFrames
    <3>8. CASE n = 2 /\ HandleRequest
      <4>1. inbox[2].pos = 2
        BY <3>3, <3>4, <3>5, <3>8 DEF HandleRequest, TopicFrame
      <4>2. 2 \in 1 .. Len(inbox) - 1 /\ 3 \in 1 .. Len(inbox)
        BY <1>1, <3>2, <3>8
      <4>3. inbox'[1] = inbox[3]
        BY <3>2, <3>8, 2 + 1 = 3
      <4>4. inbox[3].pos = IF inbox[2].more THEN 3 ELSE 1
        BY <3>3, <4>1, <4>2, 2 + 1 = 3
      <4>5. inbox[3].pos < MaxFrames
        BY <3>1, <3>3, <4>2, <4>3
      <4> QED
        BY <1>1, <4>3, <4>4, <4>5 DEF FewFrames
    <3> QED
      BY <2>1, <3>6, <3>7, <3>8
  <2> QED
    BY <1>5, <2>3, <2>4 DEF InvSync
<1> QED
  BY <1>2, <1>3, <1>4 DEF Next, vars, rpc_register_method, rpc_server_start,
     rpc_handle_req, RecvTopicFails

LEMMA SyncFromInv == TypeOK /\ InvSync => InSync
<1> SUFFICES ASSUME TypeOK, InvSync, Readable, TopicFrame.more
             PROVE  TopicFrame.pos = 1 /\ Len(inbox) >= 2
  BY DEF InSync
<1>1. inbox \in Seq(Frame) /\ Len(inbox) \in Nat /\ inbox # <<>>
  BY LenProperties DEF TypeOK, Readable
<1>2. Len(inbox) # 0 /\ 1 \in 1 .. Len(inbox)
  BY <1>1, EmptySeq
<1>3. 1 # Len(inbox)
  BY <1>2 DEF InvSync, FramesChained, TopicFrame
<1>4. TopicFrame.pos = 1
  BY <1>1 DEF InvSync, HeadIsTopic, TopicFrame
<1>5. \A l \in Nat : l # 0 /\ l # 1 => l >= 2
  OBVIOUS
<1>6. Len(inbox) >= 2
  BY <1>1, <1>2, <1>3, <1>5, Zenon
<1> QED
  BY <1>4, <1>6

(* rpc_handle_req stays in step with the messages: what it takes for a topic is
   one and its payload is there, for any payloads and any number of messages,
   of up to three frames each; a payload may fail to be received while no message
   has more than two.                                                        *)
THEOREM Sync == ASSUME FewFrames PROVE Spec => []InSync
<1>1. Init => InvSync
  BY DEF Init, InvSync, FramesChained, HeadIsTopic, FramesOfMessages
<1>2. TypeOK /\ InvSync /\ [Next]_vars => InvSync'
  BY NextSync
<1> QED
  BY <1>1, <1>2, InitType, NextType, SyncFromInv, PTL DEF Spec

------------------------------------------------------------------------------
\* The inductive step of the order of replies, when frames are taken.
LEMMA HandleOrder ==
  ASSUME TypeOK, InvSync, InvOrder, rpc_handle_req
  PROVE  InvOrder'
<1> DEFINE L == Len(inbox)
           K == Len(published)
<1>1. /\ inbox \in Seq(Frame) /\ L \in Nat
      /\ published \in Seq([msg : Nat, reply : HandlerReplies]) /\ K \in Nat
  BY LenProperties DEF TypeOK
<1>2. /\ \A i \in 1 .. L : inbox[i].msg \in Nat /\ inbox[i].pos \in Nat
      /\ \A p \in 1 .. K : published[p].msg \in Nat
  <2>1. ASSUME NEW i \in 1 .. L PROVE inbox[i].msg \in Nat /\ inbox[i].pos \in Nat
    <3>1. inbox[i] \in Frame
      BY <1>1, ElementOfSeq
    <3> QED
      BY <3>1, BoundsAssumption DEF Frame
  <2>2. ASSUME NEW p \in 1 .. K PROVE published[p].msg \in Nat
    <3>1. published[p] \in [msg : Nat, reply : HandlerReplies]
      BY <1>1, ElementOfSeq
    <3> QED
      BY <3>1
  <2> QED
    BY <2>1, <2>2
<1>3. /\ \A i, j \in 1 .. L : i < j =>
           \/ inbox[i].msg < inbox[j].msg
           \/ inbox[i].msg = inbox[j].msg /\ inbox[i].pos < inbox[j].pos
      /\ \A p \in 1 .. K, i \in 1 .. L :
           \/ published[p].msg < inbox[i].msg
           \/ published[p].msg = inbox[i].msg /\ inbox[i].pos > 2
      /\ \A p, q \in 1 .. K : p < q => published[p].msg < published[q].msg
  <2>1. DOMAIN inbox = 1 .. L /\ DOMAIN published = 1 .. K
    BY <1>1, LenProperties
  <2>2. FramesOrdered /\ AnsweredIsBehind /\ RepliesInOrder
    BY DEF InvOrder
  <2> HIDE DEF L, K
  <2>3. \A i, j \in 1 .. L : i < j =>
           \/ inbox[i].msg < inbox[j].msg
           \/ inbox[i].msg = inbox[j].msg /\ inbox[i].pos < inbox[j].pos
    BY <2>2 DEF FramesOrdered, L
  <2>4. \A p \in 1 .. K, i \in 1 .. L :
           \/ published[p].msg < inbox[i].msg
           \/ published[p].msg = inbox[i].msg /\ inbox[i].pos > 2
    BY <2>2 DEF AnsweredIsBehind, L, K
  <2>5. \A p, q \in 1 .. K : p < q => published[p].msg < published[q].msg
    BY <2>1, <2>2 DEF RepliesInOrder
  <2> QED
    BY <2>3, <2>4, <2>5
<1>4. PICK n \in 0 .. L :
        /\ L' = L - n
        /\ \A i \in 1 .. L - n : inbox'[i] = inbox[i + n]
        /\ \/ published' = published
           \/ /\ n = 2 /\ HandleRequest
              /\ \E reply \in HandlerReplies :
                   published' = Append(published, [msg |-> inbox[2].msg,
                                                   reply |-> reply])
  <2>1. CASE inbox' = inbox /\ published' = published
    <3>1. 0 \in 0 .. L /\ L' = L - 0 /\ \A i \in 1 .. L - 0 : inbox'[i] = inbox[i + 0]
      BY <1>1, <2>1
    <3> QED
      BY <2>1, <3>1
  <2>2. CASE L >= 1 /\ inbox' = Drop(inbox, 1) /\ published' = published
    <3>1. 1 \in 0 .. L
      BY <1>1, <2>2
    <3>2. L' = L - 1 /\ \A i \in 1 .. L - 1 : inbox'[i] = inbox[i + 1]
      BY <1>1, <2>2, <3>1, DropProperties
    <3> QED
      BY <2>2, <3>1, <3>2
  <2>3. CASE /\ HandleRequest
             /\ L >= 2 /\ inbox' = Drop(inbox, 2)
             /\ \/ published' = published
                \/ \E reply \in HandlerReplies :
                     published' = Append(published, [msg |-> inbox[2].msg,
                                                     reply |-> reply])
    <3>1. 2 \in 0 .. L
      BY <1>1, <2>3
    <3>2. L' = L - 2 /\ \A i \in 1 .. L - 2 : inbox'[i] = inbox[i + 2]
      BY <1>1, <2>3, <3>1, DropProperties
    <3> QED
      BY <2>3, <3>1, <3>2
  <2> QED
    BY <2>1, <2>2, <2>3, HandleProperties
<1> HIDE DEF L
<1>5. \A i \in 1 .. L' : i \in 1 .. L - n /\ i + n \in 1 .. L
  BY <1>1, <1>4
<1>6. FramesOrdered'
  <2>1. ASSUME NEW i \in 1 .. L', NEW j \in 1 .. L', i < j
        PROVE  \/ inbox'[i].msg < inbox'[j].msg
               \/ inbox'[i].msg = inbox'[j].msg /\ inbox'[i].pos < inbox'[j].pos
    <3>1. i + n \in 1 .. L /\ j + n \in 1 .. L /\ i + n < j + n
      BY <1>1, <1>5, <2>1
    <3>2. inbox'[i] = inbox[i + n] /\ inbox'[j] = inbox[j + n]
      BY <1>4, <1>5
    <3> QED
      BY <1>3, <3>1, <3>2
  <2> QED
    BY <2>1 DEF FramesOrdered, L
<1>7. CASE published' = published
  <2>1. ASSUME NEW p \in 1 .. K, NEW i \in 1 .. L'
        PROVE  \/ published'[p].msg < inbox'[i].msg
               \/ published'[p].msg = inbox'[i].msg /\ inbox'[i].pos > 2
    <3>1. i + n \in 1 .. L /\ inbox'[i] = inbox[i + n]
      BY <1>4, <1>5
    <3> QED
      BY <1>3, <1>7, <3>1
  <2>2. AnsweredIsBehind'
    BY <1>7, <2>1 DEF AnsweredIsBehind, L
  <2> QED
    BY <1>6, <1>7, <2>2 DEF InvOrder, RepliesInOrder
<1>8. CASE published' # published
  <2>1. PICK reply \in HandlerReplies :
          /\ n = 2 /\ HandleRequest
          /\ published' = Append(published, [msg |-> inbox[2].msg,
                                             reply |-> reply])
    BY <1>4, <1>8
  <2> DEFINE new == [msg |-> inbox[2].msg, reply |-> reply]
  <2>2. 1 \in 1 .. L /\ 2 \in 1 .. L /\ 1 \in 1 .. L - 1 /\ inbox # <<>>
    BY <1>1, <1>4, <2>1 DEF L, HandleRequest, Readable
  <2>3. inbox[2].pos = 2
    <3>1. inbox[1].more
      BY <2>1 DEF HandleRequest, TopicFrame
    <3>2. inbox[1].pos = 1
      BY <2>2, <3>1 DEF InvSync, HeadIsTopic
    <3>3. inbox[1 + 1].pos = inbox[1].pos + 1
      BY <2>2, <3>1 DEF InvSync, FramesChained, L
    <3> QED
      BY <3>2, <3>3
  <2>4. new \in [msg : Nat, reply : HandlerReplies] /\ new.msg = inbox[2].msg
    BY <1>2, <2>2
  <2>5. /\ published' \in Seq([msg : Nat, reply : HandlerReplies])
        /\ K' = K + 1
        /\ \A p \in 1 .. K : published'[p] = published[p]
        /\ published'[K + 1] = new
    <3>1. published' = Append(published, new)
      BY <2>1
    <3> HIDE DEF new
    <3> QED
      BY <1>1, <2>4, <3>1, AppendProperties
  <2> HIDE DEF new, K
  <2>6. \A p \in 1 .. K : published[p].msg < new.msg
    BY <1>2, <1>3, <2>2, <2>3, <2>4
  <2>7. ASSUME NEW i \in 1 .. L'
        PROVE  \/ new.msg < inbox'[i].msg
               \/ new.msg = inbox'[i].msg /\ inbox'[i].pos > 2
    <3>1. i + 2 \in 1 .. L /\ 2 < i + 2 /\ inbox'[i] = inbox[i + 2]
      BY <1>1, <1>4, <1>5, <2>1
    <3>2. \/ inbox[2].msg < inbox[i + 2].msg
          \/ inbox[2].msg = inbox[i + 2].msg /\ inbox[2].pos < inbox[i + 2].pos
      BY <1>3, <2>2, <3>1
    <3>3. inbox[i + 2].pos \in Nat
      BY <1>2, <3>1
    <3> QED
      BY <2>3, <2>4, <3>1, <3>2, <3>3
  <2>8. \A p \in 1 .. K' : p \in 1 .. K \/ p = K + 1
    BY <1>1, <2>5
  <2>9. ASSUME NEW p \in 1 .. K', NEW i \in 1 .. L'
        PROVE  \/ published'[p].msg < inbox'[i].msg
               \/ published'[p].msg = inbox'[i].msg /\ inbox'[i].pos > 2
    <3>1. CASE p = K + 1
      BY <2>5, <2>7, <3>1
    <3>2. CASE p \in 1 .. K
      <4>1. i + n \in 1 .. L /\ inbox'[i] = inbox[i + n]
        BY <1>4, <1>5
      <4>2. published'[p] = published[p]
        BY <2>5, <3>2
      <4> QED
        BY <1>3, <3>2, <4>1, <4>2
    <3> QED
      BY <2>8, <3>1, <3>2
  <2>10. ASSUME NEW p \in 1 .. K', NEW q \in 1 .. K', p < q
         PROVE  published'[p].msg < published'[q].msg
    <3>1. p \in 1 .. K
      BY <1>1, <2>5, <2>10
    <3>2. CASE q \in 1 .. K
      BY <1>3, <2>5, <2>10, <3>1, <3>2
    <3>3. CASE q = K + 1
      BY <2>5, <2>6, <3>1, <3>3
    <3> QED
      BY <2>8, <3>2, <3>3
  <2>11. DOMAIN published' = 1 .. K'
    BY <2>5, LenProperties DEF K
  <2>12. AnsweredIsBehind'
    BY <2>9 DEF AnsweredIsBehind, K, L
  <2>13. RepliesInOrder'
    BY <2>10, <2>11 DEF RepliesInOrder
  <2> QED
    BY <1>6, <2>12, <2>13 DEF InvOrder
<1> QED
  BY <1>7, <1>8

\* ... and when a message is delivered: its frames are the last ones.
LEMMA DeliverOrder ==
  ASSUME TypeOK, InvOrder, NEW m \in Messages, Deliver(m)
  PROVE  InvOrder'
<1> DEFINE L == Len(inbox)
           K == Len(published)
           k == Len(received) + 1
<1>1. /\ inbox \in Seq(Frame) /\ L \in Nat
      /\ published \in Seq([msg : Nat, reply : HandlerReplies]) /\ K \in Nat
      /\ received \in Seq(Messages)
      /\ \A i \in 1 .. L : inbox[i].msg \in DOMAIN received
      /\ \A p \in 1 .. K : published[p].msg \in DOMAIN received
  BY LenProperties DEF TypeOK
<1>2. /\ k \in Nat
      /\ DOMAIN received = 1 .. k - 1
      /\ m.parts \in 1 .. MaxFrames
      /\ inbox' \in Seq(Frame)
      /\ L' = L + m.parts
      /\ \A i \in 1 .. L : inbox'[i] = inbox[i]
      /\ \A n \in 1 .. m.parts : /\ inbox'[L + n].msg = k
                                 /\ inbox'[L + n].pos = n
  BY DeliverProperties
<1>3. published' = published
  BY DEF Deliver
<1>4. m.parts \in Nat
  BY <1>2, BoundsAssumption
<1> HIDE DEF L, K, k
<1>5. /\ \A i \in 1 .. L : inbox[i].msg < k
      /\ \A p \in 1 .. K : published[p].msg < k
  <2>1. \A j \in DOMAIN received : j < k
    BY <1>2
  <2> QED
    BY <1>1, <2>1, Zenon
<1>6. ASSUME NEW i \in 1 .. L', i \notin 1 .. L
      PROVE  \E n \in 1 .. m.parts : i = L + n
  <2>1. i - L \in 1 .. m.parts /\ i = L + (i - L)
    BY <1>1, <1>2, <1>4, <1>6
  <2> QED
    BY <2>1
<1>7. FramesOrdered'
  <2>1. ASSUME NEW i \in 1 .. L', NEW j \in 1 .. L', i < j
        PROVE  \/ inbox'[i].msg < inbox'[j].msg
               \/ inbox'[i].msg = inbox'[j].msg /\ inbox'[i].pos < inbox'[j].pos
    <3>1. CASE j \in 1 .. L
      <4>1. i \in 1 .. L
        BY <1>1, <2>1, <3>1
      <4>2. inbox'[i] = inbox[i] /\ inbox'[j] = inbox[j]
        BY <1>2, <3>1, <4>1
      <4>3. \/ inbox[i].msg < inbox[j].msg
            \/ inbox[i].msg = inbox[j].msg /\ inbox[i].pos < inbox[j].pos
        BY <2>1, <3>1, <4>1 DEF InvOrder, FramesOrdered, L
      <4> QED
        BY <4>2, <4>3
    <3>2. CASE i \in 1 .. L /\ j \notin 1 .. L
      BY <1>2, <1>5, <1>6, <3>2
    <3>3. CASE i \notin 1 .. L /\ j \notin 1 .. L
      <4>1. PICK n \in 1 .. m.parts : i = L + n
        BY <1>6, <3>3
      <4>2. PICK l \in 1 .. m.parts : j = L + l
        BY <1>6, <3>3
      <4>3. n < l
        BY <1>1, <1>4, <2>1, <4>1, <4>2
      <4> QED
        BY <1>2, <4>1, <4>2, <4>3
    <3> QED
      BY <3>1, <3>2, <3>3
  <2> QED
    BY <2>1 DEF FramesOrdered, L
<1>8. AnsweredIsBehind'
  <2>1. ASSUME NEW p \in 1 .. K, NEW i \in 1 .. L'
        PROVE  \/ published[p].msg < inbox'[i].msg
               \/ published[p].msg = inbox'[i].msg /\ inbox'[i].pos > 2
    <3>1. CASE i \in 1 .. L
      <4>1. inbox'[i] = inbox[i]
        BY <1>2, <3>1
      <4>2. \/ published[p].msg < inbox[i].msg
            \/ published[p].msg = inbox[i].msg /\ inbox[i].pos > 2
        BY <3>1 DEF InvOrder, AnsweredIsBehind, K, L
      <4> QED
        BY <4>1, <4>2
    <3>2. CASE i \notin 1 .. L
      BY <1>2, <1>5, <1>6, <3>2
    <3> QED
      BY <3>1, <3>2
  <2> QED
    BY <1>3, <2>1 DEF AnsweredIsBehind, K, L
<1> QED
  BY <1>3, <1>7, <1>8 DEF InvOrder, RepliesInOrder

LEMMA NextOrder == TypeOK /\ InvSync /\ InvOrder /\ [Next]_vars => InvOrder'
<1> SUFFICES ASSUME TypeOK, InvSync, InvOrder, [Next]_vars
             PROVE  InvOrder'
  OBVIOUS
<1>1. ASSUME inbox' = inbox, published' = published PROVE InvOrder'
  BY <1>1 DEF InvOrder, FramesOrdered, AnsweredIsBehind, RepliesInOrder
<1>2. CASE \E m \in Messages : Deliver(m)
  BY <1>2, DeliverOrder
<1>3. CASE rpc_handle_req
  BY <1>3, HandleOrder
<1> QED
  BY <1>1, <1>2, <1>3 DEF Next, vars, rpc_register_method, rpc_server_start

(* Replies leave in the order of their requests, and no message is answered
   twice, as long as rpc_handle_req stays in step with the messages.         *)
THEOREM InOrder == ASSUME FewFrames PROVE Spec => []RepliesInOrder
<1>1. Init => InvSync
  BY DEF Init, InvSync, FramesChained, HeadIsTopic, FramesOfMessages
<1>2. TypeOK /\ InvSync /\ [Next]_vars => InvSync'
  BY NextSync
<1>3. Init => InvOrder
  BY DEF Init, InvOrder, FramesOrdered, AnsweredIsBehind, RepliesInOrder
<1>4. TypeOK /\ InvSync /\ InvOrder /\ [Next]_vars => InvOrder'
  BY NextOrder
<1>5. InvOrder => RepliesInOrder
  BY DEF InvOrder
<1> QED
  BY <1>1, <1>2, <1>3, <1>4, <1>5, InitType, NextType, PTL DEF Spec

------------------------------------------------------------------------------
LEMMA NextTopic == TypeOK /\ InvTopic /\ [Next]_vars => InvTopic'
<1> SUFFICES ASSUME TypeOK, InvTopic, [Next]_vars
             PROVE  InvTopic'
  OBVIOUS
<1> DEFINE Own(reply, payload) ==
             HasProperId(payload) => reply.topic = OwnTopic(payload)
<1>1. /\ inbox \in Seq(Frame) /\ Len(inbox) \in Nat
      /\ received \in Seq(Messages)
      /\ published \in Seq([msg : Nat, reply : HandlerReplies])
      /\ Len(published) \in Nat
      /\ \A i \in 1 .. Len(inbox) : inbox[i].msg \in DOMAIN received
      /\ \A p \in 1 .. Len(published) : published[p].msg \in DOMAIN received
  BY LenProperties DEF TypeOK
<1>2. /\ \A i \in 1 .. Len(inbox) :
           inbox[i].body = received[inbox[i].msg].payload
      /\ \A p \in 1 .. Len(published) :
           Own(published[p].reply, received[published[p].msg].payload)
  BY <1>1, LenProperties DEF InvTopic, FramesCarryPayload, ReplyOnOwnTopic
<1>3. ASSUME /\ \A p \in 1 .. Len(published') :
                  Own(published'[p].reply, received'[published'[p].msg].payload)
             /\ published' \in Seq([msg : Nat, reply : HandlerReplies])
      PROVE  ReplyOnOwnTopic'
  BY <1>3, LenProperties DEF ReplyOnOwnTopic
<1> HIDE DEF Own
<1>4. ASSUME inbox' = inbox, published' = published, received' = received
      PROVE  InvTopic'
  BY <1>4 DEF InvTopic, FramesCarryPayload, ReplyOnOwnTopic
<1>5. ASSUME NEW m \in Messages, Deliver(m)
      PROVE  InvTopic'
  <2> DEFINE k == Len(received) + 1
             L == Len(inbox)
  <2>1. /\ inbox' \in Seq(Frame)
        /\ m.parts \in 1 .. MaxFrames
        /\ L' = L + m.parts
        /\ received'[k] = m
        /\ \A j \in DOMAIN received : received'[j] = received[j]
        /\ \A i \in 1 .. L : inbox'[i] = inbox[i]
        /\ \A n \in 1 .. m.parts : /\ inbox'[L + n].msg = k
                                   /\ inbox'[L + n].body = m.payload
    BY <1>5, DeliverProperties
  <2>2. m.parts \in Nat
    BY <2>1, BoundsAssumption
  <2>3. published' = published
    BY <1>5 DEF Deliver
  <2> HIDE DEF k
  <2>4. ASSUME NEW i \in 1 .. L'
        PROVE  inbox'[i].body = received'[inbox'[i].msg].payload
    <3>1. CASE i \in 1 .. L
      <4>1. inbox'[i] = inbox[i]
        BY <2>1, <3>1
      <4>2. /\ inbox[i].msg \in DOMAIN received
            /\ inbox[i].body = received[inbox[i].msg].payload
        BY <1>1, <1>2, <3>1
      <4>3. received'[inbox[i].msg] = received[inbox[i].msg]
        BY <2>1, <4>2
      <4> QED
        BY <4>1, <4>2, <4>3
    <3>2. CASE i \notin 1 .. L
      <4>1. i - L \in 1 .. m.parts /\ i = L + (i - L)
        BY <1>1, <2>1, <2>2, <3>2
      <4> QED
        BY <2>1, <4>1
    <3> QED
      BY <3>1, <3>2
  <2>5. \A p \in 1 .. Len(published) :
          Own(published[p].reply, received'[published[p].msg].payload)
    BY <1>1, <1>2, <2>1
  <2>6. ReplyOnOwnTopic'
    BY <1>1, <1>3, <2>3, <2>5
  <2>7. FramesCarryPayload'
    BY <2>4 DEF FramesCarryPayload
  <2> QED
    BY <2>6, <2>7 DEF InvTopic
<1>6. CASE rpc_handle_req
  <2>1. received' = received
    BY <1>6, HandleProperties
  <2>2. FramesCarryPayload'
    <3>1. PICK n \in 0 .. Len(inbox) : inbox' = Drop(inbox, n) \/ inbox' = inbox
      <4>1. Len(inbox) \in Nat
        BY <1>1
      <4>2. \E n \in 0 .. Len(inbox) : inbox' = Drop(inbox, n) \/ inbox' = inbox
        BY <1>6, <4>1, HandleProperties
      <4> QED
        BY <4>2
    <3>2. CASE inbox' = Drop(inbox, n)
      <4>1. /\ Len(inbox') = Len(inbox) - n
            /\ \A i \in 1 .. Len(inbox) - n : inbox'[i] = inbox[i + n]
        BY <1>1, <3>2, DropProperties
      <4>2. \A i \in 1 .. Len(inbox) - n : i + n \in 1 .. Len(inbox)
        BY <1>1
      <4> QED
        BY <1>2, <2>1, <4>1, <4>2 DEF FramesCarryPayload
    <3>3. CASE inbox' = inbox
      BY <1>2, <2>1, <3>3 DEF FramesCarryPayload
    <3> QED
      BY <3>1, <3>2, <3>3
  <2>3. CASE published' = published
    <3>1. ReplyOnOwnTopic'
      BY <1>1, <1>2, <1>3, <2>1, <2>3
    <3> QED
      BY <2>2, <3>1 DEF InvTopic
  <2>4. CASE published' # published
    <3>1. PICK reply \in HandlerReplies :
            /\ Len(inbox) >= 2
            /\ published' = Append(published, [msg |-> inbox[2].msg,
                                               reply |-> reply])
            /\ \E i \in DOMAIN rpc_msg_handler(registry, inbox[2].body) :
                 reply = rpc_msg_handler(registry, inbox[2].body)[i]
      BY <1>6, <2>4, HandleProperties
    <3>2. 2 \in 1 .. Len(inbox) /\ inbox[2].msg \in Nat /\ inbox[2].body \in Payloads
      <4>1. 2 \in 1 .. Len(inbox)
        BY <1>1, <3>1
      <4>2. inbox[2] \in Frame
        BY <1>1, <4>1, ElementOfSeq
      <4> QED
        BY <4>1, <4>2 DEF Frame
    <3>3. Own(reply, inbox[2].body)
      <4>1. PayloadOK(inbox[2].body)
        BY <3>2, PayloadsAssumption
      <4> QED
        BY <3>1, <4>1, HandlerUsesOwnTopic DEF Own
    <3>4. Own(reply, received[inbox[2].msg].payload)
      BY <1>2, <3>2, <3>3
    <3> DEFINE new == [msg |-> inbox[2].msg, reply |-> reply]
               Published == [msg : Nat, reply : HandlerReplies]
    <3>5. new \in Published /\ new.msg = inbox[2].msg /\ new.reply = reply
      BY <3>2
    <3>6. published' = Append(published, new)
      BY <3>1
    <3> HIDE DEF new
    <3>7. /\ published' \in Seq(Published)
          /\ Len(published') = Len(published) + 1
          /\ \A p \in 1 .. Len(published) : published'[p] = published[p]
          /\ published'[Len(published) + 1] = new
      BY <1>1, <3>5, <3>6, AppendProperties
    <3>8. \A p \in 1 .. Len(published') :
            p \in 1 .. Len(published) \/ p = Len(published) + 1
      BY <1>1, <3>7
    <3>9. \A p \in 1 .. Len(published') :
            Own(published'[p].reply, received[published'[p].msg].payload)
      BY <1>2, <3>4, <3>5, <3>7, <3>8
    <3>10. ReplyOnOwnTopic'
      BY <1>3, <2>1, <3>7, <3>9
    <3> QED
      BY <2>2, <3>10 DEF InvTopic
  <2> QED
    BY <2>3, <2>4
<1> QED
  BY <1>4, <1>5, <1>6 DEF Next, vars, rpc_register_method, rpc_server_start

(* The reply to a message that names a proper request id is published on that
   id: for every payload, every number of frames and every failure, also when
   the server has lost step with its messages.                               *)
THEOREM OwnTopicUsed == Spec => []ReplyOnOwnTopic
<1>1. Init => InvTopic
  BY DEF Init, InvTopic, FramesCarryPayload, ReplyOnOwnTopic
<1>2. InvTopic => ReplyOnOwnTopic
  BY DEF InvTopic
<1> QED
  BY <1>1, <1>2, InitType, NextType, NextTopic, PTL DEF Spec

------------------------------------------------------------------------------
(* How far the server has come.  A message counts as served when its first frame
   is gone: that is the message of the frame to be taken next, or the one before
   it when that frame is a first one.                                        *)

FrameNumbers(in, n) ==
  \A i \in 1 .. Len(in) : in[i].msg \in 1 .. n /\ in[i].pos \in Nat \ {0}

InOrderOf(in) ==
  \A i, j \in 1 .. Len(in) : i < j =>
    \/ in[i].msg < in[j].msg
    \/ in[i].msg = in[j].msg /\ in[i].pos < in[j].pos

\* The first frame of each of n messages is in the socket, or all that is in it
\* comes after that frame.
FirstOrBehind(in, n) ==
  \A k \in 1 .. n :
    \/ \E i \in 1 .. Len(in) : in[i].msg = k /\ in[i].pos = 1
    \/ \A i \in 1 .. Len(in) : \/ k < in[i].msg
                               \/ k = in[i].msg /\ 1 < in[i].pos

ServedOf(in, n) ==
  IF Len(in) = 0 THEN n ELSE IF in[1].pos = 1 THEN in[1].msg - 1 ELSE in[1].msg

WaitingIn(in) == {i \in 1 .. Len(in) : in[i].pos = 1}

\* The messages not served are those whose first frame is in the socket.
LEMMA WaitingCounted ==
  ASSUME NEW n \in Nat, NEW in, Len(in) \in Nat, FrameNumbers(in, n),
         InOrderOf(in), FirstOrBehind(in, n)
  PROVE  /\ ServedOf(in, n) \in 0 .. n
         /\ n - Cardinality(WaitingIn(in)) = ServedOf(in, n)
<1> DEFINE L == Len(in)
           W == WaitingIn(in)
           D == ServedOf(in, n)
           f == [i \in W |-> in[i].msg]
<1>1. D \in 0 .. n
  <2>1. CASE L = 0
    BY <2>1 DEF ServedOf
  <2>2. CASE L # 0
    <3>1. in[1].msg \in 1 .. n /\ in[1].pos \in Nat \ {0}
      BY <2>2 DEF FrameNumbers
    <3> QED
      BY <2>2, <3>1 DEF ServedOf
  <2> QED
    BY <2>1, <2>2
<1>2. \A i \in W : i \in 1 .. L /\ in[i].pos = 1 /\ in[i].msg \in 1 .. n
  BY DEF WaitingIn, FrameNumbers
<1>3. ASSUME NEW i \in W PROVE in[i].msg \in D + 1 .. n
  <2>1. L # 0 /\ 1 \in 1 .. L /\ in[1].msg \in 1 .. n /\ in[1].pos \in Nat \ {0}
    BY <1>2 DEF FrameNumbers
  <2>2. CASE i = 1
    BY <1>2, <2>1, <2>2 DEF ServedOf
  <2>3. CASE i # 1
    <3>1. \/ in[1].msg < in[i].msg
          \/ in[1].msg = in[i].msg /\ in[1].pos < in[i].pos
      BY <1>2, <2>1, <2>3 DEF InOrderOf
    <3>2. in[1].msg < in[i].msg
      BY <1>2, <2>1, <3>1
    <3> QED
      BY <1>2, <2>1, <3>2 DEF ServedOf
  <2> QED
    BY <2>2, <2>3
<1>4. ASSUME NEW k \in D + 1 .. n PROVE \E i \in W : in[i].msg = k
  <2>1. k \in 1 .. n
    BY <1>1
  <2>2. L # 0
    BY <1>1 DEF ServedOf
  <2>3. 1 \in 1 .. L /\ in[1].msg \in 1 .. n /\ in[1].pos \in Nat \ {0}
    BY <2>2 DEF FrameNumbers
  <2>4. ~(k < in[1].msg \/ (k = in[1].msg /\ 1 < in[1].pos))
    BY <1>1, <2>1, <2>2, <2>3 DEF ServedOf
  <2>5. \E i \in 1 .. L : in[i].msg = k /\ in[i].pos = 1
    BY <2>1, <2>3, <2>4 DEF FirstOrBehind
  <2> QED
    BY <2>5 DEF WaitingIn
<1>5. ASSUME NEW i \in W, NEW j \in W, in[i].msg = in[j].msg PROVE i = j
  <2>1. \A a, b \in W : a < b => in[a].msg # in[b].msg
    BY <1>2 DEF InOrderOf
  <2>2. i < j \/ j < i \/ i = j
    BY <1>2
  <2> QED
    BY <1>5, <2>1, <2>2
<1> HIDE DEF D, W
<1>6. f \in Bijection(W, D + 1 .. n)
  <2>1. f \in [W -> D + 1 .. n]
    BY <1>3
  <2>2. \A i, j \in W : f[i] = f[j] => i = j
    BY <1>5
  <2>3. \A k \in D + 1 .. n : \E i \in W : f[i] = k
    BY <1>4
  <2> HIDE DEF f
  <2> QED
    BY <2>1, <2>2, <2>3, Fun_IsBij
<1>7. IsFiniteSet(W)
  <2>1. IsFiniteSet(1 .. L) /\ W \in SUBSET (1 .. L)
    BY FS_Interval DEF W, WaitingIn
  <2> QED
    BY <2>1, FS_Subset
<1>8. ExistsBijection(W, D + 1 .. n)
  BY <1>6, Fun_ExistsBij
<1>9. Cardinality(D + 1 .. n) = Cardinality(W)
  BY <1>7, <1>8, FS_Bijection
<1>10. Cardinality(D + 1 .. n) = n - D
  <2>1. PICK a : a = D + 1
    OBVIOUS
  <2>2. a \in Int /\ n \in Int
    BY <1>1, <2>1
  <2>3. Cardinality(a .. n) = IF a > n THEN 0 ELSE n - a + 1
    BY <2>2, FS_Interval
  <2> QED
    BY <1>1, <2>1, <2>3
<1> QED
  BY <1>1, <1>9, <1>10 DEF D, W

\* When the first l frames are taken, the last message of them is the last served.
LEMMA TakenServed ==
  ASSUME NEW n \in Nat, NEW in, Len(in) \in Nat, FrameNumbers(in, n),
         InOrderOf(in), FirstOrBehind(in, n),
         NEW l \in 1 .. Len(in), NEW rest, Len(rest) = Len(in) - l,
         \A i \in 1 .. Len(in) - l : rest[i] = in[i + l]
  PROVE  /\ ServedOf(rest, n) = in[l].msg
         /\ FirstOrBehind(rest, n)
<1> DEFINE L == Len(in)
           last == in[l].msg
<1>1. /\ last \in 1 .. n /\ in[l].pos \in Nat \ {0}
      /\ \A i \in 1 .. L : in[i].msg \in 1 .. n /\ in[i].pos \in Nat \ {0}
  BY DEF FrameNumbers
<1>2. \A i \in 1 .. L : i < l => in[i].msg <= last
  BY <1>1 DEF InOrderOf
<1>3. \A i \in 1 .. L : i > l => in[i].msg > last \/ (in[i].msg = last /\ in[i].pos > 1)
  BY <1>1 DEF InOrderOf
<1> HIDE DEF last
\* What comes after the last one taken is the rest of its message or the next one.
<1>4. ASSUME NEW k \in 1 .. n, k > last
      PROVE  \E i \in l + 1 .. L : in[i].msg = k /\ in[i].pos = 1
  <2>1. \E i \in 1 .. L : in[i].msg = k /\ in[i].pos = 1
    <3>1. CASE \A i \in 1 .. L : k < in[i].msg \/ (k = in[i].msg /\ 1 < in[i].pos)
      <4>1. k < in[l].msg \/ k = in[l].msg
        BY <3>1
      <4> QED
        BY <1>1, <1>4, <4>1 DEF last
    <3> QED
      BY <3>1 DEF FirstOrBehind
  <2>2. PICK i \in 1 .. L : in[i].msg = k /\ in[i].pos = 1
    BY <2>1
  <2>3. ~(i < l) /\ i # l
    BY <1>1, <1>2, <1>4, <2>2 DEF last
  <2>4. i \in l + 1 .. L
    BY <2>3
  <2> QED
    BY <2>2, <2>4
<1> HIDE DEF L
<1>5. ServedOf(rest, n) = last
  <2>1. CASE l = L
    <3>1. Len(rest) = 0
      BY <2>1 DEF L
    <3>2. ~(last < n)
      <4>1. SUFFICES ASSUME last < n PROVE FALSE
        OBVIOUS
      <4>2. \E i \in l + 1 .. L : in[i].msg = n
        BY <1>1, <1>4, <4>1
      <4> QED
        BY <2>1, <4>2
    <3> QED
      BY <1>1, <3>1, <3>2 DEF ServedOf
  <2>2. CASE l # L
    <3>1. PICK h \in 1 .. L : h = l + 1
      BY <2>2 DEF L
    <3>2. PICK msg \in 1 .. n, pos \in Nat \ {0} : msg = in[h].msg /\ pos = in[h].pos
      BY <1>1
    <3>3. ServedOf(rest, n) = IF pos = 1 THEN msg - 1 ELSE msg
      <4>1. Len(rest) # 0 /\ rest[1] = in[h]
        BY <2>2, <3>1 DEF L
      <4> QED
        BY <3>2, <4>1 DEF ServedOf
    <3>4. msg > last \/ (msg = last /\ pos > 1)
      <4>1. h > l
        BY <3>1
      <4> QED
        BY <1>3, <3>2, <4>1
    <3>5. CASE msg = last
      BY <1>1, <3>2, <3>3, <3>4, <3>5
    <3>6. CASE msg > last
      <4>1. PICK next \in 1 .. n : next = last + 1
        BY <1>1, <3>2, <3>6
      <4>2. PICK i \in l + 1 .. L : in[i].msg = next /\ in[i].pos = 1
        <5>1. next > last
          BY <1>1, <4>1
        <5> QED
          BY <1>4, <5>1
      <4>3. CASE i = h
        BY <1>1, <3>2, <3>3, <4>1, <4>2, <4>3
      <4>4. CASE i # h
        <5>1. h < i /\ i \in 1 .. L
          BY <3>1, <4>2, <4>4 DEF L
        <5>2. msg < next \/ (msg = next /\ pos < 1)
          BY <3>2, <4>2, <5>1 DEF InOrderOf, L
        <5>3. last \in Nat /\ msg \in Nat /\ ~(pos < 1)
          BY <1>1
        <5> QED
          BY <3>6, <4>1, <5>2, <5>3
      <4> QED
        BY <4>3, <4>4
    <3> QED
      BY <3>4, <3>5, <3>6
  <2> QED
    BY <2>1, <2>2
<1>6. ASSUME NEW k \in 1 .. n
      PROVE  \/ \E i \in 1 .. Len(rest) : rest[i].msg = k /\ rest[i].pos = 1
             \/ \A i \in 1 .. Len(rest) : \/ k < rest[i].msg
                                          \/ k = rest[i].msg /\ 1 < rest[i].pos
  <2>1. \A i \in 1 .. Len(rest) : /\ i + l \in 1 .. L /\ i + l > l
                                  /\ rest[i] = in[i + l]
    BY DEF L
  <2>2. CASE k > last
    <3>1. PICK i \in l + 1 .. L : in[i].msg = k /\ in[i].pos = 1
      BY <1>4, <2>2
    <3>2. i - l \in 1 .. Len(rest) /\ (i - l) + l = i
      BY <3>1 DEF L
    <3>3. rest[i - l] = in[i]
      BY <2>1, <3>2
    <3> QED
      BY <3>1, <3>2, <3>3
  <2>3. CASE ~(k > last)
    <3>1. ASSUME NEW i \in 1 .. Len(rest)
          PROVE  k < rest[i].msg \/ (k = rest[i].msg /\ 1 < rest[i].pos)
      <4>1. PICK j : j = i + l
        OBVIOUS
      <4>2. j \in 1 .. L /\ j > l /\ rest[i] = in[j]
        BY <2>1, <4>1
      <4>3. /\ in[j].msg \in Nat /\ in[j].pos \in Nat
            /\ in[j].msg > last \/ (in[j].msg = last /\ in[j].pos > 1)
        BY <1>1, <1>3, <4>2
      <4> QED
        BY <1>1, <2>3, <4>2, <4>3
    <3> QED
      BY <3>1
  <2> QED
    BY <2>2, <2>3
<1> QED
  BY <1>5, <1>6 DEF FirstOrBehind, last

------------------------------------------------------------------------------
(* The invariant of the refinement.                                          *)

\* No message is missing in the socket that was not turned to.
NoneSkipped == FirstOrBehind(inbox, Len(received))

\* A frame that does not go on is the last of its message.
FramesEnd ==
  \A i \in 1 .. Len(inbox) :
    ~inbox[i].more => received[inbox[i].msg].parts <= inbox[i].pos

AllRegistered == started => registry = Methods

InvService == /\ InvSync /\ InvOrder /\ InvTopic
              /\ NoneSkipped /\ FramesEnd /\ AllRegistered

Served == Len(received) - Cardinality(Waiting)

LEMMA ServedNow ==
  ASSUME TypeOK, InvService
  PROVE  /\ Len(received) \in Nat /\ Len(inbox) \in Nat
         /\ FrameNumbers(inbox, Len(received))
         /\ InOrderOf(inbox)
         /\ FirstOrBehind(inbox, Len(received))
         /\ Served \in 0 .. Len(received)
         /\ Served = ServedOf(inbox, Len(received))
<1>1. /\ inbox \in Seq(Frame) /\ Len(inbox) \in Nat /\ DOMAIN inbox = 1 .. Len(inbox)
      /\ Len(received) \in Nat /\ DOMAIN received = 1 .. Len(received)
  BY LenProperties DEF TypeOK
<1>2. FrameNumbers(inbox, Len(received))
  <2>1. ASSUME NEW i \in 1 .. Len(inbox)
        PROVE  inbox[i].msg \in 1 .. Len(received) /\ inbox[i].pos \in Nat \ {0}
    <3>1. inbox[i] \in Frame
      BY <1>1, ElementOfSeq
    <3>2. inbox[i].msg \in DOMAIN received
      BY <1>1 DEF TypeOK
    <3> QED
      BY <1>1, <3>1, <3>2, BoundsAssumption DEF Frame
  <2> QED
    BY <2>1 DEF FrameNumbers
<1>3. InOrderOf(inbox) /\ FirstOrBehind(inbox, Len(received))
  BY DEF InvService, InvOrder, FramesOrdered, InOrderOf, NoneSkipped
<1>4. Waiting = WaitingIn(inbox)
  BY <1>1 DEF Waiting, WaitingIn
<1> QED
  BY <1>1, <1>2, <1>3, <1>4, WaitingCounted DEF Served

LEMMA ServedNext ==
  ASSUME TypeOK', InvService'
  PROVE  /\ Served' \in 0 .. Len(received')
         /\ Served' = ServedOf(inbox', Len(received'))
<1>1. /\ inbox' \in Seq(Frame) /\ Len(inbox') \in Nat
      /\ DOMAIN inbox' = 1 .. Len(inbox')
      /\ Len(received') \in Nat /\ DOMAIN received' = 1 .. Len(received')
  BY LenProperties DEF TypeOK
<1>2. FrameNumbers(inbox', Len(received'))
  <2>1. ASSUME NEW i \in 1 .. Len(inbox')
        PROVE  inbox'[i].msg \in 1 .. Len(received') /\ inbox'[i].pos \in Nat \ {0}
    <3>1. inbox'[i] \in Frame
      BY <1>1, ElementOfSeq
    <3>2. inbox'[i].msg \in DOMAIN received'
      BY <1>1 DEF TypeOK
    <3> QED
      BY <1>1, <3>1, <3>2, BoundsAssumption DEF Frame
  <2> QED
    BY <2>1 DEF FrameNumbers
<1>3. InOrderOf(inbox') /\ FirstOrBehind(inbox', Len(received'))
  BY DEF InvService, InvOrder, FramesOrdered, InOrderOf, NoneSkipped
<1>4. Waiting' = WaitingIn(inbox')
  BY <1>1 DEF Waiting, WaitingIn
<1> QED
  BY <1>1, <1>2, <1>3, <1>4, WaitingCounted DEF Served

\* The steps that take frames take one or two, and the last of their messages is
\* the last one served.
LEMMA TakeServes ==
  ASSUME TypeOK, InvService, NEW l \in 1 .. Len(inbox), inbox' = Drop(inbox, l)
  PROVE  /\ ServedOf(inbox', Len(received)) = inbox[l].msg
         /\ FirstOrBehind(inbox', Len(received))
<1>1. inbox \in Seq(Frame) /\ Len(inbox) \in Nat
  BY LenProperties DEF TypeOK
<1>2. /\ Len(inbox') = Len(inbox) - l
      /\ \A i \in 1 .. Len(inbox) - l : inbox'[i] = inbox[i + l]
  <2>1. l \in 0 .. Len(inbox)
    OBVIOUS
  <2> QED
    BY <1>1, <2>1, DropProperties
<1>3. /\ FrameNumbers(inbox, Len(received)) /\ InOrderOf(inbox)
      /\ FirstOrBehind(inbox, Len(received)) /\ Len(received) \in Nat
  BY ServedNow
<1>4. PICK in, rest : in = inbox /\ rest = inbox'
  OBVIOUS
<1>5. /\ ServedOf(rest, Len(received)) = in[l].msg
      /\ FirstOrBehind(rest, Len(received))
  BY <1>1, <1>2, <1>3, <1>4, TakenServed, SMTT(30)
<1> QED
  BY <1>4, <1>5

\* The frame after a topic that goes on is the second one of the same message.
LEMMA SecondFrame ==
  ASSUME TypeOK, InvService, inbox # <<>>, inbox[1].more
  PROVE  /\ Len(inbox) >= 2
         /\ inbox[1].pos = 1 /\ inbox[2].pos = 2
         /\ inbox[2].msg = inbox[1].msg
<1>1. inbox \in Seq(Frame) /\ Len(inbox) \in Nat
  BY LenProperties DEF TypeOK
<1>2. inbox[1].pos = 1
  BY DEF InvService, InvSync, HeadIsTopic
<1>3. Len(inbox) # 0 /\ Len(inbox) # 1
  BY <1>1, EmptySeq DEF InvService, InvSync, FramesChained
<1>4. Len(inbox) >= 2 /\ 1 \in 1 .. Len(inbox) - 1
  <2>1. \A l \in Nat : l # 0 /\ l # 1 => l >= 2 /\ 1 \in 1 .. l - 1
    OBVIOUS
  <2> QED
    BY <1>1, <1>3, <2>1, Zenon
<1>5. inbox[2].pos = 2
  <2>1. inbox[1 + 1].pos = inbox[1].pos + 1
    BY <1>4 DEF InvService, InvSync, FramesChained
  <2> QED
    BY <1>2, <2>1
<1>6. inbox[2].msg = inbox[1].msg
  <2>1. 1 \in 1 .. Len(inbox) /\ 2 \in 1 .. Len(inbox)
    BY <1>4
  <2>2. /\ inbox[1].msg \in 1 .. Len(received) /\ inbox[2].msg \in 1 .. Len(received)
        /\ Len(received) \in Nat
    BY <2>1, ServedNow DEF FrameNumbers
  <2>3. inbox[1].msg < inbox[2].msg \/ inbox[1].msg = inbox[2].msg
    BY <2>1, ServedNow DEF InOrderOf
  <2>4. PICK k : k = inbox[2].msg
    OBVIOUS
  <2>5. ASSUME inbox[1].msg < k PROVE FALSE
    <3>1. ~(k < inbox[1].msg \/ (k = inbox[1].msg /\ 1 < inbox[1].pos))
      BY <2>2, <2>4, <2>5
    <3>2. PICK i \in 1 .. Len(inbox) : inbox[i].msg = k /\ inbox[i].pos = 1
      BY <2>1, <2>2, <2>4, <3>1, ServedNow DEF FirstOrBehind
    <3>3. i # 1 /\ i # 2
      BY <1>5, <2>2, <2>4, <2>5, <3>2
    <3>4. 2 < i
      BY <3>3
    <3>5. \/ inbox[2].msg < inbox[i].msg
          \/ inbox[2].msg = inbox[i].msg /\ inbox[2].pos < inbox[i].pos
      BY <2>1, <3>4, ServedNow DEF InOrderOf
    <3> QED
      BY <1>5, <2>2, <2>4, <3>2, <3>5
  <2> QED
    BY <2>3, <2>4, <2>5
<1> QED
  BY <1>2, <1>4, <1>5, <1>6

------------------------------------------------------------------------------
\* A delivery leaves what is served as it is.
LEMMA DeliverServes ==
  ASSUME TypeOK, InvService, NEW m \in Messages, Deliver(m)
  PROVE  /\ NoneSkipped' /\ FramesEnd'
         /\ ServedOf(inbox', Len(received')) = ServedOf(inbox, Len(received))
<1> DEFINE L == Len(inbox)
           n == Len(received)
           k == n + 1
<1>1. /\ k \in Nat /\ Len(received') = k
      /\ DOMAIN received = 1 .. n
      /\ \A j \in DOMAIN received : received'[j] = received[j]
      /\ received'[k] = m
      /\ m.parts \in 1 .. MaxFrames
      /\ Len(inbox') = L + m.parts
      /\ \A i \in 1 .. L : inbox'[i] = inbox[i]
      /\ \A p \in 1 .. m.parts : /\ inbox'[L + p].msg = k
                                 /\ inbox'[L + p].pos = p
                                 /\ inbox'[L + p].more = (p < m.parts)
  <2>1. received \in Seq(Messages) /\ received' = Append(received, m)
    BY DEF Deliver, TypeOK
  <2>2. Len(received') = n + 1 /\ DOMAIN received = 1 .. n
    BY <2>1, AppendProperties, LenProperties
  <2> QED
    BY <2>2, DeliverProperties
<1>2. /\ n \in Nat /\ L \in Nat /\ m.parts \in Nat /\ 1 \in 1 .. m.parts
      /\ FrameNumbers(inbox, n) /\ FirstOrBehind(inbox, n)
  BY <1>1, ServedNow, BoundsAssumption
<1> HIDE DEF L, n, k
<1>3. \A i \in 1 .. Len(inbox') : i \in 1 .. L \/ \E p \in 1 .. m.parts : i = L + p
  <2>1. ASSUME NEW i \in 1 .. Len(inbox'), i \notin 1 .. L
        PROVE  i - L \in 1 .. m.parts /\ i = L + (i - L)
    BY <1>1, <1>2, <2>1
  <2> QED
    BY <2>1
<1>4. /\ \A i \in 1 .. L : i \in 1 .. Len(inbox')
      /\ \A p \in 1 .. m.parts : L + p \in 1 .. Len(inbox')
  BY <1>1, <1>2
<1>5. \A i \in 1 .. L : inbox[i].msg \in 1 .. n /\ inbox[i].pos \in Nat \ {0}
  BY <1>2 DEF FrameNumbers, L
<1>6. NoneSkipped'
  <2>1. ASSUME NEW j \in 1 .. k
        PROVE  \/ \E i \in 1 .. Len(inbox') : inbox'[i].msg = j /\ inbox'[i].pos = 1
               \/ \A i \in 1 .. Len(inbox') : \/ j < inbox'[i].msg
                                              \/ j = inbox'[i].msg /\ 1 < inbox'[i].pos
    <3>1. CASE j = k
      BY <1>1, <1>2, <1>4, <3>1
    <3>2. CASE j # k
      <4>1. j \in 1 .. n /\ j < k
        BY <1>2, <3>2 DEF k
      <4>2. CASE \E i \in 1 .. L : inbox[i].msg = j /\ inbox[i].pos = 1
        BY <1>1, <1>4, <4>2
      <4>3. CASE \A i \in 1 .. L : \/ j < inbox[i].msg
                                   \/ j = inbox[i].msg /\ 1 < inbox[i].pos
        BY <1>1, <1>3, <4>1, <4>3
      <4> QED
        BY <1>2, <4>1, <4>2, <4>3 DEF FirstOrBehind, L
    <3> QED
      BY <3>1, <3>2
  <2> QED
    BY <1>1, <2>1 DEF NoneSkipped, FirstOrBehind
<1>7. FramesEnd'
  <2>1. ASSUME NEW i \in 1 .. Len(inbox'), ~inbox'[i].more
        PROVE  received'[inbox'[i].msg].parts <= inbox'[i].pos
    <3>1. CASE i \in 1 .. L
      <4>1. inbox'[i] = inbox[i] /\ received'[inbox[i].msg] = received[inbox[i].msg]
        BY <1>1, <1>5, <3>1
      <4>2. received[inbox[i].msg].parts <= inbox[i].pos
        BY <2>1, <3>1, <4>1 DEF InvService, FramesEnd, L
      <4> QED
        BY <4>1, <4>2
    <3>2. CASE \E p \in 1 .. m.parts : i = L + p
      <4>1. PICK p \in 1 .. m.parts : i = L + p
        BY <3>2
      <4>2. /\ inbox'[i].msg = k /\ inbox'[i].pos = p
            /\ inbox'[i].more = (p < m.parts)
        BY <1>1, <4>1
      <4>3. ~(p < m.parts)
        BY <2>1, <4>2, Zenon
      <4>4. p = m.parts
        BY <1>2, <4>3
      <4> QED
        BY <1>1, <1>2, <4>2, <4>4
    <3> QED
      BY <1>3, <3>1, <3>2
  <2> QED
    BY <2>1 DEF FramesEnd
<1>8. ServedOf(inbox', k) = ServedOf(inbox, n)
  <2>1. CASE L = 0
    <3>1. L + 1 = 1 /\ Len(inbox') # 0
      BY <1>1, <1>2, <2>1
    <3>2. inbox'[1].msg = k /\ inbox'[1].pos = 1
      BY <1>1, <1>2, <3>1
    <3> QED
      BY <1>2, <2>1, <3>1, <3>2 DEF ServedOf, L, k
  <2>2. CASE L # 0
    <3>1. Len(inbox') # 0 /\ 1 \in 1 .. L
      BY <1>1, <1>2, <2>2
    <3>2. inbox'[1] = inbox[1]
      BY <1>1, <3>1
    <3> QED
      BY <2>2, <3>1, <3>2 DEF ServedOf, L
  <2> QED
    BY <2>1, <2>2
<1> QED
  BY <1>1, <1>6, <1>7, <1>8 DEF n

\* Frames that are taken leave the ends of their messages as they are.
LEMMA DropEnds ==
  ASSUME TypeOK, FramesEnd, NEW l \in 1 .. Len(inbox), inbox' = Drop(inbox, l),
         received' = received
  PROVE  FramesEnd'
<1>1. inbox \in Seq(Frame) /\ Len(inbox) \in Nat /\ l \in 0 .. Len(inbox)
  BY LenProperties DEF TypeOK
<1>2. /\ Len(inbox') = Len(inbox) - l
      /\ \A i \in 1 .. Len(inbox) - l : inbox'[i] = inbox[i + l]
  BY <1>1, DropProperties
<1>3. \A i \in 1 .. Len(inbox) - l : i + l \in 1 .. Len(inbox)
  BY <1>1
<1> QED
  BY <1>2, <1>3 DEF FramesEnd

\* A step of rpc_handle_req that takes frames takes one, or a topic and its payload.
LEMMA TakesFrames ==
  ASSUME TypeOK, SkipSinglePart \/ RecvBodyFails \/ HandleRequest
  PROVE  \E l \in 1 .. Len(inbox) : inbox' = Drop(inbox, l)
<1>1. inbox \in Seq(Frame) /\ Len(inbox) \in Nat
  BY LenProperties DEF TypeOK
<1>2. \A l \in Nat : (l # 0 => 1 \in 1 .. l) /\ (l >= 2 => 2 \in 1 .. l)
  OBVIOUS
<1>3. CASE SkipSinglePart \/ RecvBodyFails
  <2>1. Len(inbox) # 0 /\ inbox' = Drop(inbox, 1)
    BY <1>1, <1>3, EmptySeq DEF SkipSinglePart, RecvBodyFails, Readable
  <2> QED
    BY <1>1, <1>2, <2>1
<1>4. CASE HandleRequest
  BY <1>1, <1>2, <1>4 DEF HandleRequest
<1> QED
  BY <1>3, <1>4

LEMMA InitService == Init => InvService
  BY DEF Init, InvService, InvSync, FramesChained, HeadIsTopic, FramesOfMessages,
         InvOrder, FramesOrdered, AnsweredIsBehind, RepliesInOrder,
         InvTopic, FramesCarryPayload, ReplyOnOwnTopic,
         NoneSkipped, FirstOrBehind, FramesEnd, AllRegistered

LEMMA NextService == FewFrames /\ TypeOK /\ InvService /\ [Next]_vars => InvService'
<1> SUFFICES ASSUME FewFrames, TypeOK, InvService, [Next]_vars
             PROVE  InvService'
  OBVIOUS
<1>1. InvSync' /\ InvOrder' /\ InvTopic'
  BY NextSync, NextOrder, NextTopic DEF InvService
<1>2. AllRegistered'
  BY DEF InvService, AllRegistered, Next, vars, rpc_register_method,
         rpc_server_start, Deliver, rpc_handle_req, RecvTopicFails, SkipSinglePart,
         RecvBodyFails, HandleRequest
<1>3. NoneSkipped' /\ FramesEnd'
  <2>1. ASSUME inbox' = inbox, received' = received
        PROVE  NoneSkipped' /\ FramesEnd'
    BY <2>1 DEF InvService, NoneSkipped, FramesEnd, FirstOrBehind
  <2>2. CASE \E m \in Messages : Deliver(m)
    BY <2>2, DeliverServes
  <2>3. CASE SkipSinglePart \/ RecvBodyFails \/ HandleRequest
    <3>1. PICK l \in 1 .. Len(inbox) : inbox' = Drop(inbox, l)
      BY <2>3, TakesFrames
    <3>2. received' = received
      BY <2>3 DEF SkipSinglePart, RecvBodyFails, HandleRequest
    <3>3. FirstOrBehind(inbox', Len(received'))
      BY <3>1, <3>2, TakeServes
    <3>4. FramesEnd'
      BY <3>1, <3>2, DropEnds DEF InvService
    <3> QED
      BY <3>3, <3>4 DEF NoneSkipped
  <2> QED
    BY <2>1, <2>2, <2>3 DEF Next, vars, rpc_register_method, rpc_server_start,
       rpc_handle_req, RecvTopicFails
<1> QED
  BY <1>1, <1>2, <1>3 DEF InvService

------------------------------------------------------------------------------
(* The four ways through rpc_handle_req, as steps of the abstract service.   *)

LEMMA OneOfSeq ==
  ASSUME NEW S, NEW s \in Seq(S), NEW l \in 1 .. Len(s)
  PROVE  SubSeq(s, l, l) = <<s[l]>>
<1> DEFINE sub == SubSeq(s, l, l)
<1>1. l \in Int /\ \A i \in l .. l : s[i] \in S
  <2>1. \A i \in l .. l : i = l
    OBVIOUS
  <2> QED
    BY <2>1, ElementOfSeq
<1>2. l <= l /\ l - l + 1 = 1 /\ 1 \in 1 .. 1 /\ l + 1 - 1 = l
  OBVIOUS
<1>3. /\ sub \in Seq(S)
      /\ Len(sub) = IF l <= l THEN l - l + 1 ELSE 0
      /\ \A i \in 1 .. l - l + 1 : sub[i] = s[l + i - 1]
  BY <1>1, SubSeqProperties
<1> HIDE DEF sub
<1>4. Len(sub) = 1 /\ sub[1] = s[l]
  BY <1>2, <1>3
<1>5. PICK e : e = s[l]
  OBVIOUS
<1>6. sub \in Seq(S) /\ <<e>> \in Seq(S) /\ Len(<<e>>) = 1 /\ <<e>>[1] = e
  BY <1>3, <1>5, ElementOfSeq
<1>7. Len(sub) = Len(<<e>>) /\ \A i \in 1 .. Len(sub) : sub[i] = <<e>>[i]
  BY <1>4, <1>5, <1>6
<1>8. sub = <<e>>
  BY <1>6, <1>7, SeqEqual
<1> QED
  BY <1>5, <1>8 DEF sub

\* The abstract service takes its contract from the same module.
LEMMA SameContract ==
  \A methods, payload, answer :
    Allowed(methods, payload, answer) <=> Service!Allowed(methods, payload, answer)
<1>1. /\ Service!CSTR_SIZE = CSTR_SIZE /\ Service!NODE_POOL = NODE_POOL
      /\ Service!EmptyText = EmptyText
      /\ \A map : Service!PairsWithKey(map, "request_id") = PairsWithKey(map, "request_id")
      /\ \A text, len : Service!Topic(text, len) = Topic(text, len)
      /\ \A topic, status, cause, args :
           Service!Reply(topic, status, cause, args) = Reply(topic, status, cause, args)
  BY DEF CSTR_SIZE, NODE_POOL, EmptyText, PairsWithKey, Topic, Reply,
         Service!CSTR_SIZE, Service!NODE_POOL, Service!EmptyText,
         Service!PairsWithKey, Service!Topic, Service!Reply
<1>2. /\ \A node : Service!ProperString(node) <=> ProperString(node)
      /\ \A payload : Service!Parses(payload) <=> Parses(payload)
      /\ \A payload : Service!RequestId(payload) = RequestId(payload)
  <2>1. \A node : Service!ProperString(node) <=> ProperString(node)
    BY <1>1 DEF ProperString, Service!ProperString
  <2>2. \A payload : Service!Parses(payload) <=> Parses(payload)
    BY <1>1 DEF Parses, Service!Parses
  <2>3. ASSUME NEW payload
        PROVE  Service!RequestId(payload) = RequestId(payload)
    BY DEF RequestId, PairsWithKey, Service!RequestId, Service!PairsWithKey
  <2> QED
    BY <2>1, <2>2, <2>3
<1>3. \A payload : Service!NamesId(payload) <=> NamesId(payload)
  BY <1>1, <1>2 DEF NamesId, Service!NamesId
<1>4. \A payload : /\ Service!WellFormed(payload) <=> WellFormed(payload)
                   /\ Service!OwnTopic(payload) = OwnTopic(payload)
  BY <1>1, <1>2, <1>3 DEF WellFormed, HasProperId, OwnTopic,
     Service!WellFormed, Service!HasProperId, Service!OwnTopic
<1>5. \A payload : /\ Service!Function(payload) = Function(payload)
                   /\ Service!Params(payload) = Params(payload)
  BY DEF Function, Params, Service!Function, Service!Params
<1>6. \A params : Service!TwoDoubles(params) <=> TwoDoubles(params)
  BY DEF TwoDoubles, Service!TwoDoubles
<1>7. \A methods, payload : Service!AnswerTo(methods, payload) = AnswerTo(methods, payload)
  BY <1>1, <1>4, <1>5, <1>6 DEF AnswerTo, Service!AnswerTo
<1> QED
  BY <1>4, <1>7 DEF Allowed, Service!Allowed

LEMMA SkipIsSkip ==
  ASSUME TypeOK, InvService, TypeOK', InvService', SkipSinglePart
  PROVE  [Service!Next]_Service!vars
<1> DEFINE n == Len(received)
           k == inbox[1].msg
<1>1. /\ inbox # <<>> /\ ~inbox[1].more /\ inbox' = Drop(inbox, 1)
      /\ received' = received /\ published' = published
      /\ recvFailures' = recvFailures
  BY DEF SkipSinglePart, Readable, TopicFrame
<1>2. /\ n \in Nat /\ 1 \in 1 .. Len(inbox) /\ Len(inbox) # 0
      /\ inbox \in Seq(Frame)
  BY <1>1, ServedNow, EmptySeq DEF TypeOK
<1>3. k \in 1 .. n /\ inbox[1].pos \in Nat \ {0}
  BY <1>2, ServedNow DEF FrameNumbers
<1>4. Served' = k
  BY <1>1, <1>2, ServedNext, TakeServes
<1>5. Served = IF inbox[1].pos = 1 THEN k - 1 ELSE k
  BY <1>2, ServedNow DEF ServedOf
<1>6. CASE inbox[1].pos # 1
  <2>1. Served' = Served
    BY <1>4, <1>5, <1>6
  <2> QED
    BY <1>1, <2>1 DEF Served, Service!vars
<1>7. CASE inbox[1].pos = 1
  <2>1. received[k].parts <= 1
    BY <1>1, <1>2, <1>7 DEF InvService, FramesEnd
  <2>2. received[k] \in Messages
    BY <1>3, LenProperties DEF TypeOK
  <2>3. received[k].parts = 1
    BY <2>1, <2>2, BoundsAssumption DEF Messages
  <2>4. Served < n /\ Served + 1 = k /\ Served' = Served + 1
    BY <1>3, <1>4, <1>5, <1>7
  <2>5. Service!SkipSinglePart
    BY <1>1, <2>3, <2>4 DEF Served, Service!SkipSinglePart
  <2> QED
    BY <2>5 DEF Service!Next
<1> QED
  BY <1>6, <1>7

LEMMA RecvBodyFailsIsFault ==
  ASSUME TypeOK, InvService, TypeOK', InvService', RecvBodyFails
  PROVE  [Service!Next]_Service!vars
<1> DEFINE n == Len(received)
           k == inbox[1].msg
<1>1. /\ inbox # <<>> /\ inbox[1].more /\ inbox' = Drop(inbox, 1)
      /\ received' = received /\ published' = published
      /\ recvFailures' = recvFailures + 1
  BY DEF RecvBodyFails, Readable, TopicFrame
<1>2. /\ n \in Nat /\ 1 \in 1 .. Len(inbox) /\ Len(inbox) # 0
      /\ inbox \in Seq(Frame)
  BY <1>1, ServedNow, EmptySeq DEF TypeOK
<1>3. k \in 1 .. n /\ inbox[1].pos = 1
  BY <1>1, <1>2, ServedNow, SecondFrame DEF FrameNumbers
<1>4. Served' = k
  BY <1>1, <1>2, ServedNext, TakeServes
<1>5. Served = k - 1
  BY <1>2, <1>3, ServedNow DEF ServedOf
<1>6. Served' \in {Served, Served + 1} \cap 0 .. n
  BY <1>3, <1>4, <1>5
<1>7. Service!Fault
  BY <1>1, <1>6 DEF Served, Service!Fault
<1> QED
  BY <1>7 DEF Service!Next

LEMMA RecvTopicFailsIsFault ==
  ASSUME TypeOK, InvService, RecvTopicFails
  PROVE  [Service!Next]_Service!vars
<1>1. /\ inbox' = inbox /\ received' = received /\ published' = published
      /\ recvFailures' = recvFailures + 1
  BY DEF RecvTopicFails
<1>2. Served' = Served
  BY <1>1 DEF Served, Waiting
<1>3. Served' \in {Served, Served + 1} \cap 0 .. Len(received)
  BY <1>2, ServedNow
<1>4. Service!Fault
  BY <1>1, <1>3 DEF Served, Service!Fault
<1> QED
  BY <1>4 DEF Service!Next

LEMMA DeliverIsAsk ==
  ASSUME TypeOK, InvService, TypeOK', InvService',
         NEW m \in Messages, Deliver(m)
  PROVE  [Service!Next]_Service!vars
<1>1. /\ received' = Append(received, m) /\ published' = published
      /\ recvFailures' = recvFailures
  BY DEF Deliver
<1>2. Served' = Served
  BY DeliverServes, ServedNow, ServedNext
<1>3. Service!Ask
  BY <1>1, <1>2 DEF Served, Service!Ask
<1> QED
  BY <1>3 DEF Service!Next

LEMMA HandleIsServe ==
  ASSUME TypeOK, InvService, TypeOK', InvService', HandleRequest
  PROVE  [Service!Next]_Service!vars
<1> DEFINE n == Len(received)
           k == inbox[1].msg
           payload == received[k].payload
           answer == rpc_msg_handler(Methods, payload)
           new == SubSeq(published', Len(published) + 1, Len(published'))
<1>1. /\ started /\ inbox # <<>> /\ inbox[1].more /\ inbox' = Drop(inbox, 2)
      /\ received' = received /\ recvFailures' = recvFailures
      /\ PublishReplies
  BY DEF HandleRequest, Readable, TopicFrame
<1>2. /\ n \in Nat /\ 1 \in 1 .. Len(inbox) /\ 2 \in 1 .. Len(inbox)
      /\ Len(inbox) # 0 /\ Len(inbox) \in Nat
      /\ inbox[1].pos = 1 /\ inbox[2].msg = k
  BY <1>1, ServedNow, SecondFrame
<1>3. k \in 1 .. n
  BY <1>2, ServedNow DEF FrameNumbers
<1>4. Served' = k
  BY <1>1, <1>2, ServedNext, TakeServes
<1>5. Served = k - 1
  BY <1>2, <1>3, ServedNow DEF ServedOf
<1>6. received[k] \in Messages /\ payload \in Payloads
  <2>1. received[k] \in Messages
    BY <1>3, LenProperties DEF TypeOK
  <2> QED
    BY <2>1 DEF Messages
<1>7. received[k].parts > 1
  <2>1. 1 < received[k].parts
    BY <1>1, <1>2 DEF InvService, InvSync, FramesOfMessages
  <2> QED
    BY <1>6, <2>1, BoundsAssumption DEF Messages
<1>8. BodyFrame.msg = k /\ BodyFrame.body = payload /\ registry = Methods
  BY <1>1, <1>2 DEF BodyFrame, InvService, InvTopic, FramesCarryPayload, AllRegistered
<1>9. Allowed(Methods, payload, answer)
  BY <1>6, PayloadsAssumption, HandlerKeepsContract
<1>10. \/ answer = <<>> /\ published' = published
       \/ \E reply \in HandlerReplies :
            /\ answer = <<reply>>
            /\ published' = Append(published, [msg |-> k, reply |-> reply])
  <2>1. BodyFrame \in Frame
    BY <1>2, ElementOfSeq DEF TypeOK, BodyFrame
  <2> QED
    BY <1>1, <1>8, <2>1, PublishProperties DEF TypeOK
<1>11. /\ published' = published \o new
       /\ \A i \in DOMAIN new : new[i].msg = k
       /\ [i \in DOMAIN new |-> new[i].reply] = answer
  <2> DEFINE Published == [msg : Nat, reply : HandlerReplies]
  <2>1. published \in Seq(Published) /\ Len(published) \in Nat
    BY LenProperties DEF TypeOK
  <2>2. CASE answer = <<>> /\ published' = published
    <3>1. new = <<>>
      BY <2>1, <2>2, SubSeqProperties
    <3> QED
      BY <2>1, <2>2, <3>1, ConcatEmptySeq
  <2>3. ASSUME NEW reply \in HandlerReplies, answer = <<reply>>,
               published' = Append(published, [msg |-> k, reply |-> reply])
        PROVE  /\ published' = published \o new
               /\ \A i \in DOMAIN new : new[i].msg = k
               /\ [i \in DOMAIN new |-> new[i].reply] = answer
    <3>1. PICK a : a = [msg |-> k, reply |-> reply]
      OBVIOUS
    <3>2. a \in Published /\ a.msg = k /\ a.reply = reply
      BY <1>3, <3>1
    <3>3. /\ published' \in Seq(Published) /\ Len(published') = Len(published) + 1
          /\ published'[Len(published) + 1] = a
      BY <2>1, <2>3, <3>1, <3>2, AppendProperties
    <3>4. new = <<a>>
      <4>1. Len(published) + 1 \in 1 .. Len(published')
        BY <2>1, <3>3
      <4>2. SubSeq(published', Len(published) + 1, Len(published) + 1)
              = <<published'[Len(published) + 1]>>
        BY <3>3, <4>1, OneOfSeq
      <4> QED
        BY <3>3, <4>2
    <3>5. published' = published \o <<a>>
      BY <2>1, <2>3, <3>1, <3>2, AppendIsConcat
    <3> HIDE DEF new
    <3> QED
      BY <2>3, <3>2, <3>4, <3>5
  <2> QED
    BY <1>10, <2>2, <2>3
<1>12. Served < n /\ Served + 1 = k /\ Served' = Served + 1
  BY <1>3, <1>4, <1>5
<1> HIDE DEF answer
<1>13. Service!Serve
  BY <1>1, <1>7, <1>9, <1>11, <1>12, SameContract
     DEF Served, Service!Serve, Service!NewAnswers
<1> QED
  BY <1>13 DEF Service!Next

LEMMA NextIsService ==
  TypeOK /\ InvService /\ TypeOK' /\ InvService' /\ [Next]_vars
    => [Service!Next]_Service!vars
<1> SUFFICES ASSUME TypeOK, InvService, TypeOK', InvService', [Next]_vars
             PROVE  [Service!Next]_Service!vars
  OBVIOUS
<1>1. ASSUME UNCHANGED <<received, inbox, published, recvFailures>>
      PROVE  [Service!Next]_Service!vars
  BY <1>1 DEF Service!vars, Waiting
<1>2. CASE \E m \in Messages : Deliver(m)
  BY <1>2, DeliverIsAsk
<1>3. CASE rpc_handle_req
  BY <1>3, RecvTopicFailsIsFault, SkipIsSkip, RecvBodyFailsIsFault, HandleIsServe
     DEF rpc_handle_req
<1> QED
  BY <1>1, <1>2, <1>3 DEF Next, vars, rpc_register_method, rpc_server_start

(* The server serves the messages one at a time in the order they came, with the
   answers the contract allows: it implements the abstract service, for any
   payloads and any number of messages, while it stays in step with them.    *)
THEOREM ServiceImplemented == ASSUME FewFrames PROVE Spec => ImplementsService
<1>1. Init /\ TypeOK /\ InvService => Service!Init
  <2> SUFFICES ASSUME Init, TypeOK, InvService PROVE Service!Init
    OBVIOUS
  <2>1. /\ received = <<>> /\ published = <<>> /\ recvFailures = 0
    BY DEF Init
  <2>2. Served \in 0 .. Len(received) /\ Len(received) = 0
    BY <2>1, ServedNow
  <2>3. Served = 0
    BY <2>2
  <2> QED
    BY <2>1, <2>3 DEF Served, Service!Init
<1>2. TypeOK /\ InvService /\ [Next]_vars => InvService'
  BY NextService
<1> QED
  BY <1>1, <1>2, InitType, NextType, InitService, NextIsService, PTL
     DEF Spec, ImplementsService, Service!Spec

------------------------------------------------------------------------------
(* The calls that are behind without an answer: each step of the abstract service
   adds none to them but a fault, which adds at most one.                    *)

Lost == {k \in 1 .. Served : Call(k) /\ ~Answered(k)}

FewLost == Cardinality(Lost) <= recvFailures

\* What is published stays.
LEMMA NextKeepsPublished ==
  ASSUME TypeOK, [Next]_vars
  PROVE  \A i \in DOMAIN published : /\ i \in DOMAIN published'
                                     /\ published'[i] = published[i]
<1> DEFINE Published == [msg : Nat, reply : HandlerReplies]
<1>1. published \in Seq(Published)
  BY DEF TypeOK
<1>2. published' = published \/ \E a \in Published : published' = Append(published, a)
  <2>1. CASE rpc_handle_req
    <3>1. \/ published' = published
          \/ /\ Len(inbox) >= 2
             /\ \E reply \in HandlerReplies :
                  published' = Append(published, [msg |-> inbox[2].msg, reply |-> reply])
      BY <2>1, HandleProperties
    <3>2. Len(inbox) >= 2 => inbox[2].msg \in Nat
      BY ElementOfSeq, LenProperties DEF TypeOK, Frame
    <3> QED
      BY <3>1, <3>2
  <2> QED
    BY <2>1 DEF Next, vars, rpc_register_method, rpc_server_start, Deliver
<1>3. ASSUME NEW a \in Published, published' = Append(published, a)
      PROVE  \A i \in DOMAIN published : /\ i \in DOMAIN published'
                                         /\ published'[i] = published[i]
  <2>1. /\ DOMAIN published = 1 .. Len(published) /\ Len(published) \in Nat
        /\ published' \in Seq(Published) /\ Len(published') = Len(published) + 1
        /\ \A i \in 1 .. Len(published) : published'[i] = published[i]
    BY <1>1, <1>3, AppendProperties, LenProperties
  <2>2. DOMAIN published' = 1 .. Len(published')
    BY <2>1, LenProperties
  <2> QED
    BY <2>1, <2>2
<1> QED
  BY <1>2, <1>3

\* A call that is served is answered.
LEMMA ServedIsAnswered ==
  ASSUME TypeOK, TypeOK', Service!Serve, NEW k, k = Served + 1, Call(k)
  PROVE  Answered(k)'
<1> DEFINE payload == received[k].payload
           L == Len(published)
<1>1. PICK new : /\ new = SubSeq(published', L + 1, Len(published'))
                 /\ published' = published \o new
                 /\ \A i \in DOMAIN new : new[i].msg = k
                 /\ Allowed(Methods, payload, [i \in DOMAIN new |-> new[i].reply])
  BY SameContract DEF Service!Serve, Service!NewAnswers, Served
<1> DEFINE answer == [i \in DOMAIN new |-> new[i].reply]
<1>2. MustAnswer(Methods, payload)
  BY DEF Call, Calls
<1>3. answer # <<>>
  <2>1. answer = AnswerTo(Methods, payload)
    BY <1>1, <1>2 DEF Allowed, MustAnswer
  <2> QED
    BY <1>2, <2>1 DEF MustAnswer
<1>4. /\ new \in Seq([msg : Nat, reply : HandlerReplies])
      /\ published \in Seq([msg : Nat, reply : HandlerReplies])
      /\ L \in Nat
  <2>1. /\ published \in Seq([msg : Nat, reply : HandlerReplies])
        /\ published' \in Seq([msg : Nat, reply : HandlerReplies])
    BY DEF TypeOK
  <2>2. L \in Nat /\ Len(published') \in Nat
    BY <2>1, LenProperties
  <2>3. /\ L + 1 \in Int /\ Len(published') \in Int
        /\ \A i \in L + 1 .. Len(published') : i \in 1 .. Len(published')
    BY <2>2
  <2>4. \A i \in L + 1 .. Len(published') :
          published'[i] \in [msg : Nat, reply : HandlerReplies]
    BY <2>1, <2>3, ElementOfSeq
  <2> QED
    BY <1>1, <2>1, <2>2, <2>3, <2>4, SubSeqProperties
<1>5. new # <<>>
  BY <1>3
<1>6. Len(new) \in Nat /\ Len(new) # 0 /\ DOMAIN new = 1 .. Len(new)
  BY <1>4, <1>5, EmptySeq, LenProperties
<1>7. 1 \in DOMAIN new
  BY <1>6
<1>8. published'[L + 1].msg = k /\ L + 1 \in DOMAIN published'
  <2>1. /\ Len(published') = L + Len(new)
        /\ \A i \in 1 .. L + Len(new) :
             published'[i] = IF i <= L THEN published[i] ELSE new[i - L]
    <3>1. PICK all : all = published \o new
      OBVIOUS
    <3> HIDE DEF L
    <3>2. /\ Len(all) = L + Len(new)
          /\ \A i \in 1 .. L + Len(new) :
               all[i] = IF i <= L THEN published[i] ELSE new[i - L]
      BY <1>4, <3>1, ConcatProperties DEF L
    <3> QED
      BY <1>1, <3>1, <3>2
  <2>2. L + 1 \in 1 .. L + Len(new) /\ ~(L + 1 <= L) /\ (L + 1) - L = 1
    BY <1>4, <1>6
  <2>3. published'[L + 1] = new[1]
    BY <2>1, <2>2
  <2>4. DOMAIN published' = 1 .. L + Len(new)
    BY <2>1, LenProperties DEF TypeOK
  <2> QED
    BY <1>1, <1>7, <2>2, <2>3, <2>4
<1> QED
  BY <1>8 DEF Answered

LEMMA NextFewLost ==
  TypeOK /\ InvService /\ TypeOK' /\ InvService' /\ FewLost /\ [Next]_vars => FewLost'
<1> SUFFICES ASSUME TypeOK, InvService, TypeOK', InvService', FewLost, [Next]_vars
             PROVE  FewLost'
  OBVIOUS
<1>1. /\ Served \in 0 .. Len(received) /\ Len(received) \in Nat
      /\ DOMAIN received = 1 .. Len(received)
      /\ Served' \in 0 .. Len(received')
      /\ recvFailures \in Nat /\ recvFailures' \in Nat
  BY ServedNow, ServedNext, LenProperties, BoundsAssumption DEF TypeOK
<1>2. PICK s : s = Served
  OBVIOUS
<1>3. PICK lost : lost = Lost
  OBVIOUS
<1>4. /\ s \in Nat /\ s \in 0 .. Len(received)
      /\ lost = {k \in 1 .. s : Call(k) /\ ~Answered(k)}
      /\ Lost' = {k \in 1 .. Served' : Call(k)' /\ ~Answered(k)'}
  BY <1>1, <1>2, <1>3 DEF Lost
<1>5. IsFiniteSet(lost) /\ Cardinality(lost) \in Nat /\ Cardinality(lost) <= recvFailures
  <2>1. IsFiniteSet(1 .. s) /\ lost \in SUBSET (1 .. s)
    BY <1>4, FS_Interval
  <2>2. IsFiniteSet(lost)
    BY <2>1, FS_Subset
  <2> QED
    BY <1>3, <2>2, FS_CardinalityType DEF FewLost
<1>6. ASSUME Lost' \subseteq lost, recvFailures' >= recvFailures
      PROVE  FewLost'
  <2>1. IsFiniteSet(Lost') /\ Cardinality(Lost') <= Cardinality(lost)
    BY <1>5, <1>6, FS_Subset
  <2>2. Cardinality(Lost') \in Nat
    BY <2>1, FS_CardinalityType
  <2> QED
    BY <1>1, <1>5, <1>6, <2>1, <2>2 DEF FewLost
\* What was lost before is all that is lost among those served before.
<1>7. ASSUME \A k \in 1 .. s : received'[k] = received[k],
             \A i \in DOMAIN published : /\ i \in DOMAIN published'
                                         /\ published'[i] = published[i],
             NEW k \in 1 .. s, k \in Lost'
      PROVE  k \in lost
  <2>1. Call(k)' /\ ~Answered(k)'
    BY <1>4, <1>7
  <2>2. k \in DOMAIN received /\ received'[k] = received[k]
    BY <1>1, <1>4, <1>7
  <2>3. Call(k)
    BY <2>1, <2>2 DEF Call, Calls
  <2>4. ~Answered(k)
    BY <1>7, <2>1 DEF Answered
  <2> QED
    BY <1>4, <2>3, <2>4
<1>8. CASE UNCHANGED Service!vars
  <2>1. Served' = s /\ received' = received /\ published' = published
        /\ recvFailures' = recvFailures
    BY <1>2, <1>8 DEF Service!vars, Served
  <2>2. Lost' \subseteq lost
    BY <1>4, <1>7, <2>1
  <2> QED
    BY <1>1, <1>6, <2>1, <2>2
<1>9. CASE Service!Ask
  <2>1. /\ Served' = s /\ published' = published /\ recvFailures' = recvFailures
        /\ \E m \in Messages : received' = Append(received, m)
    BY <1>2, <1>9 DEF Service!Ask, Served
  <2>2. \A k \in 1 .. s : received'[k] = received[k]
    <3>1. received \in Seq(Messages)
      BY DEF TypeOK
    <3>2. \A k \in 1 .. Len(received) : received'[k] = received[k]
      BY <2>1, <3>1, AppendProperties
    <3> QED
      BY <1>4, <3>2
  <2>3. Lost' \subseteq lost
    BY <1>4, <1>7, <2>1, <2>2
  <2> QED
    BY <1>1, <1>6, <2>1, <2>3
<1>10. CASE Service!Serve
  <2>1. /\ Served' = s + 1 /\ received' = received /\ recvFailures' = recvFailures
        /\ published' = published \o Service!NewAnswers
    BY <1>2, <1>10 DEF Service!Serve, Served
  <2>2. \A i \in DOMAIN published : /\ i \in DOMAIN published'
                                    /\ published'[i] = published[i]
    BY NextKeepsPublished
  <2>3. s + 1 \notin Lost'
    <3>1. ASSUME Call(s + 1) PROVE Answered(s + 1)'
      BY <1>2, <1>10, <3>1, ServedIsAnswered
    <3>2. Call(s + 1)' <=> Call(s + 1)
      BY <2>1 DEF Call, Calls
    <3> QED
      BY <1>4, <3>1, <3>2
  <2>4. Lost' \subseteq lost
    <3>1. \A k \in 1 .. s + 1 : k \in 1 .. s \/ k = s + 1
      BY <1>4
    <3> QED
      BY <1>4, <1>7, <2>1, <2>2, <2>3, <3>1
  <2> QED
    BY <1>1, <1>6, <2>1, <2>4
<1>11. CASE Service!SkipSinglePart
  <2>1. /\ Served' = s + 1 /\ received' = received /\ recvFailures' = recvFailures
        /\ published' = published /\ received[s + 1].parts = 1
    BY <1>2, <1>11 DEF Service!SkipSinglePart, Served
  <2>2. s + 1 \notin Lost'
    BY <1>4, <2>1 DEF Call
  <2>3. Lost' \subseteq lost
    <3>1. \A k \in 1 .. s + 1 : k \in 1 .. s \/ k = s + 1
      BY <1>4
    <3> QED
      BY <1>4, <1>7, <2>1, <2>2, <3>1
  <2> QED
    BY <1>1, <1>6, <2>1, <2>3
<1>12. CASE Service!Fault
  <2>1. /\ Served' \in {s, s + 1} /\ received' = received
        /\ recvFailures' = recvFailures + 1
        /\ published' = published
    BY <1>2, <1>12 DEF Service!Fault, Served
  <2>2. Lost' \subseteq lost \cup {s + 1}
    <3>1. \A k \in 1 .. Served' : k \in 1 .. s \/ k = s + 1
      BY <1>4, <2>1
    <3> QED
      BY <1>4, <1>7, <2>1, <3>1
  <2>3. PICK more : more = lost \cup {s + 1}
    OBVIOUS
  <2>4. IsFiniteSet(more) /\ Cardinality(more) <= Cardinality(lost) + 1
    <3>1. /\ IsFiniteSet(more)
          /\ Cardinality(more) = IF s + 1 \in lost THEN Cardinality(lost)
                                 ELSE Cardinality(lost) + 1
      BY <1>5, <2>3, FS_AddElement
    <3> QED
      BY <1>5, <3>1
  <2>5. IsFiniteSet(Lost') /\ Cardinality(Lost') <= Cardinality(more)
    BY <2>2, <2>3, <2>4, FS_Subset
  <2>6. Cardinality(Lost') \in Nat /\ Cardinality(more) \in Nat
    BY <2>4, <2>5, FS_CardinalityType
  <2> QED
    BY <1>1, <1>5, <2>1, <2>4, <2>5, <2>6 DEF FewLost
<1> QED
  BY <1>8, <1>9, <1>10, <1>11, <1>12, NextIsService DEF Service!Next

(* Once the socket is drained every call has its reply, save at most one for each
   receive that failed: for any payloads and methods, and as many messages as
   come.                                                                     *)
THEOREM CallsSurvive == ASSUME FewFrames PROVE Spec => []OnlyFaultsLoseCalls
<1>1. Init /\ TypeOK /\ InvService => FewLost
  <2> SUFFICES ASSUME Init, TypeOK, InvService PROVE FewLost
    OBVIOUS
  <2>1. received = <<>> /\ recvFailures = 0
    BY DEF Init
  <2>2. Served \in 0 .. 0
    BY <2>1, ServedNow
  <2>3. Lost = {}
    BY <2>2 DEF Lost
  <2> QED
    BY <2>1, <2>3, FS_EmptySet DEF FewLost
<1>2. TypeOK /\ InvService /\ FewLost => OnlyFaultsLoseCalls
  <2> SUFFICES ASSUME TypeOK, InvService, FewLost, inbox = <<>>
               PROVE  Cardinality({k \in DOMAIN received : Call(k) /\ ~Answered(k)})
                        <= recvFailures
    BY DEF OnlyFaultsLoseCalls
  <2>1. Served = Len(received)
    BY ServedNow DEF ServedOf
  <2>2. DOMAIN received = 1 .. Len(received)
    BY LenProperties DEF TypeOK
  <2>3. {k \in DOMAIN received : Call(k) /\ ~Answered(k)} = Lost
    BY <2>1, <2>2 DEF Lost
  <2> QED
    BY <2>3 DEF FewLost
<1>3. TypeOK /\ InvService /\ [Next]_vars => InvService'
  BY NextService
<1> QED
  BY <1>1, <1>2, <1>3, InitType, NextType, InitService, NextFewLost, PTL DEF Spec
==============================================================================
