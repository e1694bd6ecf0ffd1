----------------------------- MODULE MCRpcWorkers -----------------------------
(* Instances of RpcWorkers for TLC. *)
EXTENDS RpcWorkers

Payload(nodes, root) == [ok |-> TRUE, nodes |-> nodes, root |-> root]

Add     == StrNode("add", 3, FALSE)
Other   == StrNode("sub", 3, FALSE)
Double(text) == ScalarNode("double", text, 0)
Doubles == ArrayNode(<<Double("100.1"), Double("200.2")>>)
Ints    == ArrayNode(<<ScalarNode("int", "1", 0), ScalarNode("int", "2", 0)>>)

\* The request of the client in rpc_request_add.cpp, and frames it does not send.
GoodCall  == Payload(5, ArrayNode(<<Add, Doubles>>))
MapParams == Payload(7, ArrayNode(<<Add, MapNode(<<Other, Add, Add, Other>>)>>))
Ends      == Payload(6, ArrayNode(<<Add, Ints, Doubles>>))
NoParams  == Payload(2, ArrayNode(<<Add>>))
Unknown   == Payload(5, ArrayNode(<<Other, Doubles>>))
NoName    == Payload(5, ArrayNode(<<Doubles, Doubles>>))
TooManyNodes == [GoodCall EXCEPT !.nodes = POOL_NODES + 1]

AllPayloads == {GoodCall, MapParams, Ends, NoParams, Unknown, NoName, TooManyNodes}
==============================================================================
