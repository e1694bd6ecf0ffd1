----------------------------- MODULE MCRpcServer -----------------------------
(***************************************************************************)
(* Instances of RpcServer for TLC: payloads that take every path through   *)
(* the handler, those a client of zmq_broker_req_sync2.py sends and those  *)
(* it never sends.                                                         *)
(***************************************************************************)
EXTENDS RpcServer

Payload(nodes, root) == [ok |-> TRUE, nodes |-> nodes, root |-> root]

Message(map, name, rest) == ArrayNode(<<map, name>> \o rest)
Request(map, name, params) == Payload(10, Message(map, name, <<params>>))

Id(id) == MapNode(<<StrNode("request_id", 10, FALSE), id>>)

Req1    == StrNode("REQ1", 4, FALSE)
Longest == StrNode("LONGEST", CSTR_SIZE - 1, FALSE)
TooLong == StrNode("TOOLONG", CSTR_SIZE, FALSE)
Overlong == StrNode("OVERLONG", CSTR_SIZE + 1, FALSE)
WithNul == StrNode("R-NUL-Q", 7, TRUE)
Empty   == StrNode("", 0, FALSE)

Add     == StrNode("add", 3, FALSE)
Sub     == StrNode("sub", 3, FALSE)

Double(text) == ScalarNode("double", text, 0)
Doubles == ArrayNode(<<Double("100.1"), Double("200.2")>>)
Ints    == ArrayNode(<<ScalarNode("uint", "1", 0), Double("200.2")>>)
Three   == ArrayNode(<<Double("1"), Double("2"), Double("3")>>)
Scalar(garbage) == ScalarNode("uint", "7", garbage)

\* Calls of the documented form.
GoodCall      == Request(Id(Req1), Add, Doubles)
LongestIdCall == Request(Id(Longest), Add, Doubles)
UnknownCall   == Request(Id(Req1), Sub, Doubles)
WrongTypes    == Request(Id(Req1), Add, Ints)
WrongCount    == Request(Id(Req1), Add, Three)
ParamsNoArray == Request(Id(Req1), Add, Scalar(0))

\* Messages that are not.
NoParams      == Payload(5, Message(Id(Req1), Add, <<>>))
NameNoString  == Request(Id(Req1), Scalar(3), Doubles)
NameTooLong   == Request(Id(Req1), TooLong, Doubles)
NoId          == Request(MapNode(<<>>), Add, Doubles)
TwoIds        == Request(MapNode(Id(Req1).kids \o Id(Req1).kids), Sub, Doubles)
EmptyId       == Request(Id(Empty), Sub, Doubles)
NulId         == Request(Id(WithNul), Sub, Doubles)
TooLongId     == Request(Id(TooLong), Sub, Doubles)
OverlongId    == Request(Id(Overlong), Sub, Doubles)
TooLongIdAdd  == Request(Id(TooLong), Add, Doubles)
\* The len of a number node is whatever the node pool held.
NumberId(garbage) == Request(Id(Scalar(garbage)), Sub, Doubles)
MapNoMap      == Request(Req1, Add, Doubles)
RootNoArray   == Payload(1, Req1)
Garbled       == [ok |-> FALSE, nodes |-> 1, root |-> NilNode]
TooManyNodes  == [GoodCall EXCEPT !.nodes = NODE_POOL + 1]

AllPayloads ==
  {GoodCall, LongestIdCall, UnknownCall, WrongTypes, WrongCount, ParamsNoArray,
   NoParams, NameNoString, NameTooLong, NoId, TwoIds, EmptyId, NulId, TooLongId,
   OverlongId, TooLongIdAdd, NumberId(0), NumberId(5), MapNoMap, RootNoArray,
   Garbled, TooManyNodes}

\* Calls with odd ids and with odd parameters.
OddCalls == {GoodCall, NulId, TooLongId, OverlongId, WrongTypes, WrongCount, ParamsNoArray}

AddOnly == {"add"}
==============================================================================
