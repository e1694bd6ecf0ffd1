----------------------------- MODULE RpcContract -----------------------------
(***************************************************************************)
(* What the RPC server promises for one payload, stated on the payload     *)
(* itself and not on the order in which the code reads it:                 *)
(*   msg: [{"request_id":id}, func_name, [params]]                         *)
(* (rpcserver/rpcserver.cpp:201).  RpcHandler is the code; RpcServerProofs *)
(* proves that the code gives these answers for every payload, and TLC     *)
(* checks it on the payloads of the runs.                                  *)
(***************************************************************************)
EXTENDS RpcHandler

(* A payload as the parser leaves it: the len of its nodes are unsigned numbers,
   those of the root, of its elements and of theirs, which the handler reads. *)
PayloadOK(payload) ==
  /\ payload.ok \in BOOLEAN
  /\ payload.nodes \in Nat
  /\ payload.root.len \in Nat
  /\ payload.root.type = "array" =>
       \A i \in 1 .. payload.root.len :
         LET node == payload.root.kids[i]
         IN  /\ node.len \in Nat
             /\ node.type = "map" =>
                  \A j \in 1 .. 2 * node.len : node.kids[j].len \in Nat

\* A string that fits the handler's buffers and survives the copy into them.
ProperString(node) == /\ node.type = "str"
                      /\ node.len < CSTR_SIZE
                      /\ ~node.nul

Parses(payload) == payload.ok /\ payload.nodes <= NODE_POOL

\* A message whose first element is a map with one request id, a string.
NamesId(payload) ==
  /\ Parses(payload)
  /\ payload.root.type = "array"
  /\ payload.root.len >= 1
  /\ LET map == payload.root.kids[1]
     IN  /\ map.type = "map"
         /\ \E i \in 1 .. map.len :
              /\ PairsWithKey(map, "request_id") = {i}
              /\ map.kids[2 * i].type = "str"
              /\ map.kids[2 * i].len > 0

RequestId(payload) ==
  LET map == payload.root.kids[1]
  IN  map.kids[2 * (CHOOSE i \in PairsWithKey(map, "request_id") : TRUE)]

HasProperId(payload) == NamesId(payload) /\ ProperString(RequestId(payload))

\* The topic the caller listens on for the answer.
OwnTopic(payload) == Topic(RequestId(payload).text, RequestId(payload).len)

\* A message of the documented form: a proper id, a proper name, parameters.
WellFormed(payload) == /\ HasProperId(payload)
                       /\ payload.root.len >= 3
                       /\ ProperString(payload.root.kids[2])

Function(payload) == payload.root.kids[2].text
Params(payload)   == payload.root.kids[3]

TwoDoubles(params) == /\ params.type = "array"
                      /\ params.len = 2
                      /\ params.kids[1].type = "double"
                      /\ params.kids[2].type = "double"

(* The one answer to a well-formed message.  A call of a registered method
   whose parameters are no array at all gets none: see AnsweredOnRequestId
   in RpcServer.                                                            *)
AnswerTo(methods, payload) ==
  CASE Function(payload) \notin methods ->
         <<Reply(OwnTopic(payload), "ERROR", "unsupported function", <<>>)>>
    [] Function(payload) \in methods /\ TwoDoubles(Params(payload)) ->
         <<Reply(OwnTopic(payload), "SUCCESS", EmptyText,
                 <<Params(payload).kids[1].text, Params(payload).kids[2].text>>)>>
    [] /\ Function(payload) \in methods
       /\ ~TwoDoubles(Params(payload))
       /\ Params(payload).type = "array" ->
         <<Reply(OwnTopic(payload), "ERROR", "invalid parameters.", <<>>)>>
    [] Function(payload) \in methods /\ Params(payload).type # "array" -> <<>>

(* The answers allowed for a payload: the one above when it is well formed;
   otherwise none, or a complaint about the function, never a result.        *)
Allowed(methods, payload, answer) ==
  IF WellFormed(payload)
  THEN answer = AnswerTo(methods, payload)
  ELSE answer = <<>> \/ ( /\ Len(answer) = 1
                          /\ answer[1].status = "ERROR"
                          /\ answer[1].cause = "unsupported function" )

\* A call that must be answered.
MustAnswer(methods, payload) ==
  WellFormed(payload) /\ AnswerTo(methods, payload) # <<>>
==============================================================================
