------------------------------ MODULE RpcServer ------------------------------
(***************************************************************************)
(* The RPC server of rpcserver/rpcserver.cpp: one thread that polls a SUB  *)
(* socket and, for each readable event, runs rpc_handle_req, which reads a *)
(* topic frame and a payload frame and publishes what rpc_msg_handler      *)
(* answers.  The state is what the socket holds: frames, each knowing      *)
(* whether its message goes on.  rpc_handle_req counts the frames it reads *)
(* and never asks for the end of a message, so frames may stay behind.     *)
(***************************************************************************)
EXTENDS RpcContract, FiniteSets

CONSTANTS
  Methods,          \* the names the application registers
  Payloads,         \* the payloads clients send
  MaxFrames,        \* bound: frames of one message
  MaxMessages,      \* bound: messages delivered
  MaxRecvFailures,  \* bound: calls of zmq_msg_recv that fail
  FailFrames        \* bound: frames of a message among those a payload is lost of

ASSUME BoundsAssumption ==
  /\ MaxFrames \in Nat \ {0} /\ MaxMessages \in Nat
  /\ MaxRecvFailures \in Nat /\ FailFrames \in Nat

ASSUME PayloadsAssumption == \A payload \in Payloads : PayloadOK(payload)

VARIABLES
  started,       \* rpc_server_start has connected and subscribed
  registry,      \* the method names in rpc_hashmgr
  received,      \* history: the messages the SUB socket was given
  inbox,         \* the frames in the SUB socket that were not received yet
  published,     \* history: the replies given to the PUB socket
  recvFailures

vars == <<started, registry, received, inbox, published, recvFailures>>

\* Mutant: frames are counted from zero.
Frames_FromZero(k, m) ==
  [n \in 1 .. m.parts |->
     [msg |-> k, pos |-> n - 1, more |-> n < m.parts, body |-> m.payload]]

\* A message is [parts, payload]; its frames, when it is the k-th one.
Frames(k, m) ==
  [n \in 1 .. m.parts |->
     [msg |-> k, pos |-> n, more |-> n < m.parts, body |-> m.payload]]

\* rpc_msg_handler as a table: what it answers to a payload under a registry.
HandlerTable ==
  {[methods |-> methods,
    payload |-> payload,
    replies |-> rpc_msg_handler(methods, payload)] :
     methods \in SUBSET Methods, payload \in Payloads}

HandlerReplies ==
  UNION {{call.replies[i] : i \in DOMAIN call.replies} : call \in HandlerTable}

Messages == [parts : 1 .. MaxFrames, payload : Payloads]

Frame == [msg : Nat, pos : 1 .. MaxFrames, more : BOOLEAN, body : Payloads]

TypeOK ==
  /\ started \in BOOLEAN
  /\ registry \subseteq Methods
  /\ received \in Seq(Messages)
  /\ inbox \in Seq(Frame)
  /\ published \in Seq([msg : Nat, reply : HandlerReplies])
  /\ \A i \in DOMAIN inbox : inbox[i].msg \in DOMAIN received
  /\ \A i \in DOMAIN published : published[i].msg \in DOMAIN received
  /\ recvFailures \in 0 .. MaxRecvFailures

------------------------------------------------------------------------------
\* rpc_server_init
Init == /\ started = FALSE
        /\ registry = {}
        /\ received = <<>>
        /\ inbox = <<>>
        /\ published = <<>>
        /\ recvFailures = 0

rpc_register_method(method) ==
  /\ ~started
  /\ registry' = registry \cup {method}
  /\ UNCHANGED <<started, received, inbox, published, recvFailures>>

\* The application registers its methods first: rpc_server_start never returns.
rpc_server_start ==
  /\ ~started
  /\ registry = Methods
  /\ started' = TRUE
  /\ UNCHANGED <<registry, received, inbox, published, recvFailures>>

\* External: the SUB socket takes a message; all its frames arrive together.
Deliver(m) ==
  /\ started
  /\ Len(received) < MaxMessages
  /\ received' = Append(received, m)
  /\ inbox' = inbox \o Frames(Len(received) + 1, m)
  /\ UNCHANGED <<started, registry, published, recvFailures>>

------------------------------------------------------------------------------
(* The four ways through rpc_handle_req.  No received zmq_msg_t is closed:
   each of these steps leaks the frames it takes.                            *)

Readable == started /\ inbox # <<>>

TopicFrame == inbox[1]
BodyFrame  == inbox[2]

Drop(s, n) == SubSeq(s, n + 1, Len(s))

\* The first zmq_msg_recv fails and takes nothing.
RecvTopicFails ==
  /\ Readable
  /\ recvFailures < MaxRecvFailures
  /\ recvFailures' = recvFailures + 1
  /\ UNCHANGED <<started, registry, received, inbox, published>>

\* The frame is the last one of its message: there is no payload to handle.
SkipSinglePart ==
  /\ Readable
  /\ ~TopicFrame.more
  /\ inbox' = Drop(inbox, 1)
  /\ UNCHANGED <<started, registry, received, published, recvFailures>>

\* The second zmq_msg_recv fails: the first frame is gone.
RecvBodyFails ==
  /\ Readable
  /\ TopicFrame.more
  /\ recvFailures < MaxRecvFailures
  /\ \A k \in DOMAIN received : received[k].parts <= FailFrames
  /\ recvFailures' = recvFailures + 1
  /\ inbox' = Drop(inbox, 1)
  /\ UNCHANGED <<started, registry, received, published>>

PublishReplies ==
  \E call \in HandlerTable :
    /\ call.methods = registry
    /\ call.payload = BodyFrame.body
    /\ published' = published \o
         [i \in DOMAIN call.replies |->
            [msg |-> BodyFrame.msg, reply |-> call.replies[i]]]

\* Mutant: the topic frame is not asked whether its message goes on.
HandleRequest_NoMoreCheck ==
  /\ Readable
  /\ Len(inbox) >= 2
  /\ inbox' = Drop(inbox, 2)
  /\ PublishReplies
  /\ UNCHANGED <<started, registry, received, recvFailures>>

\* Mutant: the payload stays in the socket.
HandleRequest_PayloadStays ==
  /\ Readable
  /\ TopicFrame.more
  /\ Len(inbox) >= 2
  /\ inbox' = Drop(inbox, 1)
  /\ PublishReplies
  /\ UNCHANGED <<started, registry, received, recvFailures>>

HandleRequest ==
  /\ Readable
  /\ TopicFrame.more
  /\ Len(inbox) >= 2
  /\ inbox' = Drop(inbox, 2)
  /\ PublishReplies
  /\ UNCHANGED <<started, registry, received, recvFailures>>

rpc_handle_req ==
  RecvTopicFails \/ SkipSinglePart \/ RecvBodyFails \/ HandleRequest

Next == \/ \E method \in Methods : rpc_register_method(method)
        \/ rpc_server_start
        \/ \E m \in Messages : Deliver(m)
        \/ rpc_handle_req

Spec == Init /\ [][Next]_vars

(* The application starts the server, and the loop of rpc_recv_thread runs
   rpc_handle_req whenever the socket is readable.                           *)
FairSpec == /\ Spec
            /\ WF_vars(\E method \in Methods : /\ method \notin registry
                                               /\ rpc_register_method(method))
            /\ WF_vars(rpc_server_start)
            /\ WF_vars(rpc_handle_req)

------------------------------------------------------------------------------
(* The next frame to be taken, when its message goes on, is a topic, and its
   payload is there: rpc_handle_req never takes a payload for a topic and hands
   the frame after it to rpc_msg_handler, and its second receive never waits.
   It stays so after a third frame that was left in the socket, and after a
   receive that failed; not after a message that met both (with three frames
   and a failed second receive the payload is taken for a topic), nor with
   messages of four frames.                                                  *)
InSync ==
  Readable /\ TopicFrame.more => TopicFrame.pos = 1 /\ Len(inbox) >= 2

(* Replies leave in the order the requests came, and no message is answered
   twice, however many frames it has.                                        *)
RepliesInOrder ==
  \A i, j \in DOMAIN published : i < j => published[i].msg < published[j].msg

(* The reply to a message that names a proper request id is published on that
   id, whatever path of the handler produced it.                             *)
ReplyOnOwnTopic ==
  \A i \in DOMAIN published :
    LET payload == received[published[i].msg].payload
    IN  HasProperId(payload) => published[i].reply.topic = OwnTopic(payload)

Calls == {payload \in Payloads : MustAnswer(Methods, payload)}

\* The k-th message is a call that must be answered, and it has been.
Call(k) == /\ k \in DOMAIN received
           /\ received[k].parts > 1
           /\ received[k].payload \in Calls

Answered(k) == \E i \in DOMAIN published : published[i].msg = k

(* Once the server has drained its socket, every call has its reply, save at
   most one call for each receive that failed.                               *)
OnlyFaultsLoseCalls ==
  started /\ inbox = <<>> =>
    Cardinality({k \in DOMAIN received : Call(k) /\ ~Answered(k)})
      <= recvFailures

(* Every call is answered in the end, unless a receive fails: the loop reaches
   it, and none of the handler's early returns swallows it.                  *)
EveryCallAnswered ==
  \A k \in 1 .. MaxMessages : Call(k) ~> Answered(k) \/ recvFailures > 0

(* "request_id is used as the reply-topic....." (rpcserver.cpp:202), and a
   function called with parameters it cannot take says so
   (rpc_application_add.cpp:51-54): a call that names its request id has its
   reply on that id once it is handled.  The code breaks this in two ways.  An
   id of CSTR_SIZE bytes or more, or with a NUL in it, is answered on a topic of
   as many bytes that are not the id; and parameters that are no array leave
   an error in the tree, so that the error reply finds no request id.        *)
AnsweredOnRequestId ==
  started /\ inbox = <<>> /\ recvFailures = 0 =>
    \A k \in DOMAIN received :
      LET payload == received[k].payload
      IN  /\ received[k].parts > 1
          /\ NamesId(payload)
          /\ payload.root.len >= 3
          /\ ProperString(payload.root.kids[2])
          => \E i \in DOMAIN published :
               published[i].msg = k /\ published[i].reply.topic = OwnTopic(payload)

(* The server implements the abstract service: a message counts as served as
   soon as its first frame has been taken.                                   *)
Waiting == {i \in DOMAIN inbox : inbox[i].pos = 1}

Service == INSTANCE RpcService
             WITH asked   <- received,
                  served  <- Len(received) - Cardinality(Waiting),
                  answers <- published,
                  faults  <- recvFailures

ImplementsService == Service!Spec
==============================================================================
