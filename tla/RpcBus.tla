-------------------------------- MODULE RpcBus --------------------------------
(***************************************************************************)
(* A call on its way over the message bus: the client of                   *)
(* rpcserver/zmq_broker_req_sync2.py, the two brokers of                   *)
(* rpcserver/xpubxsub.cpp and the server of rpcserver/rpcserver.cpp.       *)
(*                                                                         *)
(*   client PUB --> XSUB 5555, XPUB 5556 --> SUB server      requests      *)
(*   client SUB <-- XPUB 5558, XSUB 5557 <-- PUB server      replies       *)
(*                                                                         *)
(* A publisher drops what nobody it knows of has subscribed to, and        *)
(* subscriptions travel against the messages, at a pace of their own.  The *)
(* client sends a request first and subscribes to its reply afterwards,    *)
(* every call uses the same request id, and a call that gets no reply      *)
(* within two seconds is given up with its subscription left in place.     *)
(***************************************************************************)
EXTENDS Integers, Sequences, FiniteSets

CONSTANTS
  FirstSlow, \* from this call on the bus may take longer than the client's two seconds
  MaxCalls   \* bound: calls the client makes

ASSUME BusAssumption == FirstSlow \in Nat /\ MaxCalls \in Nat

VARIABLES
  loop,          \* the client: what its loop does next
  call,          \* the client: how many calls it has begun
  subscribed,    \* its SUB socket: how often it is subscribed to the request id
  announced,     \* how far the server's subscription to "1/" has come
  toBroker,      \* requests on their way from the client to the broker
  toServer,      \* ... and from there to the server
  fromServer,    \* replies on their way from the server to the broker
  toClient,      \* ... and from there to the client
  subsToBroker,  \* subscriptions on their way from the client to the broker
  subsToServer,  \* ... and from there to the server
  brokerKnows,   \* XPUB 5558 holds a subscription of the client's
  serverKnows,   \* the server's PUB holds a subscription
  taken,         \* history: the replies the client took, [call, reply]
  expired,       \* history: the calls it gave up
  unheard        \* history: the calls whose request went to nobody

clientVars == <<loop, call, subscribed>>
requestVars == <<announced, toBroker, toServer>>
replyVars == <<fromServer, toClient>>
subVars == <<subsToBroker, subsToServer, brokerKnows, serverKnows>>
historyVars == <<taken, expired, unheard>>
vars == <<clientVars, requestVars, replyVars, subVars, historyVars>>

\* Requests and replies all carry the same id: a call's number is not on the wire.
Calls == 1 .. MaxCalls

Updates == {"subscribe", "unsubscribe"}

TypeOK ==
  /\ loop \in {"start", "send", "subscribe", "recv"}
  /\ call \in 0 .. MaxCalls
  /\ subscribed \in Nat
  /\ announced \in {"no", "server", "broker", "client"}
  /\ toBroker \in Seq(Calls) /\ toServer \in Seq(Calls)
  /\ fromServer \in Seq(Calls) /\ toClient \in Seq(Calls)
  /\ subsToBroker \in Seq(Updates) /\ subsToServer \in Seq(Updates)
  /\ brokerKnows \in BOOLEAN /\ serverKnows \in BOOLEAN
  /\ taken \in Seq([call : Calls, reply : Calls])
  /\ expired \subseteq Calls
  /\ unheard \subseteq Calls

------------------------------------------------------------------------------
Init ==
  /\ loop = "start" /\ call = 0 /\ subscribed = 0
  /\ announced = "no" /\ toBroker = <<>> /\ toServer = <<>>
  /\ fromServer = <<>> /\ toClient = <<>>
  /\ subsToBroker = <<>> /\ subsToServer = <<>>
  /\ brokerKnows = FALSE /\ serverKnows = FALSE
  /\ taken = <<>> /\ expired = {} /\ unheard = {}

\* The client's reply socket is there; it does not wait for the server.
get_reply_socket ==
  /\ loop = "start"
  /\ loop' = "send"
  /\ UNCHANGED <<call, subscribed, requestVars, replyVars, subVars, historyVars>>

\* Mutant: the request is sent a second time, to be sure.
SendRequest_Twice ==
  /\ loop = "send"
  /\ call < MaxCalls
  /\ call' = call + 1
  /\ loop' = "subscribe"
  /\ IF announced = "client"
     THEN /\ toBroker' = toBroker \o <<call + 1, call + 1>>
          /\ UNCHANGED unheard
     ELSE /\ unheard' = unheard \cup {call + 1}
          /\ UNCHANGED toBroker
  /\ UNCHANGED <<subscribed, announced, toServer, replyVars, subVars,
                 taken, expired>>

\* Until the server's subscription is here, the PUB socket drops the request.
SendRequest ==
  /\ loop = "send"
  /\ call < MaxCalls
  /\ call' = call + 1
  /\ loop' = "subscribe"
  /\ IF announced = "client"
     THEN toBroker' = Append(toBroker, call + 1) /\ UNCHANGED unheard
     ELSE unheard' = unheard \cup {call + 1} /\ UNCHANGED toBroker
  /\ UNCHANGED <<subscribed, announced, toServer, replyVars, subVars,
                 taken, expired>>

\* Mutant: one subscription, made with the first call, is taken to be enough.
SubscribeToReply_AtStart ==
  /\ loop = "subscribe"
  /\ loop' = "recv"
  /\ subscribed' = IF call = 1 THEN 1 ELSE subscribed
  /\ subsToBroker' = IF call = 1
                     THEN Append(subsToBroker, "subscribe")
                     ELSE subsToBroker
  /\ UNCHANGED <<call, requestVars, replyVars, subsToServer, brokerKnows,
                 serverKnows, historyVars>>

\* The SUB socket counts its subscriptions, and sends each of them upstream.
SubscribeToReply ==
  /\ loop = "subscribe"
  /\ loop' = "recv"
  /\ subscribed' = subscribed + 1
  /\ subsToBroker' = Append(subsToBroker, "subscribe")
  /\ UNCHANGED <<call, requestVars, replyVars, subsToServer, brokerKnows,
                 serverKnows, historyVars>>

(* Any reply with the request id will do.  The subscription is taken back, and
   upstream when it was the last one.                                        *)
ReceiveReply ==
  /\ loop = "recv"
  /\ toClient # <<>>
  /\ taken' = Append(taken, [call |-> call, reply |-> Head(toClient)])
  /\ toClient' = Tail(toClient)
  /\ subscribed' = subscribed - 1
  /\ subsToBroker' = IF subscribed = 1
                     THEN Append(subsToBroker, "unsubscribe")
                     ELSE subsToBroker
  /\ loop' = "send"
  /\ UNCHANGED <<call, requestVars, fromServer, subsToServer, brokerKnows,
                 serverKnows, expired, unheard>>

\* The bus is still faster than the client's two seconds.
Fast == call < FirstSlow

\* Nothing is on its way any more that could bring a reply.
Quiet ==
  /\ toBroker = <<>> /\ toServer = <<>> /\ fromServer = <<>>
  /\ subsToBroker = <<>>
  /\ subsToServer = <<>> \/ announced = "no"

\* Mutant: an expired call takes its subscription back, too.
Expire_Unsubscribes ==
  /\ loop = "recv"
  /\ toClient = <<>>
  /\ ~Fast \/ Quiet
  /\ expired' = expired \cup {call}
  /\ subscribed' = subscribed - 1
  /\ subsToBroker' = IF subscribed = 1
                     THEN Append(subsToBroker, "unsubscribe")
                     ELSE subsToBroker
  /\ loop' = "send"
  /\ UNCHANGED <<call, requestVars, replyVars, subsToServer, brokerKnows,
                 serverKnows, taken, unheard>>

\* Mutant: the client does not wait at all.
Expire_AtOnce ==
  /\ loop = "recv"
  /\ toClient = <<>>
  /\ expired' = expired \cup {call}
  /\ loop' = "send"
  /\ UNCHANGED <<call, subscribed, requestVars, replyVars, subVars, taken, unheard>>

\* Mutant: the socket has no receive timeout.
Expire_NoTimeout == FALSE /\ UNCHANGED vars

\* Two seconds without a reply.  The subscription stays.
Expire ==
  /\ loop = "recv"
  /\ toClient = <<>>
  /\ ~Fast \/ Quiet
  /\ expired' = expired \cup {call}
  /\ loop' = "send"
  /\ UNCHANGED <<call, subscribed, requestVars, replyVars, subVars, taken, unheard>>

client == get_reply_socket \/ SendRequest \/ SubscribeToReply \/ ReceiveReply \/ Expire
------------------------------------------------------------------------------
\* The server connects and subscribes to "1/".
rpc_server_start ==
  /\ announced = "no"
  /\ announced' = "server"
  /\ UNCHANGED <<clientVars, toBroker, toServer, replyVars, subVars, historyVars>>

\* XPUB 5556 takes the server's subscription, and hands it on to the client.
AnnounceServer ==
  /\ announced \in {"server", "broker"}
  /\ announced' = IF announced = "server" THEN "broker" ELSE "client"
  /\ UNCHANGED <<clientVars, toBroker, toServer, replyVars, subVars, historyVars>>

ForwardRequest ==
  /\ toBroker # <<>>
  /\ toServer' = Append(toServer, Head(toBroker))
  /\ toBroker' = Tail(toBroker)
  /\ UNCHANGED <<clientVars, announced, replyVars, subVars, historyVars>>

msgq_fe_thread_async == AnnounceServer \/ ForwardRequest

\* The server answers a call; its PUB drops the reply when it knows of nobody.
rpc_handle_req ==
  /\ toServer # <<>>
  /\ toServer' = Tail(toServer)
  /\ fromServer' = IF serverKnows
                   THEN Append(fromServer, Head(toServer))
                   ELSE fromServer
  /\ UNCHANGED <<clientVars, announced, toBroker, toClient, subVars, historyVars>>

\* Mutant: the proxy sends a reply on and leaves it where it was once.
ForwardReply_Twice ==
  /\ fromServer # <<>>
  /\ toClient' = IF brokerKnows
                 THEN toClient \o <<Head(fromServer), Head(fromServer)>>
                 ELSE toClient
  /\ fromServer' = Tail(fromServer)
  /\ UNCHANGED <<clientVars, requestVars, subVars, historyVars>>

ForwardReply ==
  /\ fromServer # <<>>
  /\ toClient' = IF brokerKnows THEN Append(toClient, Head(fromServer)) ELSE toClient
  /\ fromServer' = Tail(fromServer)
  /\ UNCHANGED <<clientVars, requestVars, subVars, historyVars>>

\* XPUB 5558 hands on what is new to it: the first subscription, the last end of one.
ForwardSubscription ==
  LET wanted == Head(subsToBroker) = "subscribe"
  IN  /\ subsToBroker # <<>>
      /\ subsToServer' = IF wanted # brokerKnows
                         THEN Append(subsToServer, Head(subsToBroker))
                         ELSE subsToServer
      /\ brokerKnows' = wanted
      /\ subsToBroker' = Tail(subsToBroker)
      /\ UNCHANGED <<clientVars, requestVars, replyVars, serverKnows, historyVars>>

msgq_be_thread_sync == ForwardReply \/ ForwardSubscription

\* The server's PUB socket takes a subscription, once it has connected.
ServerLearns ==
  /\ announced # "no"
  /\ subsToServer # <<>>
  /\ serverKnows' = (Head(subsToServer) = "subscribe")
  /\ subsToServer' = Tail(subsToServer)
  /\ UNCHANGED <<clientVars, requestVars, replyVars, subsToBroker, brokerKnows,
                 historyVars>>

Next == \/ client
        \/ rpc_server_start
        \/ msgq_fe_thread_async
        \/ rpc_handle_req
        \/ msgq_be_thread_sync
        \/ ServerLearns

Spec == Init /\ [][Next]_vars

(* The client, the server and each direction of each proxy go on as long as
   they have something to do.  Nobody has to start the server.               *)
FairSpec == /\ Spec
            /\ WF_vars(client)
            /\ WF_vars(AnnounceServer) /\ WF_vars(ForwardRequest)
            /\ WF_vars(rpc_handle_req)
            /\ WF_vars(ForwardReply) /\ WF_vars(ForwardSubscription)
            /\ WF_vars(ServerLearns)

------------------------------------------------------------------------------
(* The client takes no reply twice, and no older reply after a newer one,
   although requests, replies and subscriptions overtake each other and late
   replies of expired calls are taken for later ones.                        *)
RepliesInOrder ==
  \A i, j \in DOMAIN taken : i < j => taken[i].reply < taken[j].reply

(* As the request id is always the same, a late reply is taken for a later
   call.  It is behind by no more calls than have expired before: a client that
   never timed out always has the reply to the call it made.                 *)
LagBounded ==
  \A i \in DOMAIN taken :
    taken[i].call - taken[i].reply
      <= Cardinality({k \in expired : k < taken[i].call})

(* While the bus is faster than the timeout, every reply taken is the current
   call's own.                                                               *)
RepliesCurrent ==
  Fast => \A i \in DOMAIN taken : taken[i].reply = taken[i].call

(* While the bus is faster than the timeout, at most one of the calls that
   reached the server expires.  A reply that overtakes the subscription is
   dropped, but the expired call leaves its subscription behind, and from then
   on the client is subscribed for good.                                     *)
AtMostOneExpires == Fast => Cardinality(expired \ unheard) <= 1

\* Every call ends, with a reply or given up, whether or not there is a server.
CallsEnd == loop = "recv" ~> loop = "send"
==============================================================================
