------------------------------ MODULE RpcWorkers ------------------------------
(***************************************************************************)
(* The request-reply stack of rpc/: clients with a REQ socket, the proxy   *)
(* of rpc/zmq_rpcrouter.cpp between a ROUTER and a DEALER, and the worker  *)
(* threads of rpc/rpcs.cpp with a REP socket each.  A worker receives one  *)
(* frame at a time and sends a reply for each, but its REP socket takes a  *)
(* reply only after the last frame of a request, and gives the next frame  *)
(* only when no reply is due.                                              *)
(***************************************************************************)
EXTENDS WorkerHandler, FiniteSets

CONSTANTS
  Clients,
  Workers,      \* main1 starts one
  Payloads,     \* what a frame may hold
  MaxParts,     \* bound: frames of one request
  MaxRequests   \* bound: requests of one client

ASSUME PayloadsAssumption == \A payload \in Payloads : PayloadOK(payload)

ASSUME BoundsAssumption == MaxParts \in Nat \ {0} /\ MaxRequests \in Nat

VARIABLES
  asking,    \* the request a client's REQ socket waits on, <<>> for none
  heard,     \* history: the replies each client has got
  frontend,  \* requests in the ROUTER, [client, parts]
  inbox,     \* the frames in each worker's REP socket, [client, more, body]
  handling,  \* the frame each worker has in hand, none or one
  owing,     \* the client each REP socket owes a reply to, none or one
  backend    \* replies on their way to the ROUTER, [client, reply]

vars == <<asking, heard, frontend, inbox, handling, owing, backend>>

\* msg_handler as a table, computed once.
HandlerTable == {[body |-> p, reply |-> msg_handler(p)] : p \in Payloads}

Replies == {row.reply : row \in HandlerTable}

Requests == UNION {[1 .. k -> Payloads] : k \in 1 .. MaxParts}

Frame == [client : Clients, more : BOOLEAN, body : Payloads]

Frames(request, c) ==
  [n \in DOMAIN request |->
     [client |-> c, more |-> n < Len(request), body |-> request[n]]]

AtMostOne(s) == Len(s) <= 1

TypeOK ==
  /\ asking \in [Clients -> Requests \cup {<<>>}]
  /\ heard \in [Clients -> Seq(Replies)]
  /\ frontend \in Seq([client : Clients, parts : Requests])
  /\ inbox \in [Workers -> Seq(Frame)]
  /\ handling \in [Workers -> Seq(Frame)]
  /\ owing \in [Workers -> Seq(Clients)]
  /\ \A w \in Workers : AtMostOne(handling[w]) /\ AtMostOne(owing[w])
  /\ backend \in Seq([client : Clients, reply : Replies])

------------------------------------------------------------------------------
Init ==
  /\ asking = [c \in Clients |-> <<>>]
  /\ heard = [c \in Clients |-> <<>>]
  /\ frontend = <<>>
  /\ inbox = [w \in Workers |-> <<>>]
  /\ handling = [w \in Workers |-> <<>>]
  /\ owing = [w \in Workers |-> <<>>]
  /\ backend = <<>>

\* A REQ socket sends a request, and then nothing until its reply is here.
ClientAsks(c) ==
  /\ asking[c] = <<>>
  /\ Len(heard[c]) < MaxRequests
  /\ \E request \in Requests :
       /\ asking' = [asking EXCEPT ![c] = request]
       /\ frontend' = Append(frontend, [client |-> c, parts |-> request])
  /\ UNCHANGED <<heard, inbox, handling, owing, backend>>

\* Mutant: a request goes to every worker.
ProxyRequest_ToAll ==
  /\ frontend # <<>>
  /\ inbox' = [w \in Workers |->
                 inbox[w] \o Frames(Head(frontend).parts, Head(frontend).client)]
  /\ frontend' = Tail(frontend)
  /\ UNCHANGED <<asking, heard, handling, owing, backend>>

\* zmq_proxy: the DEALER hands the request to one of the workers.
ProxyRequest ==
  /\ frontend # <<>>
  /\ \E w \in Workers :
       inbox' = [inbox EXCEPT ![w] =
                   @ \o Frames(Head(frontend).parts, Head(frontend).client)]
  /\ frontend' = Tail(frontend)
  /\ UNCHANGED <<asking, heard, handling, owing, backend>>

\* zmq_proxy: the ROUTER hands the reply to the client it is for.
ProxyReply ==
  /\ backend # <<>>
  /\ LET r == Head(backend)
     IN  /\ heard' = [heard EXCEPT ![r.client] = Append(@, r.reply)]
         /\ asking' = [asking EXCEPT ![r.client] = <<>>]
  /\ backend' = Tail(backend)
  /\ UNCHANGED <<frontend, inbox, handling, owing>>

zmq_proxy == ProxyRequest \/ ProxyReply

\* Mutant: the next frame is received before the last one is replied to.
ReceiveFrame_ReadsAhead(w) ==
  /\ owing[w] = <<>>
  /\ inbox[w] # <<>>
  /\ handling' = [handling EXCEPT ![w] = Append(@, Head(inbox[w]))]
  /\ owing' = [owing EXCEPT ![w] =
                 IF Head(inbox[w]).more THEN <<>> ELSE <<Head(inbox[w]).client>>]
  /\ inbox' = [inbox EXCEPT ![w] = Tail(@)]
  /\ UNCHANGED <<asking, heard, frontend, backend>>

\* zmq_msg_recv: with the last frame of a request the REP socket owes a reply.
ReceiveFrame(w) ==
  /\ handling[w] = <<>>
  /\ owing[w] = <<>>
  /\ inbox[w] # <<>>
  /\ handling' = [handling EXCEPT ![w] = <<Head(inbox[w])>>]
  /\ owing' = [owing EXCEPT ![w] =
                 IF Head(inbox[w]).more THEN <<>> ELSE <<Head(inbox[w]).client>>]
  /\ inbox' = [inbox EXCEPT ![w] = Tail(@)]
  /\ UNCHANGED <<asking, heard, frontend, backend>>

\* Mutant: a function that is not registered is ignored.
SendReply_KnownOnly(w) ==
  /\ handling[w] # <<>>
  /\ \E row \in HandlerTable :
       /\ row.body = handling[w][1].body
       /\ IF owing[w] = <<>> \/ row.reply.cause # EmptyText
          THEN UNCHANGED <<backend, owing>>
          ELSE /\ backend' = Append(backend, [client |-> owing[w][1],
                                              reply |-> row.reply])
               /\ owing' = [owing EXCEPT ![w] = <<>>]
  /\ handling' = [handling EXCEPT ![w] = <<>>]
  /\ UNCHANGED <<asking, heard, frontend, inbox>>

(* msg_handler and rpc_send_reply.  While frames of the request are to come the
   REP socket refuses the reply; nobody looks, and the reply is freed.       *)
SendReply(w) ==
  /\ handling[w] # <<>>
  /\ \E row \in HandlerTable :
       /\ row.body = handling[w][1].body
       /\ IF owing[w] = <<>>
          THEN UNCHANGED <<backend, owing>>
          ELSE /\ backend' = Append(backend, [client |-> owing[w][1],
                                              reply |-> row.reply])
               /\ owing' = [owing EXCEPT ![w] = <<>>]
  /\ handling' = [handling EXCEPT ![w] = <<>>]
  /\ UNCHANGED <<asking, heard, frontend, inbox>>

rpcs_worker_thread(w) == ReceiveFrame(w) \/ SendReply(w)

Next == \/ \E c \in Clients : ClientAsks(c)
        \/ zmq_proxy
        \/ \E w \in Workers : rpcs_worker_thread(w)

Spec == Init /\ [][Next]_vars

\* The proxy and the workers loop for ever; nobody makes a client ask.
FairSpec == /\ Spec
            /\ WF_vars(ProxyRequest)
            /\ WF_vars(ProxyReply)
            /\ \A w \in Workers : WF_vars(rpcs_worker_thread(w))

------------------------------------------------------------------------------
(* A worker never calls zmq_msg_recv while its REP socket owes a reply: that
   call would fail, and the loop, which does not look at the result, would parse
   whatever is in the empty message.  Every path through msg_handler has sent
   its one reply by then.                                                    *)
NeverReceivesOwing ==
  \A w \in Workers : handling[w] = <<>> => owing[w] = <<>>

\* Where the requests and replies under way are: places in the sockets, the last
\* frame of a request standing for it.
Places ==
  {<<"frontend", i>> : i \in DOMAIN frontend}
  \cup (UNION {{<<"inbox", w, i>> : i \in {i \in DOMAIN inbox[w] : ~inbox[w][i].more}} :
                 w \in Workers})
  \cup {<<"owing", w>> : w \in {w \in Workers : owing[w] # <<>>}}
  \cup {<<"backend", i>> : i \in DOMAIN backend}

\* The client that what is at a place is from, or for.
ClientAt(p) ==
  CASE p[1] = "frontend" -> frontend[p[2]].client
    [] p[1] = "inbox"    -> inbox[p[2]][p[3]].client
    [] p[1] = "owing"    -> owing[p[2]][1]
    [] p[1] = "backend"  -> backend[p[2]].client

UnderWay(c) == {p \in Places : ClientAt(p) = c}

(* A client that waits has exactly one request or reply under way, and one that
   does not has none: no request is lost or handled twice, and no reply comes to
   a client that has not asked.                                              *)
OneUnderWay ==
  \A c \in Clients :
    Cardinality(UnderWay(c)) = IF asking[c] = <<>> THEN 0 ELSE 1

\* The answer each request is to have: that to the last of its frames.
Answers == {[request |-> r, reply |-> PromisedReply(r[Len(r)])] : r \in Requests}

(* What a client hears is the answer to the request it waits on, computed from
   the last of its frames, and it is the only thing it hears.                *)
RequestReply == INSTANCE RequestReply

ImplementsRequestReply == RequestReply!Spec

\* Every request is answered, however many clients and frames the workers serve.
EveryRequestAnswered == RequestReply!Progress
==============================================================================
