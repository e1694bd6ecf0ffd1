------------------------------ MODULE Forwarder ------------------------------
(***************************************************************************)
(* The forwarder of newrpc/router3.cpp.  A poll thread owns a ROUTER       *)
(* socket and one end of an inproc PAIR; a handler thread owns the other   *)
(* end and sends back what it receives; a dealer thread sends a request    *)
(* and waits for its echo.  Both directions of the PAIR are bounded and    *)
(* both sends block, so each thread can make the other wait.               *)
(***************************************************************************)
EXTENDS Integers, Sequences

CONSTANTS
  Dealer,        \* the program's own DEALER, which dealer_transmitter_thread runs
  Clients,       \* other peers of the ROUTER
  Nobody,        \* an address no peer has
  Targets,       \* the addresses clients put into their messages
  LiteralTails,  \* what may lie behind the literal "MA1S": "zeros", "others"
  Capacity,      \* messages the PAIR holds in one direction
  MaxFrames,     \* bound: frames of one message, its identity frame included
  MaxMessages    \* bound: messages sent to the ROUTER

ASSUME CapacityAssumption == Capacity \in Nat /\ Capacity >= 2

ASSUME BoundsAssumption ==
  MaxFrames \in Nat /\ MaxFrames >= 2 /\ MaxMessages \in Nat

Peers == {Dealer} \cup Clients

\* The 8 bytes at src in a message's head, as the peer they name, if any.
Addresses == Peers \cup {Nobody}

ASSUME PeersAssumption == Dealer \notin Clients /\ Targets \subseteq Addresses

VARIABLES
  identity,    \* whom the dealer's ROUTER identity makes it: Dealer or Nobody
  awaiting,    \* the dealer has sent a request and is in its zmq_recv
  mailbox,     \* number of messages waiting in the dealer's socket
  sent,        \* number of messages sent to the ROUTER
  routerq,     \* the frames in the ROUTER socket
  poll,        \* what the poll thread does next
  revents,     \* the sockets the last zmq_poll found readable
  fromAddr,    \* the global fromAddr: who sent the last request (never used)
  outgoing,    \* the message router_handling_msg is sending: none or one
  fwdq,        \* the PAIR, towards the handler
  handling,    \* the message rpc_handling has received: none or one
  replyq,      \* the PAIR, towards the poll thread
  accepted,    \* history: the messages the poll thread took for the handler
  echoed       \* history: the messages it sent back through the ROUTER

dealerVars == <<identity, awaiting, mailbox>>
pairVars == <<fwdq, handling, replyq>>
vars == <<dealerVars, sent, routerq, poll, revents, fromAddr, outgoing,
          pairVars, accepted, echoed>>

Message == [from : Peers, to : Addresses]

Frame == [pos : 1 .. MaxFrames, more : BOOLEAN, body : Message]

\* A message of k frames as the ROUTER hands it over: its identity, its data.
Frames(k, m) == [n \in 1 .. k |-> [pos |-> n, more |-> n < k, body |-> m]]

Drop(s, n) == SubSeq(s, n + 1, Len(s))

AtMostOne(s) == Len(s) <= 1

TypeOK ==
  /\ identity \in {Dealer, Nobody}
  /\ awaiting \in BOOLEAN
  /\ mailbox \in Nat
  /\ sent \in 0 .. MaxMessages
  /\ routerq \in Seq(Frame)
  /\ poll \in {"poll", "router", "send", "fwd"}
  /\ revents \subseteq {"router", "fwd"}
  /\ fromAddr \in Addresses
  /\ outgoing \in Seq(Message) /\ AtMostOne(outgoing)
  /\ fwdq \in Seq(Message) /\ Len(fwdq) <= Capacity
  /\ handling \in Seq(Message) /\ AtMostOne(handling)
  /\ replyq \in Seq(Message) /\ Len(replyq) <= Capacity
  /\ accepted \in Seq(Message)
  /\ echoed \in Seq(Message)

------------------------------------------------------------------------------
(* The dealer's identity is 8 bytes from a literal of 5: what lies behind it
   decides whether it is the address in its own messages, "MA1S" and a msgid
   of zero.                                                                  *)
Init ==
  /\ \E tail \in LiteralTails :
       identity = IF tail = "zeros" THEN Dealer ELSE Nobody
  /\ awaiting = FALSE
  /\ mailbox = 0
  /\ sent = 0
  /\ routerq = <<>>
  /\ poll = "poll"
  /\ revents = {}
  /\ fromAddr = Nobody
  /\ outgoing = <<>>
  /\ fwdq = <<>>
  /\ handling = <<>>
  /\ replyq = <<>>
  /\ accepted = <<>>
  /\ echoed = <<>>

SendToRouter(k, m) ==
  /\ sent < MaxMessages
  /\ sent' = sent + 1
  /\ routerq' = routerq \o Frames(k, m)

\* External: another peer sends a message of any number of frames.
ClientSends ==
  /\ \E client \in Clients, to \in Targets, k \in 2 .. MaxFrames :
       SendToRouter(k, [from |-> client, to |-> to])
  /\ UNCHANGED <<dealerVars, poll, revents, fromAddr, outgoing, pairVars,
                 accepted, echoed>>

DealerSends ==
  /\ ~awaiting
  /\ awaiting' = TRUE
  /\ SendToRouter(2, [from |-> Dealer, to |-> Dealer])
  /\ UNCHANGED <<identity, mailbox, poll, revents, fromAddr, outgoing,
                 pairVars, accepted, echoed>>

DealerReceives ==
  /\ awaiting
  /\ mailbox > 0
  /\ awaiting' = FALSE
  /\ mailbox' = mailbox - 1
  /\ UNCHANGED <<identity, sent, routerq, poll, revents, fromAddr, outgoing,
                 pairVars, accepted, echoed>>

dealer_transmitter_thread == DealerSends \/ DealerReceives

------------------------------------------------------------------------------
\* Mutant: one item is polled, the ROUTER; the PAIR is not.
PollReturns_OneItem ==
  /\ poll = "poll"
  /\ routerq # <<>>
  /\ revents' = {"router"}
  /\ poll' = "router"
  /\ UNCHANGED <<dealerVars, sent, routerq, fromAddr, outgoing, pairVars,
                 accepted, echoed>>

\* zmq_poll returns; the sockets are then served by what it said of them.
PollReturns ==
  /\ poll = "poll"
  /\ routerq # <<>> \/ replyq # <<>>
  /\ revents' = {s \in {"router", "fwd"} :
                   IF s = "router" THEN routerq # <<>> ELSE replyq # <<>>}
  /\ poll' = "router"
  /\ UNCHANGED <<dealerVars, sent, routerq, fromAddr, outgoing, pairVars,
                 accepted, echoed>>

RouterQuiet ==
  /\ poll = "router"
  /\ "router" \notin revents
  /\ poll' = "fwd"
  /\ UNCHANGED <<dealerVars, sent, routerq, revents, fromAddr, outgoing,
                 pairVars, accepted, echoed>>

\* Beyond the identity and one data frame, frames stay in the socket and are
\* taken for a message of their own.
LoneFrame ==
  /\ poll = "router"
  /\ "router" \in revents
  /\ ~routerq[1].more
  /\ routerq' = Drop(routerq, 1)
  /\ poll' = "fwd"
  /\ UNCHANGED <<dealerVars, sent, revents, fromAddr, outgoing, pairVars,
                 accepted, echoed>>

TakesTwo ==
  /\ poll = "router"
  /\ "router" \in revents
  /\ routerq[1].more
  /\ routerq' = Drop(routerq, 2)
  /\ fromAddr' = IF routerq[1].pos = 1 THEN routerq[1].body.from ELSE Nobody

DropsLongMessage ==
  /\ TakesTwo
  /\ routerq[2].more
  /\ poll' = "fwd"
  /\ UNCHANGED <<dealerVars, sent, revents, outgoing, pairVars, accepted, echoed>>

TakesMessage ==
  /\ TakesTwo
  /\ ~routerq[2].more
  /\ outgoing' = <<routerq[2].body>>
  /\ accepted' = Append(accepted, routerq[2].body)
  /\ poll' = "send"
  /\ UNCHANGED <<dealerVars, sent, revents, pairVars, echoed>>

\* Mutant: the send does not wait for room.
ForwardsMessage_NoWait ==
  /\ poll = "send"
  /\ fwdq' = fwdq \o outgoing
  /\ outgoing' = <<>>
  /\ poll' = "fwd"
  /\ UNCHANGED <<dealerVars, sent, routerq, revents, fromAddr, handling, replyq,
                 accepted, echoed>>

\* Mutant: replies are looked at only when the ROUTER is quiet.
ForwardsMessage_RouterFirst ==
  /\ poll = "send"
  /\ Len(fwdq) < Capacity
  /\ fwdq' = fwdq \o outgoing
  /\ outgoing' = <<>>
  /\ poll' = "poll"
  /\ UNCHANGED <<dealerVars, sent, routerq, revents, fromAddr, handling, replyq,
                 accepted, echoed>>

\* The send to the handler waits until the PAIR has room.
ForwardsMessage ==
  /\ poll = "send"
  /\ Len(fwdq) < Capacity
  /\ fwdq' = fwdq \o outgoing
  /\ outgoing' = <<>>
  /\ poll' = "fwd"
  /\ UNCHANGED <<dealerVars, sent, routerq, revents, fromAddr, handling, replyq,
                 accepted, echoed>>

router_handling_msg ==
  LoneFrame \/ DropsLongMessage \/ TakesMessage \/ ForwardsMessage

NoReply ==
  /\ poll = "fwd"
  /\ "fwd" \notin revents
  /\ poll' = "poll"
  /\ UNCHANGED <<dealerVars, sent, routerq, revents, fromAddr, outgoing,
                 pairVars, accepted, echoed>>

\* External: the ROUTER drops a message for an address no peer has.
Route(to) == mailbox' = mailbox + (IF to = identity /\ to = Dealer THEN 1 ELSE 0)

\* Mutant: the reply goes to whoever sent the last request.
SendsReply_FromAddr ==
  /\ poll = "fwd"
  /\ "fwd" \in revents
  /\ Route(fromAddr)
  /\ echoed' = Append(echoed, Head(replyq))
  /\ replyq' = Tail(replyq)
  /\ poll' = "poll"
  /\ UNCHANGED <<identity, awaiting, sent, routerq, revents, fromAddr, outgoing,
                 fwdq, handling, accepted>>

\* The reply goes to the address in its own head, not to fromAddr.
SendsReply ==
  /\ poll = "fwd"
  /\ "fwd" \in revents
  /\ Route(Head(replyq).to)
  /\ echoed' = Append(echoed, Head(replyq))
  /\ replyq' = Tail(replyq)
  /\ poll' = "poll"
  /\ UNCHANGED <<identity, awaiting, sent, routerq, revents, fromAddr, outgoing,
                 fwdq, handling, accepted>>

create_poll_thread ==
  PollReturns \/ RouterQuiet \/ router_handling_msg \/ NoReply \/ SendsReply

------------------------------------------------------------------------------
HandlerReceives ==
  /\ handling = <<>>
  /\ fwdq # <<>>
  /\ handling' = <<Head(fwdq)>>
  /\ fwdq' = Tail(fwdq)
  /\ UNCHANGED <<dealerVars, sent, routerq, poll, revents, fromAddr, outgoing,
                 replyq, accepted, echoed>>

\* Mutant: a reply that finds no room is dropped.
HandlerReplies_NoWait ==
  /\ handling # <<>>
  /\ replyq' = IF Len(replyq) < Capacity THEN replyq \o handling ELSE replyq
  /\ handling' = <<>>
  /\ UNCHANGED <<dealerVars, sent, routerq, poll, revents, fromAddr, outgoing,
                 fwdq, accepted, echoed>>

\* The handler sends the message itself back, and waits until there is room.
HandlerReplies ==
  /\ handling # <<>>
  /\ Len(replyq) < Capacity
  /\ replyq' = replyq \o handling
  /\ handling' = <<>>
  /\ UNCHANGED <<dealerVars, sent, routerq, poll, revents, fromAddr, outgoing,
                 fwdq, accepted, echoed>>

rpc_handling == HandlerReceives \/ HandlerReplies

Next == ClientSends \/ dealer_transmitter_thread \/ create_poll_thread \/ rpc_handling

Spec == Init /\ [][Next]_vars

\* Three threads, each of which runs whenever it is not blocked.
FairSpec == /\ Spec
            /\ WF_vars(dealer_transmitter_thread)
            /\ WF_vars(create_poll_thread)
            /\ WF_vars(rpc_handling)

------------------------------------------------------------------------------
(* The poll thread and the handler thread never wait for each other: at no time
   is one in its send because the handler's queue is full while the other is in
   its send because the poll thread's queue is full.  It is the poll thread's
   habit of taking a reply for each request it takes that keeps the two queues
   from filling up both.                                                     *)
NeverBothBlocked ==
  ~ ( /\ poll = "send" /\ Len(fwdq) = Capacity
      /\ handling # <<>> /\ Len(replyq) = Capacity )

(* Every request of the dealer is answered: it never waits in zmq_recv for good,
   whatever the other peers send.  Where the bytes behind its identity literal
   are no zeros, the ROUTER knows it by another name than the one it puts into
   its requests, drops the reply, and the dealer waits for ever.             *)
DealerAnswered == awaiting ~> ~awaiting

(* The forwarder is a queue of at most Capacity + 3 messages: each accepted one
   comes back once, in order.                                                *)
Queue == INSTANCE EchoQueue WITH Messages <- Message, Room <- Capacity + 3

ImplementsQueue == Queue!Spec

\* Each accepted message comes back in the end: no thread waits for ever.
EverythingEchoed == Queue!Progress
==============================================================================
