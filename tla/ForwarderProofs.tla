--------------------------- MODULE ForwarderProofs ---------------------------
(***************************************************************************)
(* Theorems about Forwarder, for every Capacity of at least two and any    *)
(* peers and messages: the two threads never block each other, and the     *)
(* forwarder implements the queue of EchoQueue.                            *)
(***************************************************************************)
EXTENDS Forwarder, SequenceTheorems, TLAPS

\* The last frame in the ROUTER socket ends its message.
RouterHoldsWholeMessages == routerq # <<>> => ~routerq[Len(routerq)].more

\* What the poll thread holds and knows at each point of its loop.
PollThreadOK ==
  /\ outgoing # <<>> <=> poll = "send"
  /\ poll = "router" /\ "router" \in revents => routerq # <<>>
  /\ poll # "poll" /\ "fwd" \in revents => replyq # <<>>

\* The messages accepted and not yet echoed, the oldest first.
UnderWay == replyq \o (handling \o (fwdq \o outgoing))

NumberUnderWay == Len(replyq) + Len(handling) + Len(fwdq) + Len(outgoing)

(* A round of the poll thread takes one message at most, and takes a reply too
   if there was one when it began; if there was none, one queue is empty.    *)
FewUnderWay ==
  NumberUnderWay <=
    Capacity + 1 + (IF poll = "poll" \/ "fwd" \in revents THEN 1 ELSE 0)
                 + (IF poll \in {"send", "fwd"} THEN 1 ELSE 0)

NothingLost == accepted = echoed \o UnderWay

Inv == /\ TypeOK
       /\ RouterHoldsWholeMessages
       /\ PollThreadOK
       /\ FewUnderWay
       /\ NothingLost

------------------------------------------------------------------------------
(* Sequences. *)

LEMMA HeadTail ==
  ASSUME NEW S, NEW s \in Seq(S), s # <<>>
  PROVE  s = <<Head(s)>> \o Tail(s)
<1>1. Len(s) \in Nat /\ Len(s) # 0
  BY LenProperties, EmptySeq
<1>2. 1 \in 1 .. Len(s) /\ Len(s) \in 1 .. Len(s)
  BY <1>1
<1>3. SubSeq(s, 1, Len(s)) = <<s[1]>> \o SubSeq(s, 1 + 1, Len(s))
  BY <1>2, SubSeqRecursiveFirst
<1>4. SubSeq(s, 1, Len(s)) = s /\ Tail(s) = SubSeq(s, 2, Len(s))
  BY SubSeqFull, TailIsSubSeq
<1>5. Head(s) = s[1]
  OBVIOUS
<1> QED
  BY <1>3, <1>4, <1>5, 1 + 1 = 2

LEMMA ExactlyOne ==
  ASSUME NEW S, NEW s \in Seq(S), s # <<>>, AtMostOne(s)
  PROVE  Len(s) = 1
<1>1. Len(s) \in Nat /\ Len(s) # 0 /\ Len(s) <= 1
  BY LenProperties, EmptySeq DEF AtMostOne
<1>2. \A n \in Nat : n # 0 /\ n <= 1 => n = 1
  OBVIOUS
<1> QED
  BY <1>1, <1>2, Zenon

LEMMA Singleton ==
  ASSUME NEW S, NEW e \in S
  PROVE  <<e>> \in Seq(S) /\ Len(<<e>>) = 1 /\ <<e>>[1] = e
OBVIOUS

\* What is left of a sequence when its first n elements are gone.
LEMMA DropProperties ==
  ASSUME NEW S, NEW s \in Seq(S), NEW n \in 0 .. Len(s)
  PROVE  /\ Drop(s, n) \in Seq(S)
         /\ Len(Drop(s, n)) = Len(s) - n
         /\ \A i \in 1 .. Len(s) - n : Drop(s, n)[i] = s[i + n]
<1>1. \A i \in n + 1 .. Len(s) : s[i] \in S
  BY ElementOfSeq
<1>2. n + 1 \in Int /\ Len(s) \in Int
  BY LenProperties
<1> QED
  BY <1>1, <1>2, SubSeqProperties DEF Drop

\* Taking frames leaves the last one where it is.
LEMMA DropKeepsLast ==
  ASSUME NEW n \in 0 .. Len(routerq), routerq \in Seq(Frame),
         RouterHoldsWholeMessages, routerq' = Drop(routerq, n)
  PROVE  routerq' \in Seq(Frame) /\ RouterHoldsWholeMessages'
<1>1. /\ routerq' \in Seq(Frame)
      /\ Len(routerq') = Len(routerq) - n
      /\ \A i \in 1 .. Len(routerq) - n : routerq'[i] = routerq[i + n]
  BY DropProperties
<1>2. SUFFICES ASSUME routerq' # <<>>
               PROVE  ~routerq'[Len(routerq')].more
  BY <1>1 DEF RouterHoldsWholeMessages
<1>3. Len(routerq) \in Nat /\ Len(routerq') # 0
  BY <1>1, <1>2, EmptySeq, LenProperties
<1>4. /\ Len(routerq') \in 1 .. Len(routerq) - n
      /\ Len(routerq') + n = Len(routerq)
      /\ Len(routerq) # 0
  BY <1>1, <1>3
<1>5. routerq'[Len(routerq')] = routerq[Len(routerq)] /\ routerq # <<>>
  BY <1>1, <1>4, EmptySeq
<1> QED
  BY <1>5 DEF RouterHoldsWholeMessages

\* A message that is sent to the ROUTER arrives whole.
LEMMA SendKeepsWhole ==
  ASSUME NEW k \in 2 .. MaxFrames, NEW m \in Message, SendToRouter(k, m),
         routerq \in Seq(Frame), sent \in 0 .. MaxMessages
  PROVE  /\ routerq' \in Seq(Frame)
         /\ RouterHoldsWholeMessages'
         /\ routerq' # <<>>
         /\ sent' \in 0 .. MaxMessages
<1>1. k \in Nat /\ k >= 2 /\ k <= MaxFrames /\ MaxMessages \in Nat
  BY BoundsAssumption
<1>2. \A n \in 1 .. k : [pos |-> n, more |-> n < k, body |-> m] \in Frame
  BY <1>1, BoundsAssumption DEF Frame
<1>3. Frames(k, m) \in Seq(Frame) /\ Len(Frames(k, m)) = k
  BY <1>1, <1>2, IsASeq DEF Frames
<1>4. Frames(k, m)[k] = [pos |-> k, more |-> k < k, body |-> m]
  BY <1>1 DEF Frames
<1>5. routerq' = routerq \o Frames(k, m)
  BY DEF SendToRouter
<1>6. Len(routerq) \in Nat
  BY LenProperties
<1> HIDE DEF Frames
<1>7. /\ routerq' \in Seq(Frame)
      /\ Len(routerq') = Len(routerq) + k
      /\ \A i \in 1 .. Len(routerq) + k : routerq'[i] =
           IF i <= Len(routerq) THEN routerq[i] ELSE Frames(k, m)[i - Len(routerq)]
  BY <1>3, <1>5, ConcatProperties
<1>8. routerq'[Len(routerq')] = Frames(k, m)[k]
  <2>1. /\ Len(routerq') \in 1 .. Len(routerq) + k
        /\ ~(Len(routerq') <= Len(routerq))
        /\ Len(routerq') - Len(routerq) = k
    BY <1>1, <1>6, <1>7
  <2> QED
    BY <1>7, <2>1
<1>9. ~Frames(k, m)[k].more
  <2>1. ~(k < k)
    BY <1>1
  <2>2. Frames(k, m)[k].more = (k < k)
    BY <1>4
  <2> QED
    BY <2>1, <2>2
<1>10. routerq' # <<>>
  BY <1>1, <1>6, <1>7, EmptySeq
<1>11. sent' \in 0 .. MaxMessages
  BY <1>1 DEF SendToRouter
<1> QED
  BY <1>7, <1>8, <1>9, <1>10, <1>11 DEF RouterHoldsWholeMessages

------------------------------------------------------------------------------
\* The poll thread can take two frames where it does.
LEMMA TakesTwoFrames ==
  ASSUME Inv, TakesTwo
  PROVE  /\ 2 \in 0 .. Len(routerq)
         /\ routerq[2].body \in Message
         /\ routerq' \in Seq(Frame)
         /\ RouterHoldsWholeMessages'
         /\ fromAddr' \in Addresses
<1>1. routerq \in Seq(Frame) /\ Len(routerq) \in Nat
  BY LenProperties DEF Inv, TypeOK
<1>2. routerq # <<>> /\ routerq[1].more
  BY DEF Inv, PollThreadOK, TakesTwo
<1>3. Len(routerq) # 0 /\ Len(routerq) # 1
  BY <1>1, <1>2, EmptySeq DEF Inv, RouterHoldsWholeMessages
<1>4. 1 \in 1 .. Len(routerq) /\ 2 \in 1 .. Len(routerq) /\ 2 \in 0 .. Len(routerq)
  <2>1. \A n \in Nat : n # 0 /\ n # 1 =>
          1 \in 1 .. n /\ 2 \in 1 .. n /\ 2 \in 0 .. n
    OBVIOUS
  <2> QED
    BY <1>1, <1>3, <2>1, Zenon
<1>5. routerq[1] \in Frame /\ routerq[2] \in Frame
  BY <1>1, <1>4, ElementOfSeq
<1>6. routerq[1].body.from \in Addresses /\ routerq[2].body \in Message
  BY <1>5 DEF Frame, Message, Addresses
<1>7. fromAddr' \in Addresses
  BY <1>6 DEF TakesTwo, Addresses
<1> QED
  BY <1>1, <1>4, <1>6, <1>7, DropKeepsLast DEF TakesTwo, Inv

\* The number of messages under way, and what they are, in the invariant.
LEMMA UnderWayProperties ==
  ASSUME TypeOK
  PROVE  /\ UnderWay \in Seq(Message)
         /\ Len(UnderWay) = NumberUnderWay
         /\ NumberUnderWay \in Nat
<1>1. /\ replyq \in Seq(Message) /\ handling \in Seq(Message)
      /\ fwdq \in Seq(Message) /\ outgoing \in Seq(Message)
  BY DEF TypeOK
<1>2. /\ Len(replyq) \in Nat /\ Len(handling) \in Nat
      /\ Len(fwdq) \in Nat /\ Len(outgoing) \in Nat
  BY <1>1, LenProperties
<1>3. /\ fwdq \o outgoing \in Seq(Message)
      /\ Len(fwdq \o outgoing) = Len(fwdq) + Len(outgoing)
  BY <1>1, ConcatProperties
<1>4. /\ handling \o (fwdq \o outgoing) \in Seq(Message)
      /\ Len(handling \o (fwdq \o outgoing))
           = Len(handling) + (Len(fwdq) + Len(outgoing))
  BY <1>1, <1>3, ConcatProperties
<1>5. /\ UnderWay \in Seq(Message)
      /\ Len(UnderWay)
           = Len(replyq) + (Len(handling) + (Len(fwdq) + Len(outgoing)))
  BY <1>1, <1>3, <1>4, ConcatProperties DEF UnderWay
<1> QED
  BY <1>2, <1>5 DEF NumberUnderWay

LEMMA InitInv == Init => Inv
<1> SUFFICES ASSUME Init PROVE Inv
  OBVIOUS
<1>1. Capacity \in Nat /\ Capacity >= 2 /\ MaxMessages \in Nat
  BY CapacityAssumption, BoundsAssumption
<1>2. TypeOK
  <2>1. identity \in {Dealer, Nobody}
    BY DEF Init
  <2>2. <<>> \in Seq(Message) /\ <<>> \in Seq(Frame) /\ Len(<<>>) = 0
    BY EmptySeq
  <2>3. /\ awaiting \in BOOLEAN /\ mailbox \in Nat /\ sent \in 0 .. MaxMessages
        /\ poll \in {"poll", "router", "send", "fwd"}
        /\ revents \subseteq {"router", "fwd"}
        /\ fromAddr \in Addresses
    <3>1. /\ awaiting = FALSE /\ mailbox = 0 /\ sent = 0
          /\ poll = "poll" /\ revents = {} /\ fromAddr = Nobody
      BY DEF Init
    <3>2. sent \in 0 .. MaxMessages /\ mailbox \in Nat
      BY <1>1, <3>1
    <3> QED
      BY <3>1, <3>2 DEF Addresses
  <2>4. /\ routerq = <<>> /\ outgoing = <<>> /\ fwdq = <<>> /\ handling = <<>>
        /\ replyq = <<>> /\ accepted = <<>> /\ echoed = <<>>
    BY DEF Init
  <2>5. 0 <= Capacity /\ 0 <= 1
    BY <1>1
  <2> QED
    BY <2>1, <2>2, <2>3, <2>4, <2>5 DEF TypeOK, AtMostOne
<1>3. RouterHoldsWholeMessages /\ PollThreadOK
  BY DEF Init, RouterHoldsWholeMessages, PollThreadOK
<1>4. FewUnderWay
  BY <1>1, EmptySeq DEF Init, FewUnderWay, NumberUnderWay
<1>5. NothingLost
  BY DEF Init, NothingLost, UnderWay
<1> QED
  BY <1>2, <1>3, <1>4, <1>5 DEF Inv

------------------------------------------------------------------------------
(* Each action preserves the invariant. *)

\* An action that leaves the messages under way alone.
LEMMA QuietStep ==
  ASSUME Inv, UNCHANGED <<outgoing, pairVars, accepted, echoed>>
  PROVE  NothingLost' /\ NumberUnderWay' = NumberUnderWay
BY DEF Inv, NothingLost, UnderWay, NumberUnderWay, pairVars

LEMMA PeersKeepInv ==
  ASSUME Inv, ClientSends \/ dealer_transmitter_thread
  PROVE  Inv'
<1>1. TypeOK /\ routerq \in Seq(Frame) /\ sent \in 0 .. MaxMessages
  BY DEF Inv, TypeOK
<1>2. ASSUME NEW k \in 2 .. MaxFrames, NEW m \in Message, SendToRouter(k, m)
      PROVE  /\ routerq' \in Seq(Frame) /\ RouterHoldsWholeMessages'
             /\ routerq' # <<>> /\ sent' \in 0 .. MaxMessages
  BY <1>1, <1>2, SendKeepsWhole DEF Inv
<1>3. UNCHANGED <<poll, revents, fromAddr, outgoing, pairVars, accepted, echoed>>
  BY DEF ClientSends, dealer_transmitter_thread, DealerSends, DealerReceives
<1>4. NothingLost' /\ NumberUnderWay' = NumberUnderWay
  BY <1>3, QuietStep
<1>5. FewUnderWay'
  BY <1>3, <1>4 DEF Inv, FewUnderWay
<1>6. CASE ClientSends
  <2>1. PICK client \in Clients, to \in Targets, k \in 2 .. MaxFrames :
          SendToRouter(k, [from |-> client, to |-> to])
    BY <1>6 DEF ClientSends
  <2>2. [from |-> client, to |-> to] \in Message
    BY PeersAssumption DEF Message, Peers
  <2>3. /\ routerq' \in Seq(Frame) /\ RouterHoldsWholeMessages'
        /\ routerq' # <<>> /\ sent' \in 0 .. MaxMessages
    BY <1>2, <2>1, <2>2
  <2>4. UNCHANGED dealerVars
    BY <1>6 DEF ClientSends
  <2>5. TypeOK'
    BY <1>1, <1>3, <2>3, <2>4 DEF TypeOK, dealerVars, pairVars
  <2>6. PollThreadOK'
    BY <1>3, <2>3 DEF Inv, PollThreadOK, pairVars
  <2> QED
    BY <1>4, <1>5, <2>3, <2>5, <2>6 DEF Inv
<1>7. CASE DealerSends
  <2>1. 2 \in 2 .. MaxFrames
    BY BoundsAssumption
  <2>2. [from |-> Dealer, to |-> Dealer] \in Message
    BY DEF Message, Peers, Addresses
  <2>3. /\ routerq' \in Seq(Frame) /\ RouterHoldsWholeMessages'
        /\ routerq' # <<>> /\ sent' \in 0 .. MaxMessages
    BY <1>2, <1>7, <2>1, <2>2 DEF DealerSends
  <2>4. UNCHANGED <<identity, mailbox>> /\ awaiting' = TRUE
    BY <1>7 DEF DealerSends
  <2>5. TypeOK'
    BY <1>1, <1>3, <2>3, <2>4 DEF TypeOK, pairVars
  <2>6. PollThreadOK'
    BY <1>3, <2>3 DEF Inv, PollThreadOK, pairVars
  <2> QED
    BY <1>4, <1>5, <2>3, <2>5, <2>6 DEF Inv
<1>8. CASE DealerReceives
  <2>1. UNCHANGED <<identity, sent, routerq>> /\ awaiting' = FALSE
    BY <1>8 DEF DealerReceives
  <2>2. mailbox' \in Nat
    BY <1>1, <1>8 DEF DealerReceives, TypeOK
  <2>3. TypeOK'
    BY <1>1, <1>3, <2>1, <2>2 DEF TypeOK, pairVars
  <2>4. PollThreadOK' /\ RouterHoldsWholeMessages'
    BY <1>3, <2>1 DEF Inv, PollThreadOK, RouterHoldsWholeMessages, pairVars
  <2> QED
    BY <1>4, <1>5, <2>3, <2>4 DEF Inv
<1> QED
  BY <1>6, <1>7, <1>8 DEF dealer_transmitter_thread

LEMMA PollStepsKeepInv ==
  ASSUME Inv, PollReturns \/ RouterQuiet \/ NoReply
  PROVE  Inv'
<1>1. UNCHANGED <<dealerVars, sent, routerq, fromAddr, outgoing, pairVars,
                  accepted, echoed>>
  BY DEF PollReturns, RouterQuiet, NoReply
<1>2. NothingLost' /\ NumberUnderWay' = NumberUnderWay
  BY <1>1, QuietStep
<1>3. RouterHoldsWholeMessages'
  BY <1>1 DEF Inv, RouterHoldsWholeMessages
<1>4. /\ outgoing = <<>> <=> poll # "send"
      /\ poll \in {"poll", "router", "send", "fwd"}
      /\ revents \subseteq {"router", "fwd"}
      /\ NumberUnderWay \in Nat
      /\ Capacity \in Nat
  BY UnderWayProperties, CapacityAssumption DEF Inv, TypeOK, PollThreadOK
<1>5. ASSUME poll' \in {"poll", "router", "send", "fwd"},
             revents' \subseteq {"router", "fwd"}
      PROVE  TypeOK'
  BY <1>1, <1>5 DEF Inv, TypeOK, dealerVars, pairVars
<1>6. CASE PollReturns
  <2>1. /\ poll = "poll" /\ poll' = "router"
        /\ revents' \subseteq {"router", "fwd"}
        /\ "router" \in revents' <=> routerq # <<>>
        /\ "fwd" \in revents' <=> replyq # <<>>
    BY <1>6 DEF PollReturns
  <2>2. PollThreadOK'
    BY <1>1, <1>4, <2>1 DEF PollThreadOK, pairVars
  <2>3. NumberUnderWay <= Capacity + 2
    BY <1>4, <2>1 DEF Inv, FewUnderWay
  <2>4. ASSUME "fwd" \notin revents' PROVE NumberUnderWay <= Capacity + 1
    <3>1. replyq = <<>> /\ outgoing = <<>>
      BY <1>4, <2>1, <2>4
    <3>2. Len(replyq) = 0 /\ Len(outgoing) = 0
      BY <3>1
    <3>3. /\ Len(handling) \in Nat /\ Len(handling) <= 1
          /\ Len(fwdq) \in Nat /\ Len(fwdq) <= Capacity
      BY LenProperties DEF Inv, TypeOK, AtMostOne
    <3> QED
      BY <1>4, <3>2, <3>3 DEF NumberUnderWay
  <2>5. FewUnderWay'
    BY <1>2, <1>4, <2>1, <2>3, <2>4 DEF FewUnderWay
  <2> QED
    BY <1>2, <1>3, <1>5, <2>1, <2>2, <2>5 DEF Inv
<1>7. CASE RouterQuiet
  <2>1. poll = "router" /\ poll' = "fwd" /\ revents' = revents
    BY <1>7 DEF RouterQuiet
  <2>2. PollThreadOK'
    BY <1>1, <1>4, <2>1 DEF Inv, PollThreadOK, pairVars
  <2>3. FewUnderWay'
    BY <1>2, <1>4, <2>1 DEF Inv, FewUnderWay
  <2> QED
    BY <1>2, <1>3, <1>4, <1>5, <2>1, <2>2, <2>3 DEF Inv
<1>8. CASE NoReply
  <2>1. poll = "fwd" /\ "fwd" \notin revents /\ poll' = "poll" /\ revents' = revents
    BY <1>8 DEF NoReply
  <2>2. PollThreadOK'
    BY <1>1, <1>4, <2>1 DEF Inv, PollThreadOK, pairVars
  <2>3. FewUnderWay'
    BY <1>2, <1>4, <2>1 DEF Inv, FewUnderWay
  <2> QED
    BY <1>2, <1>3, <1>4, <1>5, <2>1, <2>2, <2>3 DEF Inv
<1> QED
  BY <1>6, <1>7, <1>8

LEMMA DropsKeepInv ==
  ASSUME Inv, LoneFrame \/ DropsLongMessage
  PROVE  Inv'
<1>1. /\ UNCHANGED <<dealerVars, sent, revents, outgoing, pairVars, accepted, echoed>>
      /\ poll = "router" /\ poll' = "fwd"
  BY DEF LoneFrame, DropsLongMessage, TakesTwo
<1>2. NothingLost' /\ NumberUnderWay' = NumberUnderWay
  BY <1>1, QuietStep
<1>3. PollThreadOK'
  BY <1>1 DEF Inv, PollThreadOK, pairVars
<1>4. FewUnderWay'
  <2>1. NumberUnderWay \in Nat /\ Capacity \in Nat
    BY UnderWayProperties, CapacityAssumption DEF Inv
  <2> QED
    BY <1>1, <1>2, <2>1 DEF Inv, FewUnderWay
<1>5. routerq' \in Seq(Frame) /\ RouterHoldsWholeMessages' /\ fromAddr' \in Addresses
  <2>1. CASE LoneFrame
    <3>1. routerq \in Seq(Frame) /\ routerq # <<>>
      BY <2>1 DEF LoneFrame, Inv, TypeOK, PollThreadOK
    <3>2. 1 \in 0 .. Len(routerq)
      BY <3>1, EmptySeq
    <3>3. routerq' = Drop(routerq, 1) /\ fromAddr' = fromAddr
      BY <2>1 DEF LoneFrame
    <3> QED
      BY <3>1, <3>2, <3>3, DropKeepsLast DEF Inv, TypeOK
  <2>2. CASE DropsLongMessage
    BY <2>2, TakesTwoFrames DEF DropsLongMessage
  <2> QED
    BY <2>1, <2>2
<1>6. TypeOK'
  BY <1>1, <1>5 DEF Inv, TypeOK, dealerVars, pairVars
<1> QED
  BY <1>2, <1>3, <1>4, <1>5, <1>6 DEF Inv

\* What the steps below do with the sequence of messages under way.
LEMMA Joined ==
  ASSUME TypeOK
  PROVE  /\ replyq \in Seq(Message) /\ handling \in Seq(Message)
         /\ fwdq \in Seq(Message) /\ outgoing \in Seq(Message)
         /\ echoed \in Seq(Message) /\ accepted \in Seq(Message)
         /\ Len(replyq) \in Nat /\ Len(handling) \in Nat
         /\ Len(fwdq) \in Nat /\ Len(outgoing) \in Nat
         /\ fwdq \o outgoing \in Seq(Message)
         /\ handling \o (fwdq \o outgoing) \in Seq(Message)
<1>1. /\ replyq \in Seq(Message) /\ handling \in Seq(Message)
      /\ fwdq \in Seq(Message) /\ outgoing \in Seq(Message)
      /\ echoed \in Seq(Message) /\ accepted \in Seq(Message)
  BY DEF TypeOK
<1>2. /\ Len(replyq) \in Nat /\ Len(handling) \in Nat
      /\ Len(fwdq) \in Nat /\ Len(outgoing) \in Nat
  BY <1>1, LenProperties
<1>3. fwdq \o outgoing \in Seq(Message)
  BY <1>1, ConcatProperties
<1>4. handling \o (fwdq \o outgoing) \in Seq(Message)
  BY <1>1, <1>3, ConcatProperties
<1> QED
  BY <1>1, <1>2, <1>3, <1>4

LEMMA TakesMessageKeepsInv ==
  ASSUME Inv, TakesMessage
  PROVE  /\ Inv'
         /\ Len(accepted) - Len(echoed) < Capacity + 3
         /\ \E m \in Message : accepted' = Append(accepted, m)
         /\ echoed' = echoed
<1> DEFINE m == routerq[2].body
<1>1. /\ UNCHANGED <<dealerVars, sent, revents, pairVars, echoed>>
      /\ poll = "router" /\ poll' = "send"
      /\ outgoing' = <<m>> /\ accepted' = Append(accepted, m)
      /\ TakesTwo
  BY DEF TakesMessage, TakesTwo
<1>2. /\ routerq' \in Seq(Frame) /\ RouterHoldsWholeMessages'
      /\ m \in Message /\ fromAddr' \in Addresses
  BY <1>1, TakesTwoFrames
<1>3. TypeOK /\ outgoing = <<>>
  BY <1>1 DEF Inv, PollThreadOK
<1> HIDE DEF m
<1>4. /\ <<m>> \in Seq(Message) /\ Len(<<m>>) = 1 /\ <<m>> # <<>>
      /\ Len(<<>>) = 0
  BY <1>2, Singleton
<1>5. accepted' \in Seq(Message) /\ accepted' = accepted \o <<m>>
  BY <1>1, <1>2, <1>3, Joined, AppendProperties, AppendIsConcat
<1>6. TypeOK'
  BY <1>1, <1>2, <1>3, <1>4, <1>5 DEF TypeOK, dealerVars, pairVars, AtMostOne
<1>7. PollThreadOK'
  BY <1>1, <1>4 DEF Inv, PollThreadOK, pairVars
<1>8. /\ NumberUnderWay \in Nat /\ Capacity \in Nat
      /\ NumberUnderWay' = NumberUnderWay + 1
  BY <1>1, <1>3, <1>4, Joined, UnderWayProperties, CapacityAssumption
     DEF NumberUnderWay, pairVars
<1>9. FewUnderWay'
  BY <1>1, <1>8 DEF Inv, FewUnderWay
<1>10. UnderWay' = UnderWay \o <<m>>
  <2>1. fwdq \o <<m>> = (fwdq \o outgoing) \o <<m>>
    BY <1>3, Joined, ConcatEmptySeq
  <2>2. handling \o (fwdq \o <<m>>) = (handling \o (fwdq \o outgoing)) \o <<m>>
    BY <1>3, <1>4, <2>1, Joined, ConcatAssociative
  <2>3. replyq \o (handling \o (fwdq \o <<m>>)) = UnderWay \o <<m>>
    <3> DEFINE rest == handling \o (fwdq \o outgoing)
    <3>1. rest \in Seq(Message) /\ replyq \in Seq(Message)
      BY <1>3, Joined
    <3>2. handling \o (fwdq \o <<m>>) = rest \o <<m>> /\ UnderWay = replyq \o rest
      BY <2>2 DEF UnderWay
    <3> HIDE DEF rest
    <3>3. (replyq \o rest) \o <<m>> = replyq \o (rest \o <<m>>)
      BY <1>4, <3>1, ConcatAssociative
    <3> QED
      BY <3>2, <3>3
  <2> QED
    BY <1>1, <2>3 DEF UnderWay, pairVars
<1>11. NothingLost'
  <2>1. accepted = echoed \o UnderWay
    BY DEF Inv, NothingLost
  <2>2. accepted \o <<m>> = echoed \o (UnderWay \o <<m>>)
    <3>1. UnderWay \in Seq(Message) /\ echoed \in Seq(Message)
      BY <1>3, Joined, UnderWayProperties
    <3>2. (echoed \o UnderWay) \o <<m>> = echoed \o (UnderWay \o <<m>>)
      BY <1>4, <3>1, ConcatAssociative
    <3> QED
      BY <2>1, <3>2
  <2> QED
    BY <1>1, <1>5, <1>10, <2>2 DEF NothingLost
<1>12. Len(accepted) - Len(echoed) < Capacity + 3
  <2>1. accepted = echoed \o UnderWay
    BY DEF Inv, NothingLost
  <2>2. Len(accepted) = Len(echoed) + NumberUnderWay
    BY <1>3, <2>1, Joined, UnderWayProperties, ConcatProperties
  <2>3. NumberUnderWay <= Capacity + 2
    BY <1>1, <1>8 DEF Inv, FewUnderWay
  <2>4. Len(echoed) \in Nat
    BY <1>3, Joined, LenProperties
  <2> QED
    BY <1>8, <2>2, <2>3, <2>4
<1> QED
  BY <1>1, <1>2, <1>6, <1>7, <1>9, <1>11, <1>12 DEF Inv

LEMMA ForwardsMessageKeepsInv ==
  ASSUME Inv, ForwardsMessage
  PROVE  Inv'
<1>1. /\ UNCHANGED <<dealerVars, sent, routerq, revents, fromAddr, handling,
                     replyq, accepted, echoed>>
      /\ poll = "send" /\ poll' = "fwd"
      /\ Len(fwdq) < Capacity
      /\ outgoing' = <<>> /\ fwdq' = fwdq \o outgoing
  BY DEF ForwardsMessage
<1>2. TypeOK /\ outgoing # <<>>
  BY <1>1 DEF Inv, PollThreadOK
<1>3. Len(outgoing) = 1 /\ Len(<<>>) = 0
  <2>1. outgoing \in Seq(Message) /\ AtMostOne(outgoing)
    BY <1>2 DEF TypeOK
  <2> QED
    BY <1>2, <2>1, ExactlyOne, EmptySeq
<1>4. /\ fwdq' \in Seq(Message)
      /\ Len(fwdq') = Len(fwdq) + 1
      /\ Len(fwdq') <= Capacity
  <2>1. fwdq \in Seq(Message) /\ outgoing \in Seq(Message) /\ Len(fwdq) \in Nat
    BY <1>2, Joined
  <2>2. fwdq' \in Seq(Message) /\ Len(fwdq') = Len(fwdq) + 1
    <3>1. /\ fwdq \o outgoing \in Seq(Message)
          /\ Len(fwdq \o outgoing) = Len(fwdq) + Len(outgoing)
      BY <2>1, ConcatProperties
    <3> QED
      BY <1>1, <1>3, <3>1
  <2> QED
    BY <1>1, <2>1, <2>2, CapacityAssumption
<1>5. TypeOK'
  BY <1>1, <1>2, <1>3, <1>4 DEF TypeOK, dealerVars, AtMostOne
<1>6. PollThreadOK' /\ RouterHoldsWholeMessages'
  BY <1>1 DEF Inv, PollThreadOK, RouterHoldsWholeMessages
<1>7. NumberUnderWay' = NumberUnderWay
  BY <1>1, <1>2, <1>3, <1>4, Joined DEF NumberUnderWay
<1>8. FewUnderWay'
  BY <1>1, <1>7 DEF Inv, FewUnderWay
<1>9. NothingLost'
  <2>1. fwdq' \o outgoing' = fwdq \o outgoing
    BY <1>1, <1>2, <1>4, Joined, ConcatEmptySeq
  <2> QED
    BY <1>1, <2>1 DEF Inv, NothingLost, UnderWay
<1> QED
  BY <1>5, <1>6, <1>8, <1>9 DEF Inv

LEMMA HandlerKeepsInv ==
  ASSUME Inv, rpc_handling
  PROVE  Inv'
<1>1. UNCHANGED <<dealerVars, sent, routerq, poll, revents, fromAddr, outgoing,
                  accepted, echoed>>
  BY DEF rpc_handling, HandlerReceives, HandlerReplies
<1>2. TypeOK
  BY DEF Inv
<1>3. RouterHoldsWholeMessages'
  BY <1>1 DEF Inv, RouterHoldsWholeMessages
<1>4. CASE HandlerReceives
  <2> DEFINE h == Head(fwdq)
             t == Tail(fwdq)
  <2>1. /\ handling = <<>> /\ fwdq # <<>>
        /\ handling' = <<h>> /\ fwdq' = t /\ replyq' = replyq
    BY <1>4 DEF HandlerReceives
  <2>2. /\ h \in Message /\ t \in Seq(Message) /\ Len(t) = Len(fwdq) - 1
        /\ fwdq = <<h>> \o t
    BY <1>2, <2>1, Joined, HeadTailProperties, HeadTail
  <2> HIDE DEF h, t
  <2>3. <<h>> \in Seq(Message) /\ Len(<<h>>) = 1 /\ Len(<<>>) = 0
    BY <2>2, Singleton
  <2>4. Len(t) <= Capacity
    BY <1>2, <2>2, Joined, CapacityAssumption DEF TypeOK
  <2>5. TypeOK'
    BY <1>1, <1>2, <2>1, <2>2, <2>3, <2>4 DEF TypeOK, dealerVars, AtMostOne
  <2>6. PollThreadOK'
    BY <1>1, <2>1 DEF Inv, PollThreadOK
  <2>7. NumberUnderWay' = NumberUnderWay
    BY <1>1, <1>2, <2>1, <2>2, <2>3, Joined DEF NumberUnderWay
  <2>8. FewUnderWay'
    BY <1>1, <2>7 DEF Inv, FewUnderWay
  <2>9. handling' \o (fwdq' \o outgoing') = handling \o (fwdq \o outgoing)
    <3>1. fwdq \o outgoing \in Seq(Message) /\ outgoing \in Seq(Message)
      BY <1>2, Joined
    <3>2. handling \o (fwdq \o outgoing) = fwdq \o outgoing
      BY <2>1, <3>1, ConcatEmptySeq
    <3>3. (<<h>> \o t) \o outgoing = <<h>> \o (t \o outgoing)
      BY <2>2, <2>3, <3>1, ConcatAssociative
    <3> QED
      BY <1>1, <2>1, <2>2, <3>2, <3>3
  <2>10. NothingLost'
    BY <1>1, <2>1, <2>9 DEF Inv, NothingLost, UnderWay
  <2> QED
    BY <1>3, <2>5, <2>6, <2>8, <2>10 DEF Inv
<1>5. CASE HandlerReplies
  <2>1. /\ handling # <<>> /\ Len(replyq) < Capacity
        /\ handling' = <<>> /\ replyq' = replyq \o handling /\ fwdq' = fwdq
    BY <1>5 DEF HandlerReplies
  <2>2. Len(handling) = 1 /\ Len(<<>>) = 0
    <3>1. handling \in Seq(Message) /\ AtMostOne(handling)
      BY <1>2 DEF TypeOK
    <3> QED
      BY <2>1, <3>1, ExactlyOne, EmptySeq
  <2>3. /\ replyq' \in Seq(Message)
        /\ Len(replyq') = Len(replyq) + 1
        /\ Len(replyq') <= Capacity
    <3>1. replyq \in Seq(Message) /\ handling \in Seq(Message) /\ Len(replyq) \in Nat
      BY <1>2, Joined
    <3>2. replyq' \in Seq(Message) /\ Len(replyq') = Len(replyq) + 1
      <4>1. /\ replyq \o handling \in Seq(Message)
            /\ Len(replyq \o handling) = Len(replyq) + Len(handling)
        BY <3>1, ConcatProperties
      <4> QED
        BY <2>1, <2>2, <4>1
    <3> QED
      BY <2>1, <3>1, <3>2, CapacityAssumption
  <2>4. replyq' # <<>>
    <3>1. Len(replyq') # 0
      BY <1>2, <2>3, Joined
    <3> QED
      BY <2>2, <3>1
  <2>5. TypeOK'
    BY <1>1, <1>2, <2>1, <2>2, <2>3 DEF TypeOK, dealerVars, AtMostOne
  <2>6. PollThreadOK'
    BY <1>1, <2>4 DEF Inv, PollThreadOK
  <2>7. NumberUnderWay' = NumberUnderWay
    BY <1>1, <1>2, <2>1, <2>2, <2>3, Joined DEF NumberUnderWay
  <2>8. FewUnderWay'
    BY <1>1, <2>7 DEF Inv, FewUnderWay
  <2>9. UnderWay' = UnderWay
    <3> DEFINE rest == fwdq \o outgoing
    <3>1. /\ rest \in Seq(Message) /\ replyq \in Seq(Message)
          /\ handling \in Seq(Message)
      BY <1>2, Joined
    <3>2. /\ UnderWay = replyq \o (handling \o rest)
          /\ UnderWay' = (replyq \o handling) \o (<<>> \o rest)
      BY <1>1, <2>1 DEF UnderWay
    <3> HIDE DEF rest
    <3>3. <<>> \o rest = rest
      BY <3>1, ConcatEmptySeq
    <3>4. (replyq \o handling) \o rest = replyq \o (handling \o rest)
      BY <3>1, ConcatAssociative
    <3> QED
      BY <3>2, <3>3, <3>4
  <2>10. NothingLost'
    BY <1>1, <2>9 DEF Inv, NothingLost
  <2> QED
    BY <1>3, <2>5, <2>6, <2>8, <2>10 DEF Inv
<1> QED
  BY <1>4, <1>5 DEF rpc_handling

LEMMA SendsReplyKeepsInv ==
  ASSUME Inv, SendsReply
  PROVE  /\ Inv'
         /\ Len(echoed) < Len(accepted)
         /\ echoed' = Append(echoed, accepted[Len(echoed) + 1])
         /\ accepted' = accepted
<1> DEFINE h == Head(replyq)
           t == Tail(replyq)
           rest == handling \o (fwdq \o outgoing)
<1>1. /\ UNCHANGED <<identity, awaiting, sent, routerq, revents, fromAddr,
                     outgoing, fwdq, handling, accepted>>
      /\ poll = "fwd" /\ "fwd" \in revents /\ poll' = "poll"
      /\ echoed' = Append(echoed, h) /\ replyq' = t
      /\ mailbox' = mailbox \/ mailbox' = mailbox + 1
  <2>1. mailbox \in Nat /\ (Route(h.to) => mailbox' = mailbox + 0 \/ mailbox' = mailbox + 1)
    BY DEF Route, Inv, TypeOK
  <2> QED
    BY <2>1 DEF SendsReply
<1>2. TypeOK /\ replyq # <<>> /\ outgoing = <<>>
  BY <1>1 DEF Inv, PollThreadOK
<1>3. /\ h \in Message /\ t \in Seq(Message) /\ Len(t) = Len(replyq) - 1
      /\ replyq = <<h>> \o t
  BY <1>2, Joined, HeadTailProperties, HeadTail
<1>4. rest \in Seq(Message) /\ echoed \in Seq(Message)
  BY <1>2, Joined
<1>5. UnderWay = (<<h>> \o t) \o rest /\ UnderWay' = t \o rest
  BY <1>1, <1>3 DEF UnderWay
<1>6. accepted = echoed \o UnderWay
  BY DEF Inv, NothingLost
<1> HIDE DEF h, t, rest
<1>7. <<h>> \in Seq(Message) /\ Len(<<h>>) = 1 /\ <<h>>[1] = h
  BY <1>3, Singleton
<1>8. t \o rest \in Seq(Message)
  BY <1>3, <1>4, ConcatProperties
<1>9. UnderWay = <<h>> \o (t \o rest)
  BY <1>3, <1>4, <1>5, <1>7, ConcatAssociative
<1>10. echoed' = echoed \o <<h>> /\ echoed' \in Seq(Message)
  BY <1>1, <1>3, <1>4, AppendIsConcat, AppendProperties
<1>11. NothingLost'
  <2>1. (echoed \o <<h>>) \o (t \o rest) = echoed \o (<<h>> \o (t \o rest))
    BY <1>4, <1>7, <1>8, ConcatAssociative
  <2> QED
    BY <1>1, <1>5, <1>6, <1>9, <1>10, <2>1 DEF NothingLost
<1>12. mailbox' \in Nat
  BY <1>1, <1>2 DEF TypeOK
<1>13. Len(t) <= Capacity
  BY <1>2, <1>3, Joined, CapacityAssumption DEF TypeOK
<1>14. TypeOK'
  BY <1>1, <1>2, <1>3, <1>10, <1>12, <1>13 DEF TypeOK
<1>15. PollThreadOK' /\ RouterHoldsWholeMessages'
  BY <1>1, <1>2 DEF Inv, PollThreadOK, RouterHoldsWholeMessages
<1>16. FewUnderWay'
  <2>1. NumberUnderWay' = NumberUnderWay - 1
    BY <1>1, <1>2, <1>3, Joined DEF NumberUnderWay
  <2>2. NumberUnderWay \in Nat /\ Capacity \in Nat
    BY <1>2, UnderWayProperties, CapacityAssumption
  <2>3. NumberUnderWay <= Capacity + 3
    BY <1>1, <2>2 DEF Inv, FewUnderWay
  <2> QED
    BY <1>1, <2>1, <2>2, <2>3 DEF FewUnderWay
<1>17. Len(echoed) < Len(accepted) /\ accepted[Len(echoed) + 1] = h
  <2>1. Len(echoed) \in Nat /\ Len(t \o rest) \in Nat
    BY <1>4, <1>8, LenProperties
  <2>2. /\ UnderWay \in Seq(Message)
        /\ Len(UnderWay) = 1 + Len(t \o rest)
        /\ UnderWay[1] = h
    <3>1. /\ Len(<<h>> \o (t \o rest)) = 1 + Len(t \o rest)
          /\ \A i \in 1 .. 1 + Len(t \o rest) :
               (<<h>> \o (t \o rest))[i] =
                 IF i <= 1 THEN <<h>>[i] ELSE (t \o rest)[i - 1]
          /\ <<h>> \o (t \o rest) \in Seq(Message)
      BY <1>7, <1>8, ConcatProperties
    <3>2. 1 \in 1 .. 1 + Len(t \o rest) /\ 1 <= 1
      BY <2>1
    <3> QED
      BY <1>7, <1>9, <3>1, <3>2
  <2>3. /\ Len(accepted) = Len(echoed) + Len(UnderWay)
        /\ \A i \in 1 .. Len(echoed) + Len(UnderWay) : accepted[i] =
             IF i <= Len(echoed) THEN echoed[i] ELSE UnderWay[i - Len(echoed)]
    <3>1. /\ Len(echoed \o UnderWay) = Len(echoed) + Len(UnderWay)
          /\ \A i \in 1 .. Len(echoed) + Len(UnderWay) : (echoed \o UnderWay)[i] =
               IF i <= Len(echoed) THEN echoed[i] ELSE UnderWay[i - Len(echoed)]
      <4>1. echoed \in Seq(Message) /\ UnderWay \in Seq(Message)
        BY <1>4, <2>2
      <4> QED
        BY <4>1, ConcatProperties
    <3> QED
      BY <1>6, <3>1
  <2>4. /\ Len(echoed) + 1 \in 1 .. Len(echoed) + Len(UnderWay)
        /\ ~(Len(echoed) + 1 <= Len(echoed))
        /\ Len(echoed) + 1 - Len(echoed) = 1
        /\ Len(echoed) < Len(echoed) + Len(UnderWay)
    BY <2>1, <2>2
  <2> QED
    BY <2>2, <2>3, <2>4
<1> QED
  BY <1>1, <1>11, <1>14, <1>15, <1>16, <1>17 DEF Inv

------------------------------------------------------------------------------
LEMMA NextInv == Inv /\ [Next]_vars => Inv'
<1> SUFFICES ASSUME Inv, [Next]_vars PROVE Inv'
  OBVIOUS
<1>1. CASE ClientSends \/ dealer_transmitter_thread
  BY <1>1, PeersKeepInv
<1>2. CASE create_poll_thread
  BY <1>2, PollStepsKeepInv, DropsKeepInv, TakesMessageKeepsInv,
     ForwardsMessageKeepsInv, SendsReplyKeepsInv
     DEF create_poll_thread, router_handling_msg
<1>3. CASE rpc_handling
  BY <1>3, HandlerKeepsInv
<1>4. CASE UNCHANGED vars
  BY <1>4 DEF vars, dealerVars, pairVars, Inv, TypeOK, RouterHoldsWholeMessages,
     PollThreadOK, FewUnderWay, NumberUnderWay, NothingLost, UnderWay
<1> QED
  BY <1>1, <1>2, <1>3, <1>4 DEF Next

\* Type correctness: every queue keeps to its capacity, and a thread never holds
\* more than the one message it is about to send.
THEOREM TypeCorrect == Spec => []TypeOK
<1>1. Inv => TypeOK
  BY DEF Inv
<1> QED
  BY <1>1, InitInv, NextInv, PTL DEF Spec

(* The poll thread and the handler thread never wait for each other, whatever
   the capacity of the PAIR beyond one message: at most Capacity + 3 messages
   are under way, and they would have to be 2 * Capacity + 2.                *)
THEOREM NoMutualBlocking == Spec => []NeverBothBlocked
<1>1. Inv => NeverBothBlocked
  <2> SUFFICES ASSUME Inv,
                      poll = "send", Len(fwdq) = Capacity,
                      handling # <<>>, Len(replyq) = Capacity
               PROVE  FALSE
    BY DEF NeverBothBlocked
  <2>1. outgoing # <<>> /\ TypeOK /\ Capacity \in Nat /\ Capacity >= 2
    BY CapacityAssumption DEF Inv, PollThreadOK
  <2>2. /\ Len(outgoing) \in Nat /\ Len(outgoing) # 0
        /\ Len(handling) \in Nat /\ Len(handling) # 0
    BY <2>1, Joined, EmptySeq
  <2>3. NumberUnderWay >= Capacity + Capacity + 2
    BY <2>1, <2>2 DEF NumberUnderWay
  <2>4. NumberUnderWay \in Nat /\ NumberUnderWay <= Capacity + 3
    BY <2>1, UnderWayProperties DEF Inv, FewUnderWay
  <2> QED
    BY <2>1, <2>3, <2>4
<1> QED
  BY <1>1, InitInv, NextInv, PTL DEF Spec

(* The forwarder implements the queue: it starts as the empty queue, and each
   step accepts a message while there is room, sends the oldest one back, or
   is none of the queue's concern.                                           *)
THEOREM QueueImplemented == Spec => ImplementsQueue
<1>1. Init => Queue!Init
  BY DEF Init, Queue!Init
<1>2. Inv /\ [Next]_vars => [Queue!Next]_Queue!vars
  <2> SUFFICES ASSUME Inv, [Next]_vars PROVE [Queue!Next]_Queue!vars
    OBVIOUS
  <2>1. CASE TakesMessage
    BY <2>1, TakesMessageKeepsInv DEF Queue!Next, Queue!Accept
  <2>2. CASE SendsReply
    BY <2>2, SendsReplyKeepsInv DEF Queue!Next, Queue!Echo
  <2>3. CASE UNCHANGED <<accepted, echoed>>
    BY <2>3 DEF Queue!vars
  <2> QED
    BY <2>1, <2>2, <2>3 DEF Next, vars, ClientSends, dealer_transmitter_thread,
       DealerSends, DealerReceives, create_poll_thread, PollReturns, RouterQuiet,
       router_handling_msg, LoneFrame, DropsLongMessage, ForwardsMessage, NoReply,
       rpc_handling, HandlerReceives, HandlerReplies
<1> QED
  BY <1>1, <1>2, InitInv, NextInv, PTL DEF Spec, ImplementsQueue, Queue!Spec
==============================================================================
