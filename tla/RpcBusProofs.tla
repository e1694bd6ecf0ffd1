----------------------------- MODULE RpcBusProofs -----------------------------
(***************************************************************************)
(* Theorems about RpcBus, for any number of calls: whatever the delays,    *)
(* replies are taken in order and lag behind by no more than the expired   *)
(* calls; and on a bus faster than the client's timeout every reply is the *)
(* current call's and at most one call that reached the server expires.    *)
(***************************************************************************)
EXTENDS RpcBus, SequenceTheorems, FiniteSetTheorems, TLAPS

Sorted(q)    == \A i, j \in 1 .. Len(q) : i < j => q[i] < q[j]
Before(p, q) == \A i \in 1 .. Len(p), j \in 1 .. Len(q) : p[i] < q[j]
Below(q, n)  == \A i \in 1 .. Len(q) : q[i] < n
Above(q, n)  == \A i \in 1 .. Len(q) : n < q[i]
Holds(q, n)  == \E i \in 1 .. Len(q) : q[i] = n

\* A call is under way between the sending of its request and its end.
InCall == loop \in {"subscribe", "recv"}

(* Types, and what they rest on: the client unsubscribes only what it has
   subscribed to, as each expired call has left a subscription behind.       *)
EndedBeforeCall ==
  /\ \A k \in expired : k <= call /\ (InCall => k < call)
  /\ \A i \in 1 .. Len(taken) : taken[i].call <= call /\ (InCall => taken[i].call < call)

Leaked == subscribed = Cardinality(expired) + (IF loop = "recv" THEN 1 ELSE 0)

InvBase == TypeOK /\ (InCall => call >= 1) /\ EndedBeforeCall /\ Leaked

\* The four queues a call goes through, the last one first, are one ascending line.
QueuesInOrder ==
  /\ Sorted(toClient) /\ Sorted(fromServer) /\ Sorted(toServer) /\ Sorted(toBroker)
  /\ Before(toClient, fromServer) /\ Before(toClient, toServer)
  /\ Before(toClient, toBroker) /\ Before(fromServer, toServer)
  /\ Before(fromServer, toBroker) /\ Before(toServer, toBroker)

QueuesUpToCall ==
  /\ Below(toClient, call + 1) /\ Below(fromServer, call + 1)
  /\ Below(toServer, call + 1) /\ Below(toBroker, call + 1)

\* What was taken comes before all that is still to come.
TakenFirst ==
  \A i \in 1 .. Len(taken) :
    /\ taken[i].reply <= call
    /\ Above(toClient, taken[i].reply) /\ Above(fromServer, taken[i].reply)
    /\ Above(toServer, taken[i].reply) /\ Above(toBroker, taken[i].reply)

InvOrder == QueuesInOrder /\ QueuesUpToCall /\ TakenFirst /\ RepliesInOrder

ExpiredBelow(n) == {k \in expired : k < n}

\* Every call that has ended was answered or has expired.
CallsCounted ==
  call = Len(taken) + Cardinality(expired) + (IF InCall THEN 1 ELSE 0)

TakenCounted ==
  \A i \in 1 .. Len(taken) :
    /\ taken[i].reply >= i
    /\ taken[i].call = i + Cardinality(ExpiredBelow(taken[i].call))

InvLag == CallsCounted /\ TakenCounted

\* On a fast bus all that is under way belongs to the call being made.
OnlyCurrent(q) == \A i \in 1 .. Len(q) : InCall /\ q[i] = call

TakenCurrent == \A i \in DOMAIN taken : taken[i].reply = taken[i].call

InvCurrent ==
  Fast => /\ OnlyCurrent(toClient) /\ OnlyCurrent(fromServer)
          /\ OnlyCurrent(toServer) /\ OnlyCurrent(toBroker)
          /\ TakenCurrent

\* When all updates of a source have arrived, they have told what it is now.
Leads(q, there, source) ==
  IF q = <<>> THEN there <=> source ELSE q[Len(q)] = "subscribe" <=> source

UpdatesLead ==
  /\ Leads(subsToBroker, brokerKnows, subscribed > 0)
  /\ Leads(subsToServer, serverKnows, brokerKnows)

\* A call that was heard was sent when the server was known.
HeardOverBus == InCall /\ call \notin unheard => announced = "client"

HeardAndExpired == expired \ unheard

(* After the first such call the client is subscribed at both hops for good, and
   a call under way cannot be lost any more.                                 *)
Settled ==
  /\ brokerKnows /\ serverKnows /\ subsToServer = <<>>
  /\ \A i \in 1 .. Len(subsToBroker) : subsToBroker[i] = "subscribe"
  /\ InCall /\ call \notin unheard =>
       \/ Holds(toClient, call) \/ Holds(fromServer, call)
       \/ Holds(toServer, call) \/ Holds(toBroker, call)

InvSettled ==
  Fast => /\ HeardAndExpired # {} => Settled
          /\ \A j, k \in HeardAndExpired : j = k

------------------------------------------------------------------------------
(* Queues: what taking the head and adding at the end do to their order. *)

LEMMA Pop ==
  ASSUME NEW S, NEW q \in Seq(S), q # <<>>
  PROVE  /\ Head(q) \in S /\ Head(q) = q[1]
         /\ Len(q) \in Nat /\ Len(q) >= 1
         /\ Tail(q) \in Seq(S) /\ Len(Tail(q)) = Len(q) - 1
         /\ \A i \in 1 .. Len(q) - 1 : Tail(q)[i] = q[i + 1]
<1>1. Len(q) \in Nat \ {0}
  BY EmptySeq
<1>2. /\ Head(q) \in S /\ Tail(q) \in Seq(S) /\ Len(Tail(q)) = Len(q) - 1
      /\ \A i \in 1 .. Len(Tail(q)) : Tail(q)[i] = q[i + 1]
  BY HeadTailProperties
<1>3. Head(q) = q[1]
  OBVIOUS
<1> QED
  BY <1>1, <1>2, <1>3

LEMMA Push ==
  ASSUME NEW S, NEW q \in Seq(S), NEW x \in S
  PROVE  /\ Len(q) \in Nat
         /\ Append(q, x) \in Seq(S) /\ Len(Append(q, x)) = Len(q) + 1
         /\ \A i \in 1 .. Len(q) : Append(q, x)[i] = q[i]
         /\ Append(q, x)[Len(q) + 1] = x
BY AppendProperties, LenProperties

LEMMA Elements == ASSUME NEW q \in Seq(Calls)
                  PROVE  Len(q) \in Nat /\ \A i \in 1 .. Len(q) : q[i] \in Int
BY LenProperties, ElementOfSeq, BusAssumption DEF Calls

LEMMA PopOrder ==
  ASSUME NEW q \in Seq(Calls), q # <<>>
  PROVE  /\ Sorted(q) => Sorted(Tail(q)) /\ Above(Tail(q), Head(q))
         /\ \A n \in Int : Below(q, n) => Below(Tail(q), n) /\ Head(q) < n
         /\ \A n \in Int : Above(q, n) => Above(Tail(q), n) /\ n < Head(q)
         /\ \A p \in Seq(Calls) : Before(p, q) => Before(p, Tail(q)) /\ Below(p, Head(q))
         /\ \A p \in Seq(Calls) : Before(q, p) => Before(Tail(q), p) /\ Above(p, Head(q))
<1> DEFINE t == Tail(q)
           h == Head(q)
<1>1. /\ h = q[1] /\ Len(q) \in Nat /\ Len(q) >= 1 /\ Len(t) = Len(q) - 1
      /\ \A i \in 1 .. Len(q) - 1 : t[i] = q[i + 1]
  BY Pop
<1> HIDE DEF t, h
<1>2. 1 \in 1 .. Len(q) /\ \A i \in 1 .. Len(t) : i + 1 \in 1 .. Len(q) /\ t[i] = q[i + 1]
  BY <1>1
<1>3. Sorted(q) => Sorted(t) /\ Above(t, h)
  <2> SUFFICES ASSUME Sorted(q) PROVE Sorted(t) /\ Above(t, h)
    OBVIOUS
  <2>1. ASSUME NEW i \in 1 .. Len(t), NEW j \in 1 .. Len(t), i < j PROVE t[i] < t[j]
    BY <1>2, <2>1 DEF Sorted
  <2>2. ASSUME NEW i \in 1 .. Len(t) PROVE h < t[i]
    <3>1. 1 < i + 1
      OBVIOUS
    <3> QED
      BY <1>1, <1>2, <3>1 DEF Sorted
  <2> QED
    BY <2>1, <2>2 DEF Sorted, Above
<1>4. \A n \in Int : Below(q, n) => Below(t, n) /\ h < n
  BY <1>1, <1>2 DEF Below
<1>5. \A n \in Int : Above(q, n) => Above(t, n) /\ n < h
  BY <1>1, <1>2 DEF Above
<1>6. \A p \in Seq(Calls) : Before(p, q) => Before(p, t) /\ Below(p, h)
  BY <1>1, <1>2 DEF Before, Below
<1>7. \A p \in Seq(Calls) : Before(q, p) => Before(t, p) /\ Above(p, h)
  BY <1>1, <1>2 DEF Before, Above
<1> QED
  BY <1>3, <1>4, <1>5, <1>6, <1>7 DEF t, h

LEMMA PushOrder ==
  ASSUME NEW q \in Seq(Calls), NEW x \in Calls
  PROVE  /\ Sorted(q) /\ Below(q, x) => Sorted(Append(q, x))
         /\ \A n \in Int : Below(q, n) /\ x < n => Below(Append(q, x), n)
         /\ \A n \in Int : Above(q, n) /\ n < x => Above(Append(q, x), n)
         /\ \A p \in Seq(Calls) : Before(p, q) /\ Below(p, x) => Before(p, Append(q, x))
         /\ \A p \in Seq(Calls) : Before(q, p) /\ Above(p, x) => Before(Append(q, x), p)
<1> DEFINE a == Append(q, x)
<1>1. /\ Len(q) \in Nat /\ Len(a) = Len(q) + 1
      /\ \A i \in 1 .. Len(q) : a[i] = q[i]
      /\ a[Len(q) + 1] = x
  BY Push
<1> HIDE DEF a
<1>2. \A i \in 1 .. Len(a) :
        \/ i \in 1 .. Len(q) /\ a[i] = q[i]
        \/ i = Len(q) + 1 /\ a[i] = x
  BY <1>1
<1>3. Sorted(q) /\ Below(q, x) => Sorted(a)
  <2> SUFFICES ASSUME Sorted(q), Below(q, x),
                      NEW i \in 1 .. Len(a), NEW j \in 1 .. Len(a), i < j
               PROVE  a[i] < a[j]
    BY DEF Sorted
  <2>1. i \in 1 .. Len(q) /\ a[i] = q[i]
    BY <1>1, <1>2
  <2> QED
    BY <1>2, <2>1 DEF Sorted, Below
<1>4. \A n \in Int : Below(q, n) /\ x < n => Below(a, n)
  BY <1>2 DEF Below
<1>5. \A n \in Int : Above(q, n) /\ n < x => Above(a, n)
  BY <1>2 DEF Above
<1>6. \A p \in Seq(Calls) : Before(p, q) /\ Below(p, x) => Before(p, a)
  BY <1>2 DEF Before, Below
<1>7. \A p \in Seq(Calls) : Before(q, p) /\ Above(p, x) => Before(a, p)
  BY <1>2 DEF Before, Above
<1> QED
  BY <1>3, <1>4, <1>5, <1>6, <1>7 DEF a

LEMMA BelowMore ==
  ASSUME NEW q \in Seq(Calls), NEW m \in Int, NEW n \in Int, m <= n, Below(q, m)
  PROVE  Below(q, n)
BY Elements DEF Below

LEMMA Finite ==
  ASSUME NEW S \in SUBSET Calls
  PROVE  IsFiniteSet(S) /\ Cardinality(S) \in Nat
<1>1. IsFiniteSet(Calls)
  BY FS_Interval, BusAssumption DEF Calls
<1>2. IsFiniteSet(S)
  BY <1>1, FS_Subset
<1> QED
  BY <1>2, FS_CardinalityType

\* The record that a receive adds to the history.
LEMMA TakenRecord ==
  ASSUME NEW c \in Calls, NEW r \in Calls
  PROVE  LET t == [call |-> c, reply |-> r]
         IN  t \in [call : Calls, reply : Calls] /\ t.call = c /\ t.reply = r
OBVIOUS

LEMMA TakenCalls ==
  ASSUME TypeOK
  PROVE  \A i \in 1 .. Len(taken) : taken[i].call \in Int /\ taken[i].reply \in Int
<1>1. \A i \in 1 .. Len(taken) : taken[i] \in [call : Calls, reply : Calls]
  BY ElementOfSeq DEF TypeOK
<1>2. Calls \subseteq Int
  BY BusAssumption DEF Calls
<1> QED
  BY <1>1, <1>2

\* What a receive does: the reply was the first in its queue.
LEMMA ReceiveProperties ==
  ASSUME InvBase, ReceiveReply
  PROVE  /\ call \in Calls /\ Head(toClient) \in Calls
         /\ subscribed \in Nat /\ subscribed >= 1
         /\ toClient' \in Seq(Calls)
         /\ taken' \in Seq([call : Calls, reply : Calls])
         /\ Len(taken) \in Nat /\ Len(taken') = Len(taken) + 1
         /\ \A i \in 1 .. Len(taken) : taken'[i] = taken[i]
         /\ taken'[Len(taken) + 1].call = call
         /\ taken'[Len(taken) + 1].reply = Head(toClient)
<1> DEFINE t == [call |-> call, reply |-> Head(toClient)]
<1>1. call \in Calls
  BY BusAssumption DEF InvBase, TypeOK, ReceiveReply, InCall, Calls
<1>2. Head(toClient) \in Calls /\ toClient' \in Seq(Calls)
  BY Pop DEF InvBase, TypeOK, ReceiveReply
<1>3. Cardinality(expired) \in Nat
  BY Finite DEF InvBase, TypeOK
<1>4. subscribed \in Nat /\ subscribed >= 1
  BY <1>3 DEF InvBase, TypeOK, Leaked, ReceiveReply
<1>5. t \in [call : Calls, reply : Calls] /\ t.call = call /\ t.reply = Head(toClient)
  BY <1>1, <1>2, TakenRecord
<1>6. taken \in Seq([call : Calls, reply : Calls]) /\ taken' = Append(taken, t)
  BY DEF InvBase, TypeOK, ReceiveReply
<1> HIDE DEF t
<1>7. /\ Len(taken) \in Nat
      /\ taken' \in Seq([call : Calls, reply : Calls]) /\ Len(taken') = Len(taken) + 1
      /\ \A i \in 1 .. Len(taken) : taken'[i] = taken[i]
      /\ taken'[Len(taken) + 1] = t
  BY <1>5, <1>6, Push
<1> QED
  BY <1>1, <1>2, <1>4, <1>5, <1>7

------------------------------------------------------------------------------
LEMMA InitBase == Init => InvBase
<1> SUFFICES ASSUME Init PROVE InvBase
  OBVIOUS
<1>1. TypeOK
  <2>1. 0 \in 0 .. MaxCalls
    BY BusAssumption
  <2>2. \A S : <<>> \in Seq(S)
    BY EmptySeq
  <2> QED
    BY <2>1, <2>2 DEF Init, TypeOK
<1>2. EndedBeforeCall
  BY EmptySeq DEF Init, EndedBeforeCall
<1>3. Leaked
  BY FS_EmptySet DEF Init, Leaked
<1> QED
  BY <1>1, <1>2, <1>3 DEF Init, InvBase, InCall

LEMMA NextBase == InvBase /\ [Next]_vars => InvBase'
<1> SUFFICES ASSUME InvBase, [Next]_vars PROVE InvBase'
  OBVIOUS
<1> USE DEF clientVars, requestVars, replyVars, subVars, historyVars
<1>0. TypeOK /\ EndedBeforeCall /\ Leaked /\ (InCall => call >= 1)
  BY DEF InvBase
<1>1. ASSUME UNCHANGED <<clientVars, historyVars>> PROVE (InvBase /\ TypeOK') => InvBase'
  BY <1>1 DEF InvBase, EndedBeforeCall, Leaked, InCall
<1>2. CASE get_reply_socket
  <2>1. TypeOK'
    BY <1>0, <1>2 DEF TypeOK, get_reply_socket
  <2> QED
    BY <1>0, <1>2, <2>1 DEF InvBase, EndedBeforeCall, Leaked, InCall, get_reply_socket
<1>3. CASE SendRequest
  <2>1. call + 1 \in Calls /\ call \in Nat
    BY <1>0, <1>3, BusAssumption DEF TypeOK, SendRequest, Calls
  <2>2. Append(toBroker, call + 1) \in Seq(Calls)
    BY <1>0, <2>1, Push DEF TypeOK
  <2>3. TypeOK'
    <3>1. toBroker' \in Seq(Calls) /\ unheard' \subseteq Calls
      BY <1>0, <1>3, <2>1, <2>2 DEF TypeOK, SendRequest
    <3>2. call' \in 0 .. MaxCalls
      BY <1>3, <2>1, BusAssumption DEF SendRequest, Calls
    <3> QED
      BY <1>0, <1>3, <3>1, <3>2 DEF TypeOK, SendRequest
  <2>4. call' = call + 1 /\ InCall' /\ UNCHANGED <<expired, taken, subscribed>>
    BY <1>3 DEF SendRequest, InCall
  <2>5. \A k \in expired : k \in Int
    BY <1>0 DEF TypeOK, Calls
  <2>6. \A i \in 1 .. Len(taken) : taken[i].call \in Int
    BY <1>0, TakenCalls
  <2>7. EndedBeforeCall'
    BY <1>0, <2>1, <2>4, <2>5, <2>6 DEF EndedBeforeCall
  <2>8. Leaked'
    BY <1>0, <1>3 DEF Leaked, SendRequest
  <2> QED
    BY <2>1, <2>3, <2>4, <2>7, <2>8 DEF InvBase
<1>4. CASE SubscribeToReply
  <2>1. Append(subsToBroker, "subscribe") \in Seq(Updates)
    BY <1>0, Push DEF TypeOK, Updates
  <2>2. TypeOK'
    BY <1>0, <1>4, <2>1 DEF TypeOK, SubscribeToReply
  <2>3. Cardinality(expired) \in Nat
    BY <1>0, Finite DEF TypeOK
  <2>4. Leaked'
    BY <1>0, <1>4, <2>3 DEF Leaked, SubscribeToReply
  <2> QED
    BY <1>0, <1>4, <2>2, <2>4 DEF InvBase, EndedBeforeCall, InCall, SubscribeToReply
<1>5. CASE ReceiveReply
  <2>1. /\ toClient' \in Seq(Calls) /\ subscribed \in Nat /\ subscribed >= 1
        /\ taken' \in Seq([call : Calls, reply : Calls])
        /\ Len(taken) \in Nat /\ Len(taken') = Len(taken) + 1
        /\ \A i \in 1 .. Len(taken) : taken'[i] = taken[i]
        /\ taken'[Len(taken) + 1].call = call
        /\ call \in Calls
    BY <1>5, ReceiveProperties
  <2>2. Append(subsToBroker, "unsubscribe") \in Seq(Updates)
    BY <1>0, Push DEF TypeOK, Updates
  <2>3. TypeOK'
    BY <1>0, <1>5, <2>1, <2>2 DEF TypeOK, ReceiveReply
  <2>4. Cardinality(expired) \in Nat
    BY <1>0, Finite DEF TypeOK
  <2>5. Leaked'
    BY <1>0, <1>5, <2>1, <2>4 DEF Leaked, ReceiveReply
  <2>6. loop = "recv" /\ loop' = "send" /\ call' = call /\ expired' = expired
    BY <1>5 DEF ReceiveReply
  <2>7. \A i \in 1 .. Len(taken') : i \in 1 .. Len(taken) \/ i = Len(taken) + 1
    BY <2>1
  <2>8. call \in Int
    BY <2>1, BusAssumption DEF Calls
  <2>9. EndedBeforeCall'
    BY <1>0, <2>1, <2>6, <2>7, <2>8 DEF EndedBeforeCall, InCall
  <2> QED
    BY <2>3, <2>5, <2>6, <2>9 DEF InvBase, InCall
<1>6. CASE Expire
  <2>1. loop = "recv" /\ loop' = "send" /\ call' = call /\ expired' = expired \cup {call}
        /\ UNCHANGED <<subscribed, taken>> /\ InCall /\ ~InCall'
    BY <1>6 DEF Expire, InCall
  <2>2. call \in Calls /\ call \in Int
    BY <1>0, <2>1, BusAssumption DEF TypeOK, Calls
  <2>3. TypeOK'
    BY <1>0, <1>6, <2>1, <2>2 DEF TypeOK, Expire
  <2>4. call \notin expired
    BY <1>0, <2>1, <2>2 DEF EndedBeforeCall
  <2>5. /\ Cardinality(expired) \in Nat
        /\ Cardinality(expired \cup {call}) = Cardinality(expired) + 1
    BY <1>0, <2>4, Finite, FS_AddElement DEF TypeOK
  <2>6. Leaked'
    BY <1>0, <2>1, <2>5 DEF Leaked
  <2>7. EndedBeforeCall'
    BY <1>0, <2>1, <2>2 DEF EndedBeforeCall
  <2> QED
    BY <2>1, <2>3, <2>6, <2>7 DEF InvBase
<1>7. CASE rpc_server_start
  BY <1>0, <1>1, <1>7 DEF TypeOK, rpc_server_start
<1>8. CASE AnnounceServer
  BY <1>0, <1>1, <1>8 DEF TypeOK, AnnounceServer
<1>9. CASE ForwardRequest
  <2>1. Tail(toBroker) \in Seq(Calls) /\ Append(toServer, Head(toBroker)) \in Seq(Calls)
    BY <1>0, <1>9, Pop, Push DEF TypeOK, ForwardRequest
  <2> QED
    BY <1>0, <1>1, <1>9, <2>1 DEF TypeOK, ForwardRequest
<1>10. CASE rpc_handle_req
  <2>1. Tail(toServer) \in Seq(Calls) /\ Append(fromServer, Head(toServer)) \in Seq(Calls)
    BY <1>0, <1>10, Pop, Push DEF TypeOK, rpc_handle_req
  <2> QED
    BY <1>0, <1>1, <1>10, <2>1 DEF TypeOK, rpc_handle_req
<1>11. CASE ForwardReply
  <2>1. Tail(fromServer) \in Seq(Calls) /\ Append(toClient, Head(fromServer)) \in Seq(Calls)
    BY <1>0, <1>11, Pop, Push DEF TypeOK, ForwardReply
  <2> QED
    BY <1>0, <1>1, <1>11, <2>1 DEF TypeOK, ForwardReply
<1>12. CASE ForwardSubscription
  <2>1. /\ Tail(subsToBroker) \in Seq(Updates)
        /\ Append(subsToServer, Head(subsToBroker)) \in Seq(Updates)
    BY <1>0, <1>12, Pop, Push DEF TypeOK, ForwardSubscription
  <2> QED
    BY <1>0, <1>1, <1>12, <2>1 DEF TypeOK, ForwardSubscription
<1>13. CASE ServerLearns
  <2>1. Tail(subsToServer) \in Seq(Updates)
    BY <1>0, <1>13, Pop DEF TypeOK, ServerLearns
  <2> QED
    BY <1>0, <1>1, <1>13, <2>1 DEF TypeOK, ServerLearns
<1>14. CASE UNCHANGED vars
  BY <1>0, <1>1, <1>14 DEF TypeOK, vars
<1> QED
  BY <1>2, <1>3, <1>4, <1>5, <1>6, <1>7, <1>8, <1>9, <1>10, <1>11, <1>12, <1>13, <1>14
     DEF Next, client, msgq_fe_thread_async, msgq_be_thread_sync

(* Types.  In particular the client never takes back a subscription that it has
   not made: subscribed stays a natural number.                              *)
THEOREM TypeCorrect == Spec => []TypeOK
<1>1. InvBase => TypeOK
  BY DEF InvBase
<1> QED
  BY <1>1, InitBase, NextBase, PTL DEF Spec

------------------------------------------------------------------------------
(* What taking a call from queue q and adding it to the queue p before it, or
   dropping it, does to their order; p2 and q2 are the queues afterwards.    *)
Moved(p, q, p2, q2) ==
  /\ p2 \in Seq(Calls) /\ q2 \in Seq(Calls)
  /\ Sorted(p2) /\ Sorted(q2) /\ Before(p2, q2)
  /\ \A n \in Int : /\ Below(p, n) /\ Below(q, n) => Below(p2, n) /\ Below(q2, n)
                    /\ Above(p, n) /\ Above(q, n) => Above(p2, n) /\ Above(q2, n)
  /\ \A r \in Seq(Calls) :
       /\ Before(r, p) /\ Before(r, q) => Before(r, p2) /\ Before(r, q2)
       /\ Before(p, r) /\ Before(q, r) => Before(p2, r) /\ Before(q2, r)

LEMMA MoveOrder ==
  ASSUME NEW p \in Seq(Calls), NEW q \in Seq(Calls), q # <<>>,
         Sorted(p), Sorted(q), Before(p, q),
         NEW p2, p2 = p \/ p2 = Append(p, Head(q)),
         NEW q2, q2 = Tail(q)
  PROVE  Moved(p, q, p2, q2)
<1> DEFINE h == Head(q)
           t == Tail(q)
           a == Append(p, h)
<1>1. h \in Calls /\ t \in Seq(Calls) /\ a \in Seq(Calls)
  BY Pop, Push
<1>2. /\ Sorted(t) /\ Above(t, h) /\ Before(p, t) /\ Below(p, h)
      /\ \A n \in Int : Below(q, n) => Below(t, n) /\ h < n
      /\ \A n \in Int : Above(q, n) => Above(t, n) /\ n < h
      /\ \A r \in Seq(Calls) : Before(r, q) => Before(r, t) /\ Below(r, h)
      /\ \A r \in Seq(Calls) : Before(q, r) => Before(t, r) /\ Above(r, h)
  BY PopOrder
<1>3. /\ Sorted(p) /\ Below(p, h) => Sorted(a)
      /\ \A n \in Int : Below(p, n) /\ h < n => Below(a, n)
      /\ \A n \in Int : Above(p, n) /\ n < h => Above(a, n)
      /\ \A r \in Seq(Calls) : Before(r, p) /\ Below(r, h) => Before(r, a)
      /\ \A r \in Seq(Calls) : Before(p, r) /\ Above(r, h) => Before(a, r)
  <2> HIDE DEF h
  <2> QED
    BY <1>1, PushOrder
<1>4. p2 = p \/ p2 = a
  OBVIOUS
<1>5. q2 = t
  OBVIOUS
<1> HIDE DEF h, t, a
<1>6. p2 \in Seq(Calls) /\ Sorted(p2) /\ Before(p2, t)
  BY <1>1, <1>2, <1>3, <1>4
<1>7. \A n \in Int :
        /\ Below(p, n) /\ Below(q, n) => Below(p2, n) /\ Below(t, n)
        /\ Above(p, n) /\ Above(q, n) => Above(p2, n) /\ Above(t, n)
  BY <1>2, <1>3, <1>4
<1>8. \A r \in Seq(Calls) :
        /\ Before(r, p) /\ Before(r, q) => Before(r, p2) /\ Before(r, t)
        /\ Before(p, r) /\ Before(q, r) => Before(p2, r) /\ Before(t, r)
  BY <1>2, <1>3, <1>4
<1> QED
  BY <1>1, <1>2, <1>5, <1>6, <1>7, <1>8 DEF Moved

LEMMA InitOrder == Init => InvOrder
<1> SUFFICES ASSUME Init PROVE InvOrder
  OBVIOUS
<1>1. /\ Len(toClient) = 0 /\ Len(fromServer) = 0 /\ Len(toServer) = 0
      /\ Len(toBroker) = 0 /\ Len(taken) = 0 /\ DOMAIN taken = {}
  BY EmptySeq DEF Init
<1>2. QueuesInOrder
  BY <1>1 DEF QueuesInOrder, Sorted, Before
<1>3. QueuesUpToCall
  BY <1>1 DEF QueuesUpToCall, Below
<1> QED
  BY <1>1, <1>2, <1>3 DEF InvOrder, TakenFirst, RepliesInOrder

LEMMA NextOrder == InvBase /\ InvOrder /\ [Next]_vars => InvOrder'
<1> SUFFICES ASSUME InvBase, InvOrder, [Next]_vars PROVE InvOrder'
  OBVIOUS
<1> USE DEF clientVars, requestVars, replyVars, subVars, historyVars
<1>0. /\ QueuesInOrder /\ QueuesUpToCall /\ TakenFirst /\ RepliesInOrder
      /\ toBroker \in Seq(Calls) /\ toServer \in Seq(Calls)
      /\ fromServer \in Seq(Calls) /\ toClient \in Seq(Calls)
      /\ call \in Int
      /\ \A i \in 1 .. Len(taken) : taken[i].reply \in Int
  <2>1. \A i \in 1 .. Len(taken) : taken[i].reply \in Int
    <3>1. TypeOK
      BY DEF InvBase
    <3> QED
      BY <3>1, TakenCalls
  <2> QED
    BY <2>1, BusAssumption DEF InvBase, InvOrder, TypeOK
<1>1. ASSUME UNCHANGED <<call, toBroker, toServer, fromServer, toClient, taken>>
      PROVE  InvOrder'
  BY <1>0, <1>1 DEF InvOrder, QueuesInOrder, QueuesUpToCall, TakenFirst, RepliesInOrder
<1>2. CASE get_reply_socket
  BY <1>1, <1>2 DEF get_reply_socket
<1>3. CASE SendRequest
  <2>1. /\ UNCHANGED <<toServer, fromServer, toClient, taken>> /\ call' = call + 1
        /\ toBroker' = toBroker \/ toBroker' = Append(toBroker, call + 1)
    BY <1>3 DEF SendRequest
  <2>2. call + 1 \in Calls /\ call + 1 \in Int /\ call + 1 < call' + 1 /\ call + 1 <= call' + 1
    BY <1>0, <1>3, BusAssumption DEF InvBase, TypeOK, SendRequest, Calls
  <2>3. /\ Sorted(toBroker')
        /\ \A p \in Seq(Calls) :
             Before(p, toBroker) /\ Below(p, call + 1) => Before(p, toBroker')
        /\ Below(toBroker', call' + 1)
        /\ \A n \in Int : Above(toBroker, n) /\ n < call + 1 => Above(toBroker', n)
    <3>1. Sorted(toBroker) /\ Below(toBroker, call + 1)
      BY <1>0 DEF QueuesInOrder, QueuesUpToCall
    <3>2. call' + 1 \in Int /\ Below(toBroker, call' + 1)
      BY <1>0, <2>1, <2>2, <3>1, BelowMore
    <3>3. CASE toBroker' = toBroker
      BY <3>1, <3>2, <3>3
    <3>4. CASE toBroker' = Append(toBroker, call + 1)
      BY <1>0, <2>2, <3>1, <3>2, <3>4, PushOrder, Zenon
    <3> QED
      BY <2>1, <3>3, <3>4
  <2>4. QueuesInOrder'
    BY <1>0, <2>1, <2>3 DEF QueuesInOrder, QueuesUpToCall
  <2>5. QueuesUpToCall'
    BY <1>0, <2>1, <2>2, <2>3, BelowMore DEF QueuesUpToCall
  <2>6. TakenFirst'
    BY <1>0, <2>1, <2>3 DEF TakenFirst
  <2> QED
    BY <1>0, <2>1, <2>4, <2>5, <2>6 DEF InvOrder, RepliesInOrder
<1>4. CASE SubscribeToReply
  BY <1>1, <1>4 DEF SubscribeToReply
<1>5. CASE ReceiveReply
  <2> DEFINE h == Head(toClient)
  <2>1. /\ UNCHANGED <<call, toBroker, toServer, fromServer>>
        /\ toClient # <<>> /\ toClient' = Tail(toClient)
    BY <1>5 DEF ReceiveReply
  <2>2. /\ h \in Calls /\ h \in Int /\ toClient' \in Seq(Calls)
        /\ taken' \in Seq([call : Calls, reply : Calls])
        /\ Len(taken) \in Nat /\ Len(taken') = Len(taken) + 1
        /\ \A i \in 1 .. Len(taken) : taken'[i] = taken[i]
        /\ taken'[Len(taken) + 1].reply = h
    <3>1. \A c \in Calls : c \in Int
      BY BusAssumption DEF Calls
    <3> QED
      BY <1>5, <3>1, ReceiveProperties
  <2> HIDE DEF h
  <2>3. /\ Sorted(toClient') /\ Above(toClient', h) /\ Below(toClient', call + 1)
        /\ h < call + 1
        /\ \A n \in Int : Above(toClient, n) => Above(toClient', n) /\ n < h
        /\ \A p \in Seq(Calls) : Before(toClient, p) => Before(toClient', p) /\ Above(p, h)
    <3>1. Sorted(toClient) /\ Below(toClient, call + 1) /\ call + 1 \in Int
      BY <1>0 DEF QueuesInOrder, QueuesUpToCall
    <3> QED
      BY <1>0, <2>1, <3>1, PopOrder DEF h
  <2>4. QueuesInOrder'
    BY <1>0, <2>1, <2>3 DEF QueuesInOrder
  <2>5. QueuesUpToCall'
    BY <1>0, <2>1, <2>3 DEF QueuesUpToCall
  <2>6. \A i \in 1 .. Len(taken') :
          \/ i \in 1 .. Len(taken) /\ taken'[i] = taken[i]
          \/ i = Len(taken) + 1 /\ taken'[i].reply = h
    BY <2>2
  <2>7. Above(fromServer, h) /\ Above(toServer, h) /\ Above(toBroker, h)
    BY <1>0, <2>3 DEF QueuesInOrder
  <2>8. TakenFirst'
    <3> SUFFICES ASSUME NEW i \in 1 .. Len(taken')
                 PROVE  /\ taken'[i].reply <= call
                        /\ Above(toClient', taken'[i].reply)
                        /\ Above(fromServer, taken'[i].reply)
                        /\ Above(toServer, taken'[i].reply)
                        /\ Above(toBroker, taken'[i].reply)
      BY <2>1 DEF TakenFirst
    <3>1. CASE i \in 1 .. Len(taken) /\ taken'[i] = taken[i]
      BY <1>0, <2>3, <3>1 DEF TakenFirst
    <3>2. CASE i = Len(taken) + 1 /\ taken'[i].reply = h
      BY <1>0, <2>2, <2>3, <2>7, <3>2
    <3> QED
      BY <2>6, <3>1, <3>2
  <2>9. RepliesInOrder'
    <3> SUFFICES ASSUME NEW i \in 1 .. Len(taken'), NEW j \in 1 .. Len(taken'), i < j
                 PROVE  taken'[i].reply < taken'[j].reply
      BY <2>2, LenProperties DEF RepliesInOrder
    <3>1. i \in 1 .. Len(taken) /\ taken'[i] = taken[i]
      BY <2>2, <2>6
    <3>2. CASE j \in 1 .. Len(taken) /\ taken'[j] = taken[j]
      <4>1. i \in DOMAIN taken /\ j \in DOMAIN taken
        BY <3>1, <3>2, LenProperties DEF InvBase, TypeOK
      <4> QED
        BY <1>0, <3>1, <3>2, <4>1 DEF RepliesInOrder
    <3>3. CASE j = Len(taken) + 1 /\ taken'[j].reply = h
      BY <1>0, <2>3, <3>1, <3>3 DEF TakenFirst
    <3> QED
      BY <2>6, <3>2, <3>3
  <2> QED
    BY <2>4, <2>5, <2>8, <2>9 DEF InvOrder
<1>6. CASE Expire
  BY <1>1, <1>6 DEF Expire
<1>7. CASE rpc_server_start
  BY <1>1, <1>7 DEF rpc_server_start
<1>8. CASE AnnounceServer
  BY <1>1, <1>8 DEF AnnounceServer
<1>9. CASE ForwardRequest
  <2>1. /\ UNCHANGED <<call, fromServer, toClient, taken>>
        /\ toBroker # <<>> /\ toBroker' = Tail(toBroker)
        /\ toServer' = toServer \/ toServer' = Append(toServer, Head(toBroker))
    BY <1>9 DEF ForwardRequest
  <2>2. Moved(toServer, toBroker, toServer', toBroker')
    <3>1. Sorted(toServer) /\ Sorted(toBroker) /\ Before(toServer, toBroker)
      BY <1>0 DEF QueuesInOrder
    <3> QED
      BY <1>0, <2>1, <3>1, MoveOrder, Zenon
  <2>3. QueuesInOrder'
    BY <1>0, <2>1, <2>2 DEF Moved, QueuesInOrder
  <2>4. QueuesUpToCall'
    BY <1>0, <2>1, <2>2 DEF Moved, QueuesUpToCall
  <2>5. TakenFirst'
    BY <1>0, <2>1, <2>2 DEF Moved, TakenFirst
  <2> QED
    BY <1>0, <2>1, <2>3, <2>4, <2>5 DEF InvOrder, RepliesInOrder
<1>10. CASE rpc_handle_req
  <2>1. /\ UNCHANGED <<call, toBroker, toClient, taken>>
        /\ toServer # <<>> /\ toServer' = Tail(toServer)
        /\ fromServer' = fromServer \/ fromServer' = Append(fromServer, Head(toServer))
    BY <1>10 DEF rpc_handle_req
  <2>2. Moved(fromServer, toServer, fromServer', toServer')
    <3>1. Sorted(fromServer) /\ Sorted(toServer) /\ Before(fromServer, toServer)
      BY <1>0 DEF QueuesInOrder
    <3> QED
      BY <1>0, <2>1, <3>1, MoveOrder, Zenon
  <2>3. QueuesInOrder'
    BY <1>0, <2>1, <2>2 DEF Moved, QueuesInOrder
  <2>4. QueuesUpToCall'
    BY <1>0, <2>1, <2>2 DEF Moved, QueuesUpToCall
  <2>5. TakenFirst'
    BY <1>0, <2>1, <2>2 DEF Moved, TakenFirst
  <2> QED
    BY <1>0, <2>1, <2>3, <2>4, <2>5 DEF InvOrder, RepliesInOrder
<1>11. CASE ForwardReply
  <2>1. /\ UNCHANGED <<call, toBroker, toServer, taken>>
        /\ fromServer # <<>> /\ fromServer' = Tail(fromServer)
        /\ toClient' = toClient \/ toClient' = Append(toClient, Head(fromServer))
    BY <1>11 DEF ForwardReply
  <2>2. Moved(toClient, fromServer, toClient', fromServer')
    <3>1. Sorted(toClient) /\ Sorted(fromServer) /\ Before(toClient, fromServer)
      BY <1>0 DEF QueuesInOrder
    <3> QED
      BY <1>0, <2>1, <3>1, MoveOrder, Zenon
  <2>3. QueuesInOrder'
    BY <1>0, <2>1, <2>2 DEF Moved, QueuesInOrder
  <2>4. QueuesUpToCall'
    BY <1>0, <2>1, <2>2 DEF Moved, QueuesUpToCall
  <2>5. TakenFirst'
    BY <1>0, <2>1, <2>2 DEF Moved, TakenFirst
  <2> QED
    BY <1>0, <2>1, <2>3, <2>4, <2>5 DEF InvOrder, RepliesInOrder
<1>12. CASE ForwardSubscription
  BY <1>1, <1>12 DEF ForwardSubscription
<1>13. CASE ServerLearns
  BY <1>1, <1>13 DEF ServerLearns
<1>14. CASE UNCHANGED vars
  BY <1>1, <1>14 DEF vars
<1> QED
  BY <1>2, <1>3, <1>4, <1>5, <1>6, <1>7, <1>8, <1>9, <1>10, <1>11, <1>12, <1>13, <1>14
     DEF Next, client, msgq_fe_thread_async, msgq_be_thread_sync

(* Whatever the delays and however many calls expire, the client takes no reply
   twice and none after a newer one.                                         *)
THEOREM InOrder == Spec => []RepliesInOrder
<1>1. InvOrder => RepliesInOrder
  BY DEF InvOrder
<1> QED
  BY <1>1, InitBase, NextBase, InitOrder, NextOrder, PTL DEF Spec

------------------------------------------------------------------------------
LEMMA InitLag == Init => InvLag
<1> SUFFICES ASSUME Init PROVE InvLag
  OBVIOUS
<1>1. Len(taken) = 0 /\ Cardinality(expired) = 0 /\ call = 0 /\ ~InCall
  BY EmptySeq, FS_EmptySet DEF Init, InCall
<1> QED
  BY <1>1 DEF InvLag, CallsCounted, TakenCounted

LEMMA NextLag == InvBase /\ InvOrder /\ InvLag /\ [Next]_vars => InvLag'
<1> SUFFICES ASSUME InvBase, InvOrder, InvLag, [Next]_vars PROVE InvLag'
  OBVIOUS
<1> USE DEF clientVars, requestVars, replyVars, subVars, historyVars
<1>0. /\ CallsCounted /\ TakenCounted /\ EndedBeforeCall /\ TakenFirst
      /\ call \in Int /\ Len(taken) \in Nat /\ Cardinality(expired) \in Nat
      /\ expired \subseteq Calls /\ Calls \subseteq Int
      /\ \A i \in 1 .. Len(taken) : taken[i].call \in Int /\ taken[i].reply \in Int
  BY TakenCalls, Finite, LenProperties, BusAssumption
     DEF InvBase, InvOrder, InvLag, TypeOK, Calls
<1>1. ASSUME UNCHANGED <<call, taken, expired>>, InCall' = InCall PROVE InvLag'
  BY <1>0, <1>1 DEF InvLag, CallsCounted, TakenCounted, ExpiredBelow
<1>2. CASE SendRequest
  <2>1. ~InCall /\ InCall' /\ call' = call + 1 /\ UNCHANGED <<taken, expired>>
    BY <1>2 DEF SendRequest, InCall
  <2> QED
    BY <1>0, <2>1 DEF InvLag, CallsCounted, TakenCounted, ExpiredBelow
<1>3. CASE ReceiveReply
  <2>1. InCall /\ ~InCall' /\ UNCHANGED <<call, expired>>
    BY <1>3 DEF ReceiveReply, InCall
  <2> DEFINE h == Head(toClient)
             n == Len(taken)
  <2>2. /\ h \in Int /\ h >= 1 /\ n \in Nat /\ Len(taken') = n + 1
        /\ \A i \in 1 .. n : taken'[i] = taken[i]
        /\ taken'[n + 1].call = call /\ taken'[n + 1].reply = h
    BY <1>3, ReceiveProperties, BusAssumption DEF Calls
  <2>3. \A m \in Int : Above(toClient, m) => m < h
    BY <1>3, PopOrder DEF InvBase, TypeOK, ReceiveReply
  <2> HIDE DEF h, n
  <2>4. h >= n + 1
    <3>1. CASE n = 0
      BY <2>2, <3>1
    <3>2. CASE n >= 1
      <4>1. n \in 1 .. Len(taken)
        BY <2>2, <3>2 DEF n
      <4>2. taken[n].reply >= n /\ taken[n].reply \in Int /\ Above(toClient, taken[n].reply)
        BY <1>0, <4>1 DEF TakenCounted, TakenFirst
      <4> QED
        BY <2>2, <2>3, <4>2
    <3> QED
      BY <2>2, <3>1, <3>2
  <2>5. CallsCounted'
    BY <1>0, <2>1, <2>2 DEF CallsCounted, n
  <2>6. call = n + 1 + Cardinality(ExpiredBelow(call))
    <3>1. ExpiredBelow(call) = expired
      BY <1>0, <2>1 DEF EndedBeforeCall, ExpiredBelow
    <3> QED
      BY <1>0, <2>1, <2>2, <3>1 DEF CallsCounted, n
  <2>7. TakenCounted'
    <3> SUFFICES ASSUME NEW i \in 1 .. n + 1
                 PROVE  /\ taken'[i].reply >= i
                        /\ taken'[i].call = i + Cardinality(ExpiredBelow(taken'[i].call))
      BY <2>1, <2>2 DEF TakenCounted, ExpiredBelow
    <3>1. CASE i \in 1 .. n
      BY <1>0, <2>2, <3>1 DEF TakenCounted, n
    <3>2. CASE i = n + 1
      BY <2>2, <2>4, <2>6, <3>2
    <3> QED
      BY <2>2, <3>1, <3>2
  <2> QED
    BY <2>5, <2>7 DEF InvLag
<1>4. CASE Expire
  <2>1. InCall /\ ~InCall' /\ UNCHANGED <<call, taken>> /\ expired' = expired \cup {call}
    BY <1>4 DEF Expire, InCall
  <2>2. Cardinality(expired') = Cardinality(expired) + 1
    <3>1. call \notin expired
      BY <1>0, <2>1 DEF EndedBeforeCall
    <3> QED
      BY <1>0, <2>1, <3>1, Finite, FS_AddElement
  <2>3. CallsCounted'
    BY <1>0, <2>1, <2>2 DEF CallsCounted
  <2>4. \A i \in 1 .. Len(taken) : ExpiredBelow(taken[i].call)' = ExpiredBelow(taken[i].call)
    BY <1>0, <2>1 DEF EndedBeforeCall, ExpiredBelow
  <2>5. TakenCounted'
    BY <1>0, <2>1, <2>4 DEF TakenCounted
  <2> QED
    BY <2>3, <2>5 DEF InvLag
<1>5. CASE get_reply_socket
  BY <1>1, <1>5 DEF get_reply_socket, InCall
<1>6. CASE SubscribeToReply
  BY <1>1, <1>6 DEF SubscribeToReply, InCall
<1>7. CASE \/ rpc_server_start \/ msgq_fe_thread_async \/ rpc_handle_req
           \/ msgq_be_thread_sync \/ ServerLearns \/ UNCHANGED vars
  <2>1. UNCHANGED <<clientVars, historyVars>>
    BY <1>7 DEF rpc_server_start, msgq_fe_thread_async, AnnounceServer, ForwardRequest,
                rpc_handle_req, msgq_be_thread_sync, ForwardReply, ForwardSubscription,
                ServerLearns, vars
  <2> QED
    BY <1>1, <2>1 DEF InCall
<1> QED
  BY <1>2, <1>3, <1>4, <1>5, <1>6, <1>7 DEF Next, client

LEMMA LagFromInv == InvBase /\ InvLag => LagBounded
<1> SUFFICES ASSUME InvBase, InvLag, NEW i \in DOMAIN taken
             PROVE  taken[i].call - taken[i].reply
                      <= Cardinality({k \in expired : k < taken[i].call})
  BY DEF LagBounded
<1>1. i \in 1 .. Len(taken) /\ Len(taken) \in Nat
  BY LenProperties DEF InvBase, TypeOK
<1>2. taken[i].call \in Int /\ taken[i].reply \in Int
  BY <1>1, TakenCalls DEF InvBase
<1>3. /\ taken[i].reply >= i
      /\ taken[i].call = i + Cardinality(ExpiredBelow(taken[i].call))
  BY <1>1 DEF InvLag, TakenCounted
<1>4. Cardinality(ExpiredBelow(taken[i].call)) \in Nat
  BY Finite DEF InvBase, TypeOK, ExpiredBelow
<1>5. taken[i].call - taken[i].reply <= Cardinality(ExpiredBelow(taken[i].call))
  BY <1>1, <1>2, <1>3, <1>4
<1> QED
  BY <1>5 DEF ExpiredBelow

(* Whatever the delays, the reply a call is given is behind by no more calls
   than have expired before it: a client that never timed out is never given
   the reply to another call.                                                *)
THEOREM Lag == Spec => []LagBounded
BY InitBase, NextBase, InitOrder, NextOrder, InitLag, NextLag, LagFromInv, PTL DEF Spec

------------------------------------------------------------------------------
\* With no call under way nothing is in a queue that holds current calls only.
LEMMA IdleEmpty ==
  ASSUME NEW q \in Seq(Calls), OnlyCurrent(q), ~InCall
  PROVE  Len(q) = 0 /\ q = <<>>
<1>1. Len(q) \in Nat
  BY LenProperties
<1>2. Len(q) = 0
  <2>1. \A n \in Nat : n # 0 => 1 \in 1 .. n
    OBVIOUS
  <2> QED
    BY <1>1, <2>1, Zenon DEF OnlyCurrent
<1> QED
  BY <1>2, EmptySeq

LEMMA MoveCurrent ==
  ASSUME NEW p \in Seq(Calls), NEW q \in Seq(Calls), NEW p2, NEW q2,
         q # <<>>, Moved(p, q, p2, q2), call \in Int,
         Below(p, call + 1), Below(q, call + 1), OnlyCurrent(p), OnlyCurrent(q)
  PROVE  OnlyCurrent(p2) /\ OnlyCurrent(q2)
<1>1. InCall
  BY Pop DEF OnlyCurrent
<1>2. Above(p, call - 1) /\ Above(q, call - 1)
  BY DEF OnlyCurrent, Above
<1>3. /\ Below(p2, call + 1) /\ Below(q2, call + 1)
      /\ Above(p2, call - 1) /\ Above(q2, call - 1)
      /\ p2 \in Seq(Calls) /\ q2 \in Seq(Calls)
  BY <1>2 DEF Moved
<1>4. ASSUME NEW r \in Seq(Calls), Below(r, call + 1), Above(r, call - 1)
      PROVE  OnlyCurrent(r)
  BY <1>1, <1>4, Elements DEF Below, Above, OnlyCurrent
<1> QED
  BY <1>3, <1>4

\* A fast bus has been fast before.
LEMMA FastBefore == InvBase /\ [Next]_vars /\ Fast' => Fast
<1> SUFFICES ASSUME InvBase, [Next]_vars, Fast' PROVE Fast
  OBVIOUS
<1>1. call \in Int /\ FirstSlow \in Int
  BY BusAssumption DEF InvBase, TypeOK
<1>2. call' = call \/ call' = call + 1
  BY DEF Next, vars, client, msgq_fe_thread_async, msgq_be_thread_sync, clientVars,
     get_reply_socket, SendRequest, SubscribeToReply, ReceiveReply, Expire,
     rpc_server_start, AnnounceServer, ForwardRequest, rpc_handle_req, ForwardReply,
     ForwardSubscription, ServerLearns
<1> QED
  BY <1>1, <1>2 DEF Fast

LEMMA InitCurrent == Init => InvCurrent
<1> SUFFICES ASSUME Init PROVE InvCurrent
  OBVIOUS
<1>1. /\ Len(toClient) = 0 /\ Len(fromServer) = 0 /\ Len(toServer) = 0
      /\ Len(toBroker) = 0 /\ DOMAIN taken = {}
  BY EmptySeq DEF Init
<1> QED
  BY <1>1 DEF InvCurrent, OnlyCurrent, TakenCurrent

LEMMA NextCurrent ==
  InvBase /\ InvOrder /\ InvCurrent /\ [Next]_vars => InvCurrent'
<1> SUFFICES ASSUME InvBase, InvOrder, InvCurrent, [Next]_vars, Fast'
             PROVE  /\ OnlyCurrent(toClient)' /\ OnlyCurrent(fromServer)'
                    /\ OnlyCurrent(toServer)' /\ OnlyCurrent(toBroker)'
                    /\ TakenCurrent'
  BY DEF InvCurrent
<1> USE DEF clientVars, requestVars, replyVars, subVars, historyVars
<1>f. Fast
  BY FastBefore
<1>0. /\ OnlyCurrent(toClient) /\ OnlyCurrent(fromServer)
      /\ OnlyCurrent(toServer) /\ OnlyCurrent(toBroker) /\ TakenCurrent
      /\ toBroker \in Seq(Calls) /\ toServer \in Seq(Calls)
      /\ fromServer \in Seq(Calls) /\ toClient \in Seq(Calls)
      /\ Below(toClient, call + 1) /\ Below(fromServer, call + 1)
      /\ Below(toServer, call + 1) /\ Below(toBroker, call + 1)
      /\ QueuesInOrder /\ call \in Int
  BY <1>f, BusAssumption DEF InvCurrent, InvBase, InvOrder, TypeOK, QueuesUpToCall
<1>1. ASSUME UNCHANGED <<call, toBroker, toServer, fromServer, toClient, taken>>,
             InCall' = InCall
      PROVE  /\ OnlyCurrent(toClient)' /\ OnlyCurrent(fromServer)'
             /\ OnlyCurrent(toServer)' /\ OnlyCurrent(toBroker)'
             /\ TakenCurrent'
  BY <1>0, <1>1 DEF OnlyCurrent, TakenCurrent
<1>2. CASE SendRequest
  <2>1. /\ ~InCall /\ InCall' /\ call' = call + 1 /\ call + 1 \in Calls
        /\ UNCHANGED <<toServer, fromServer, toClient, taken>>
        /\ toBroker' = toBroker \/ toBroker' = Append(toBroker, call + 1)
    BY <1>2, BusAssumption DEF InvBase, TypeOK, SendRequest, InCall, Calls
  <2>2. /\ Len(toClient) = 0 /\ Len(fromServer) = 0 /\ Len(toServer) = 0
        /\ Len(toBroker) = 0
    <3>1. ASSUME NEW q \in Seq(Calls), OnlyCurrent(q) PROVE Len(q) = 0
      BY <2>1, <3>1, IdleEmpty, Zenon
    <3> QED
      BY <1>0, <3>1, Zenon
  <2>3. OnlyCurrent(toBroker)'
    <3>1. CASE toBroker' = toBroker
      BY <2>2, <3>1 DEF OnlyCurrent
    <3>2. CASE toBroker' = Append(toBroker, call + 1)
      <4>1. /\ Len(Append(toBroker, call + 1)) = Len(toBroker) + 1
            /\ Append(toBroker, call + 1)[Len(toBroker) + 1] = call + 1
        BY <1>0, <2>1, Push
      <4>2. Len(toBroker') = 1 /\ toBroker'[1] = call'
        <5>1. 0 + 1 = 1
          OBVIOUS
        <5> QED
          BY <2>1, <2>2, <3>2, <4>1, <5>1, Zenon
      <4>3. \A i \in 1 .. Len(toBroker') : i = 1
        BY <4>2
      <4> QED
        BY <2>1, <4>2, <4>3, Zenon DEF OnlyCurrent
    <3> QED
      BY <2>1, <3>1, <3>2
  <2>4. ASSUME NEW q, Len(q) = 0, NEW i \in 1 .. Len(q) PROVE FALSE
    BY <2>4
  <2>5. OnlyCurrent(toClient)' /\ OnlyCurrent(fromServer)' /\ OnlyCurrent(toServer)'
    BY <2>1, <2>2, <2>4, Zenon DEF OnlyCurrent
  <2>6. TakenCurrent'
    BY <1>0, <2>1 DEF TakenCurrent
  <2> QED
    BY <2>3, <2>5, <2>6
<1>3. CASE ReceiveReply
  <2>1. /\ UNCHANGED <<call, toBroker, toServer, fromServer>> /\ InCall
        /\ toClient # <<>> /\ toClient' = Tail(toClient)
    BY <1>3 DEF ReceiveReply, InCall
  <2>2. /\ Len(toClient) \in Nat /\ Len(toClient) >= 1 /\ Head(toClient) = toClient[1]
        /\ Len(toClient') = Len(toClient) - 1
    BY <1>0, <2>1, Pop
  <2>3. toClient[1] = call /\ 1 \in 1 .. Len(toClient)
    BY <1>0, <2>2 DEF OnlyCurrent
  <2>4. Len(toClient) = 1
    <3>1. ASSUME Len(toClient) >= 2 PROVE FALSE
      <4>1. 2 \in 1 .. Len(toClient)
        BY <2>2, <3>1
      <4>2. toClient[2] = call /\ toClient[1] < toClient[2]
        BY <1>0, <2>3, <4>1 DEF OnlyCurrent, QueuesInOrder, Sorted
      <4> QED
        BY <1>0, <2>3, <4>2
    <3> QED
      BY <2>2, <3>1
  <2>5. ASSUME NEW q, Before(toClient, q), OnlyCurrent(q), NEW i \in 1 .. Len(q)
        PROVE  FALSE
    <3>1. q[i] = call /\ toClient[1] < q[i]
      BY <2>3, <2>5 DEF OnlyCurrent, Before
    <3> QED
      BY <1>0, <2>3, <3>1
  <2>6. /\ OnlyCurrent(toClient)' /\ OnlyCurrent(fromServer)'
        /\ OnlyCurrent(toServer)' /\ OnlyCurrent(toBroker)'
    <3>1. \A i \in 1 .. Len(toClient') : FALSE
      BY <2>2, <2>4
    <3>2. OnlyCurrent(toClient)'
      BY <3>1 DEF OnlyCurrent
    <3>3. Before(toClient, fromServer) /\ Before(toClient, toServer)
          /\ Before(toClient, toBroker)
      BY <1>0 DEF QueuesInOrder
    <3>4. OnlyCurrent(fromServer)' /\ OnlyCurrent(toServer)' /\ OnlyCurrent(toBroker)'
      BY <1>0, <2>1, <2>5, <3>3, Zenon DEF OnlyCurrent
    <3> QED
      BY <3>2, <3>4
  <2>7. /\ Len(taken) \in Nat /\ taken' \in Seq([call : Calls, reply : Calls])
        /\ Len(taken') = Len(taken) + 1
        /\ \A i \in 1 .. Len(taken) : taken'[i] = taken[i]
        /\ taken'[Len(taken) + 1].call = call
        /\ taken'[Len(taken) + 1].reply = Head(toClient)
    BY <1>3, ReceiveProperties
  <2>8. TakenCurrent'
    <3> SUFFICES ASSUME NEW i \in 1 .. Len(taken')
                 PROVE  taken'[i].reply = taken'[i].call
      BY <2>7, LenProperties DEF TakenCurrent
    <3>1. CASE i \in 1 .. Len(taken)
      <4>1. i \in DOMAIN taken
        BY <3>1, LenProperties DEF InvBase, TypeOK
      <4> QED
        BY <1>0, <2>7, <3>1, <4>1 DEF TakenCurrent
    <3>2. CASE i = Len(taken) + 1
      BY <2>2, <2>3, <2>7, <3>2
    <3> QED
      BY <2>7, <3>1, <3>2
  <2> QED
    BY <2>6, <2>8
<1>4. CASE Expire
  <2>1. /\ toClient = <<>> /\ toBroker = <<>> /\ toServer = <<>> /\ fromServer = <<>>
        /\ UNCHANGED <<toClient, toBroker, toServer, fromServer, taken>>
    BY <1>4, <1>f DEF Expire, Quiet
  <2>2. /\ Len(toClient) = 0 /\ Len(toBroker) = 0 /\ Len(toServer) = 0
        /\ Len(fromServer) = 0
    BY <2>1, EmptySeq
  <2> QED
    BY <1>0, <2>1, <2>2 DEF OnlyCurrent, TakenCurrent
<1>5. CASE ForwardRequest
  <2>1. UNCHANGED <<clientVars, toClient, fromServer, taken>> /\ toBroker # <<>>
    BY <1>5 DEF ForwardRequest
  <2>2. Moved(toServer, toBroker, toServer', toBroker')
    <3>1. Sorted(toServer) /\ Sorted(toBroker) /\ Before(toServer, toBroker)
      BY <1>0 DEF QueuesInOrder
    <3>2. toServer' = Append(toServer, Head(toBroker)) /\ toBroker' = Tail(toBroker)
      BY <1>5 DEF ForwardRequest
    <3> QED
      BY <1>0, <2>1, <3>1, <3>2, MoveOrder, Zenon
  <2>3. OnlyCurrent(toServer') /\ OnlyCurrent(toBroker')
    BY <1>0, <2>1, <2>2, MoveCurrent, Zenon
  <2> QED
    BY <1>0, <2>1, <2>3 DEF OnlyCurrent, TakenCurrent, InCall
<1>6. CASE rpc_handle_req
  <2>1. UNCHANGED <<clientVars, toClient, toBroker, taken>> /\ toServer # <<>>
    BY <1>6 DEF rpc_handle_req
  <2>2. Moved(fromServer, toServer, fromServer', toServer')
    <3>1. Sorted(fromServer) /\ Sorted(toServer) /\ Before(fromServer, toServer)
      BY <1>0 DEF QueuesInOrder
    <3>2. /\ fromServer' = fromServer \/ fromServer' = Append(fromServer, Head(toServer))
          /\ toServer' = Tail(toServer)
      BY <1>6 DEF rpc_handle_req
    <3> QED
      BY <1>0, <2>1, <3>1, <3>2, MoveOrder, Zenon
  <2>3. OnlyCurrent(fromServer') /\ OnlyCurrent(toServer')
    BY <1>0, <2>1, <2>2, MoveCurrent, Zenon
  <2> QED
    BY <1>0, <2>1, <2>3 DEF OnlyCurrent, TakenCurrent, InCall
<1>7. CASE ForwardReply
  <2>1. UNCHANGED <<clientVars, toServer, toBroker, taken>> /\ fromServer # <<>>
    BY <1>7 DEF ForwardReply
  <2>2. Moved(toClient, fromServer, toClient', fromServer')
    <3>1. Sorted(toClient) /\ Sorted(fromServer) /\ Before(toClient, fromServer)
      BY <1>0 DEF QueuesInOrder
    <3>2. /\ toClient' = toClient \/ toClient' = Append(toClient, Head(fromServer))
          /\ fromServer' = Tail(fromServer)
      BY <1>7 DEF ForwardReply
    <3> QED
      BY <1>0, <2>1, <3>1, <3>2, MoveOrder, Zenon
  <2>3. OnlyCurrent(toClient') /\ OnlyCurrent(fromServer')
    BY <1>0, <2>1, <2>2, MoveCurrent, Zenon
  <2> QED
    BY <1>0, <2>1, <2>3 DEF OnlyCurrent, TakenCurrent, InCall
<1>8. CASE get_reply_socket
  BY <1>1, <1>8 DEF get_reply_socket, InCall
<1>9. CASE SubscribeToReply
  BY <1>1, <1>9 DEF SubscribeToReply, InCall
<1>10. CASE \/ rpc_server_start \/ AnnounceServer \/ ForwardSubscription
            \/ ServerLearns \/ UNCHANGED vars
  <2>1. UNCHANGED <<clientVars, historyVars, toBroker, toServer, replyVars>>
    BY <1>10 DEF rpc_server_start, AnnounceServer, ForwardSubscription, ServerLearns, vars
  <2> QED
    BY <1>1, <2>1 DEF InCall
<1> QED
  BY <1>2, <1>3, <1>4, <1>5, <1>6, <1>7, <1>8, <1>9, <1>10
     DEF Next, client, msgq_fe_thread_async, msgq_be_thread_sync

(* On a bus that is faster than the client's timeout every reply taken is the
   reply to the call just made.                                              *)
THEOREM Current == Spec => []RepliesCurrent
<1>1. InvCurrent => RepliesCurrent
  BY DEF InvCurrent, TakenCurrent, RepliesCurrent
<1> QED
  BY <1>1, InitBase, NextBase, InitOrder, NextOrder, InitCurrent, NextCurrent, PTL
     DEF Spec

------------------------------------------------------------------------------
LEMMA SourcePush ==
  ASSUME NEW q \in Seq(Updates), NEW u \in Updates, NEW there, NEW source \in BOOLEAN,
         (u = "subscribe") <=> source
  PROVE  Leads(Append(q, u), there, source)
<1>1. /\ Len(q) \in Nat /\ Len(Append(q, u)) = Len(q) + 1
      /\ Append(q, u)[Len(q) + 1] = u
  BY Push
<1>2. Append(q, u) # <<>>
  BY <1>1, EmptySeq
<1> QED
  BY <1>1, <1>2, Zenon DEF Leads

LEMMA SourcePop ==
  ASSUME NEW q \in Seq(Updates), q # <<>>, NEW there, NEW source \in BOOLEAN,
         Leads(q, there, source)
  PROVE  Leads(Tail(q), Head(q) = "subscribe", source)
<1> DEFINE t == Tail(q)
           n == Len(q)
<1>1. /\ Head(q) = q[1] /\ n \in Nat /\ n >= 1 /\ t \in Seq(Updates) /\ Len(t) = n - 1
      /\ \A i \in 1 .. n - 1 : t[i] = q[i + 1]
  BY Pop
<1>2. q[n] = "subscribe" <=> source
  BY Zenon DEF Leads
<1>3. CASE t = <<>>
  <2>1. n = 1
    <3>1. Len(t) = 0
      BY <1>3, EmptySeq, Zenon
    <3> HIDE DEF n, t
    <3> QED
      BY <1>1, <3>1
  <2> QED
    BY <1>1, <1>2, <1>3, <2>1, Zenon DEF Leads
<1>4. CASE t # <<>>
  <2>1. n - 1 >= 1
    <3>1. Len(t) # 0
      BY <1>1, <1>4, EmptySeq
    <3> HIDE DEF n, t
    <3> QED
      BY <1>1, <3>1
  <2>2. t[n - 1] = q[n]
    <3> HIDE DEF n, t
    <3>1. n - 1 \in 1 .. n - 1 /\ (n - 1) + 1 = n
      BY <1>1, <2>1
    <3> QED
      BY <1>1, <3>1
  <2>3. t[Len(t)] = q[n]
    BY <1>1, <2>2, Zenon
  <2> QED
    BY <1>2, <1>4, <2>3, Zenon DEF Leads
<1> QED
  BY <1>3, <1>4

LEMMA HoldsPush ==
  ASSUME NEW q \in Seq(Calls), NEW x \in Calls
  PROVE  Holds(Append(q, x), x) /\ \A n : Holds(q, n) => Holds(Append(q, x), n)
<1> DEFINE a == Append(q, x)
<1>1. /\ Len(q) \in Nat /\ Len(a) = Len(q) + 1
      /\ \A i \in 1 .. Len(q) : a[i] = q[i]
      /\ a[Len(q) + 1] = x
  BY Push
<1> HIDE DEF a
<1>2. Len(q) + 1 \in 1 .. Len(a) /\ \A i \in 1 .. Len(q) : i \in 1 .. Len(a)
  BY <1>1
<1>3. Holds(a, x) /\ \A n : Holds(q, n) => Holds(a, n)
  BY <1>1, <1>2, Zenon DEF Holds
<1> QED
  BY <1>3 DEF a

LEMMA HoldsPop ==
  ASSUME NEW q \in Seq(Calls), q # <<>>
  PROVE  \A n : Holds(q, n) => n = Head(q) \/ Holds(Tail(q), n)
<1> DEFINE t == Tail(q)
<1>1. /\ Head(q) = q[1] /\ Len(q) \in Nat /\ Len(t) = Len(q) - 1
      /\ \A i \in 1 .. Len(q) - 1 : t[i] = q[i + 1]
  BY Pop
<1> HIDE DEF t
<1>2. ASSUME NEW n, NEW i \in 1 .. Len(q), q[i] = n, i # 1 PROVE Holds(t, n)
  <2>1. i - 1 \in 1 .. Len(t) /\ t[i - 1] = q[(i - 1) + 1] /\ (i - 1) + 1 = i
    BY <1>1, <1>2
  <2> QED
    BY <1>2, <2>1 DEF Holds
<1> QED
  BY <1>1, <1>2 DEF Holds, t

\* A call that is moved on and not dropped is in one of the two queues still.
LEMMA HoldsMove ==
  ASSUME NEW p \in Seq(Calls), NEW q \in Seq(Calls), q # <<>>,
         NEW p2, p2 = Append(p, Head(q)), NEW q2, q2 = Tail(q)
  PROVE  \A n : Holds(p, n) \/ Holds(q, n) => Holds(p2, n) \/ Holds(q2, n)
<1>1. Head(q) \in Calls
  BY Pop
<1>2. Holds(p2, Head(q)) /\ \A n : Holds(p, n) => Holds(p2, n)
  BY <1>1, HoldsPush, Zenon
<1>3. \A n : Holds(q, n) => n = Head(q) \/ Holds(q2, n)
  BY HoldsPop, Zenon
<1> QED
  BY <1>2, <1>3, Zenon

LEMMA InitUpdates == Init => UpdatesLead /\ HeardOverBus
<1> SUFFICES ASSUME Init PROVE UpdatesLead /\ HeardOverBus
  OBVIOUS
<1>1. ~InCall /\ subscribed = 0 /\ subsToBroker = <<>> /\ subsToServer = <<>>
      /\ ~brokerKnows /\ ~serverKnows
  BY DEF Init, InCall
<1>2. ~(subscribed > 0)
  BY <1>1
<1> QED
  BY <1>1, <1>2, Zenon DEF UpdatesLead, HeardOverBus, Leads

LEMMA NextUpdates ==
  InvBase /\ UpdatesLead /\ HeardOverBus /\ [Next]_vars => UpdatesLead' /\ HeardOverBus'
<1> SUFFICES ASSUME InvBase, UpdatesLead, HeardOverBus, [Next]_vars
             PROVE  UpdatesLead' /\ HeardOverBus'
  OBVIOUS
<1> USE DEF clientVars, requestVars, replyVars, subVars, historyVars
<1>0. /\ Leads(subsToBroker, brokerKnows, subscribed > 0)
      /\ Leads(subsToServer, serverKnows, brokerKnows)
      /\ subsToBroker \in Seq(Updates) /\ subsToServer \in Seq(Updates)
      /\ subscribed \in Nat /\ brokerKnows \in BOOLEAN /\ serverKnows \in BOOLEAN
  BY DEF UpdatesLead, InvBase, TypeOK
<1>1. ASSUME UNCHANGED <<subscribed, subVars>> PROVE UpdatesLead'
  BY <1>0, <1>1 DEF UpdatesLead, Leads
<1>2. ASSUME UNCHANGED <<call, announced, unheard>>, InCall' => InCall PROVE HeardOverBus'
  BY <1>2 DEF HeardOverBus
<1>3. CASE get_reply_socket
  BY <1>1, <1>2, <1>3 DEF get_reply_socket, InCall
<1>4. CASE SendRequest
  <2>1. UpdatesLead'
    BY <1>1, <1>4 DEF SendRequest
  <2>2. announced' = announced /\ call' = call + 1
        /\ (announced # "client" => call' \in unheard')
    BY <1>4 DEF SendRequest
  <2> QED
    BY <2>1, <2>2 DEF HeardOverBus
<1>5. CASE SubscribeToReply
  <2>1. HeardOverBus'
    BY <1>2, <1>5 DEF SubscribeToReply, InCall
  <2>2. /\ subsToBroker' = Append(subsToBroker, "subscribe") /\ subscribed' > 0
        /\ UNCHANGED <<subsToServer, brokerKnows, serverKnows>>
    BY <1>0, <1>5 DEF SubscribeToReply
  <2>3. (subscribed' > 0) \in BOOLEAN /\ "subscribe" \in Updates
    BY DEF Updates
  <2>4. Leads(subsToBroker', brokerKnows, subscribed' > 0)
    BY <1>0, <2>2, <2>3, SourcePush, Zenon
  <2> QED
    BY <1>0, <2>1, <2>2, <2>4 DEF UpdatesLead
<1>6. CASE ReceiveReply
  <2>1. HeardOverBus'
    BY <1>2, <1>6 DEF ReceiveReply, InCall
  <2>2. subscribed >= 1 /\ subscribed' = subscribed - 1
        /\ UNCHANGED <<subsToServer, brokerKnows, serverKnows>>
    BY <1>6, ReceiveProperties DEF ReceiveReply
  <2>3. CASE subscribed = 1
    <3>1. subsToBroker' = Append(subsToBroker, "unsubscribe") /\ ~(subscribed' > 0)
      BY <1>0, <1>6, <2>2, <2>3 DEF ReceiveReply
    <3>2. "unsubscribe" \in Updates /\ "unsubscribe" # "subscribe"
      BY DEF Updates
    <3>3. Leads(subsToBroker', brokerKnows, FALSE)
      BY <1>0, <3>1, <3>2, SourcePush, Zenon
    <3>4. Leads(subsToBroker', brokerKnows, subscribed' > 0)
      BY <3>1, <3>3, Zenon DEF Leads
    <3> QED
      BY <1>0, <2>1, <2>2, <3>4 DEF UpdatesLead
  <2>4. CASE subscribed # 1
    <3>1. subsToBroker' = subsToBroker /\ subscribed > 0 /\ subscribed' > 0
      BY <1>0, <1>6, <2>2, <2>4 DEF ReceiveReply
    <3>2. Leads(subsToBroker', brokerKnows, subscribed' > 0)
      BY <1>0, <3>1, Zenon DEF Leads
    <3> QED
      BY <1>0, <2>1, <2>2, <3>2 DEF UpdatesLead
  <2> QED
    BY <2>3, <2>4
<1>7. CASE Expire
  BY <1>1, <1>2, <1>7 DEF Expire, InCall
<1>8. CASE rpc_server_start \/ AnnounceServer
  <2>1. /\ announced # "client"
        /\ UNCHANGED <<clientVars, subVars, historyVars>>
    BY <1>8 DEF rpc_server_start, AnnounceServer
  <2> QED
    BY <1>1, <2>1 DEF HeardOverBus, InCall
<1>9. CASE ForwardRequest \/ rpc_handle_req \/ ForwardReply \/ UNCHANGED vars
  <2>1. UNCHANGED <<clientVars, announced, subVars, historyVars>>
    BY <1>9 DEF ForwardRequest, rpc_handle_req, ForwardReply, vars
  <2> QED
    BY <1>1, <1>2, <2>1 DEF InCall
<1>10. CASE ForwardSubscription
  <2> DEFINE wanted == Head(subsToBroker) = "subscribe"
  <2>1. HeardOverBus'
    BY <1>2, <1>10 DEF ForwardSubscription, InCall
  <2>2. /\ subsToBroker # <<>> /\ subsToBroker' = Tail(subsToBroker)
        /\ subscribed' = subscribed /\ serverKnows' = serverKnows
        /\ brokerKnows' = wanted
        /\ wanted # brokerKnows => subsToServer' = Append(subsToServer, Head(subsToBroker))
        /\ wanted = brokerKnows => subsToServer' = subsToServer
    BY <1>10, Zenon DEF ForwardSubscription
  <2>3. (subscribed > 0) \in BOOLEAN /\ wanted \in BOOLEAN
    OBVIOUS
  <2>4. Leads(subsToBroker', wanted, subscribed > 0)
    BY <1>0, <2>2, <2>3, SourcePop, Zenon
  <2>5. Leads(subsToServer', serverKnows, wanted)
    <3>1. CASE wanted # brokerKnows
      <4>1. Head(subsToBroker) \in Updates
        BY <1>0, <2>2, Pop
      <4> QED
        BY <1>0, <2>2, <2>3, <3>1, <4>1, SourcePush, Zenon
    <3>2. CASE wanted = brokerKnows
      <4>1. subsToServer' = subsToServer
        BY <2>2, <3>2, Zenon
      <4> HIDE DEF wanted
      <4> QED
        BY <1>0, <3>2, <4>1, Zenon
    <3> QED
      BY <3>1, <3>2, Zenon
  <2> HIDE DEF wanted
  <2>6. UpdatesLead'
    BY <2>2, <2>4, <2>5, Zenon DEF UpdatesLead
  <2> QED
    BY <2>1, <2>6
<1>11. CASE ServerLearns
  <2> DEFINE wanted == Head(subsToServer) = "subscribe"
  <2>1. HeardOverBus'
    BY <1>2, <1>11 DEF ServerLearns, InCall
  <2>2. /\ subsToServer # <<>> /\ subsToServer' = Tail(subsToServer)
        /\ UNCHANGED <<subscribed, subsToBroker, brokerKnows>>
        /\ serverKnows' = wanted
    BY <1>11, Zenon DEF ServerLearns
  <2>3. Leads(subsToServer', wanted, brokerKnows)
    BY <1>0, <2>2, SourcePop, Zenon
  <2> HIDE DEF wanted
  <2>4. UpdatesLead'
    BY <1>0, <2>2, <2>3, Zenon DEF UpdatesLead
  <2> QED
    BY <2>1, <2>4
<1> QED
  BY <1>3, <1>4, <1>5, <1>6, <1>7, <1>8, <1>9, <1>10, <1>11
     DEF Next, client, msgq_fe_thread_async, msgq_be_thread_sync

------------------------------------------------------------------------------
\* A call under way that the server was known for is in one of the queues.
OnItsWay == \/ Holds(toClient, call) \/ Holds(fromServer, call)
            \/ Holds(toServer, call) \/ Holds(toBroker, call)

LEMMA InitSettled == Init => InvSettled
BY Zenon DEF Init, InvSettled, HeardAndExpired

\* Settled once a call has expired, and only one has: what a step has to keep.
LEMMA NextSettled ==
  /\ InvBase /\ UpdatesLead /\ HeardOverBus /\ InvSettled /\ [Next]_vars
  => InvSettled'
<1> SUFFICES ASSUME InvBase, UpdatesLead, HeardOverBus, InvSettled, [Next]_vars, Fast'
             PROVE  /\ HeardAndExpired' # {} => Settled'
                    /\ \A j, k \in HeardAndExpired' : j = k
  BY DEF InvSettled
<1> USE DEF clientVars, requestVars, replyVars, subVars, historyVars
<1>f. Fast
  BY FastBefore
<1>0. /\ HeardAndExpired # {} => Settled
      /\ \A j, k \in HeardAndExpired : j = k
      /\ toBroker \in Seq(Calls) /\ toServer \in Seq(Calls)
      /\ fromServer \in Seq(Calls) /\ toClient \in Seq(Calls)
      /\ subsToBroker \in Seq(Updates) /\ subsToServer \in Seq(Updates)
  BY <1>f DEF InvSettled, InvBase, TypeOK
<1>1. ASSUME HeardAndExpired' = HeardAndExpired,
             UNCHANGED <<subVars>>,
             InCall' /\ call' \notin unheard' =>
               /\ InCall /\ call \notin unheard
               /\ Settled /\ OnItsWay => OnItsWay'
      PROVE  /\ HeardAndExpired' # {} => Settled'
             /\ \A j, k \in HeardAndExpired' : j = k
  BY <1>0, <1>1 DEF Settled, OnItsWay
<1>2. ASSUME UNCHANGED <<expired, unheard>> PROVE HeardAndExpired' = HeardAndExpired
  BY <1>2 DEF HeardAndExpired
<1>3. CASE get_reply_socket
  BY <1>1, <1>2, <1>3 DEF get_reply_socket, InCall
<1>4. CASE SendRequest
  <2>1. /\ ~InCall /\ call' = call + 1 /\ call + 1 \in Calls /\ call \in Int
        /\ UNCHANGED <<expired, subVars>>
        /\ \/ unheard' = unheard \cup {call + 1}
           \/ unheard' = unheard /\ toBroker' = Append(toBroker, call + 1)
    BY <1>4, BusAssumption DEF InvBase, TypeOK, SendRequest, InCall, Calls
  <2>2. call + 1 \notin expired
    <3>1. \A k \in expired : k <= call
      BY DEF InvBase, EndedBeforeCall
    <3> QED
      BY <2>1, <3>1
  <2>3. HeardAndExpired' = HeardAndExpired
    BY <2>1, <2>2 DEF HeardAndExpired
  <2>4. call' \notin unheard' => Holds(toBroker', call')
    <3>1. Holds(Append(toBroker, call + 1), call + 1)
      BY <1>0, <2>1, HoldsPush, Zenon
    <3> QED
      BY <2>1, <3>1, Zenon
  <2>5. Settled => Settled'
    BY <2>1, <2>4, Zenon DEF Settled
  <2> QED
    BY <1>0, <2>3, <2>5
<1>5. CASE SubscribeToReply
  <2>1. /\ UNCHANGED <<call, requestVars, replyVars, subsToServer, brokerKnows,
                       serverKnows, expired, unheard>>
        /\ InCall' = InCall
        /\ subsToBroker' = Append(subsToBroker, "subscribe")
    BY <1>5 DEF SubscribeToReply, InCall
  <2>2. (\A i \in 1 .. Len(subsToBroker) : subsToBroker[i] = "subscribe")
        => \A i \in 1 .. Len(subsToBroker') : subsToBroker'[i] = "subscribe"
    <3>1. "subscribe" \in Updates
      BY DEF Updates
    <3>2. /\ Len(subsToBroker) \in Nat /\ Len(subsToBroker') = Len(subsToBroker) + 1
          /\ \A i \in 1 .. Len(subsToBroker) : subsToBroker'[i] = subsToBroker[i]
          /\ subsToBroker'[Len(subsToBroker) + 1] = "subscribe"
      BY <1>0, <2>1, <3>1, Push
    <3> QED
      BY <3>2
  <2>3. Settled => Settled'
    BY <2>1, <2>2 DEF Settled, Holds
  <2> QED
    BY <1>0, <1>2, <2>1, <2>3
<1>6. CASE ReceiveReply
  <2>1. /\ ~InCall' /\ loop = "recv"
        /\ UNCHANGED <<subsToServer, brokerKnows, serverKnows, expired, unheard>>
        /\ subscribed # 1 => subsToBroker' = subsToBroker
    BY <1>6 DEF ReceiveReply, InCall
  <2>2. HeardAndExpired' = HeardAndExpired
    BY <1>2, <2>1
  <2>3. ASSUME HeardAndExpired # {} PROVE Settled'
    <3>1. expired # {} /\ IsFiniteSet(expired) /\ Cardinality(expired) \in Nat
      BY <2>3, Finite DEF HeardAndExpired, InvBase, TypeOK
    <3>2. Cardinality(expired) # 0
      BY <3>1, FS_EmptySet
    <3>3. subscribed # 1
      BY <2>1, <3>1, <3>2 DEF InvBase, Leaked
    <3> QED
      BY <1>0, <2>1, <2>3, <3>3 DEF Settled
  <2> QED
    BY <1>0, <2>2, <2>3
<1>7. CASE Expire
  <2>1. /\ InCall /\ ~InCall' /\ loop = "recv"
        /\ expired' = expired \cup {call} /\ UNCHANGED <<unheard, subVars>>
        /\ toClient = <<>> /\ toBroker = <<>> /\ toServer = <<>> /\ fromServer = <<>>
        /\ subsToBroker = <<>> /\ (subsToServer = <<>> \/ announced = "no")
    BY <1>7, <1>f DEF Expire, Quiet, InCall
  <2>2. CASE call \in unheard
    <3>1. HeardAndExpired' = HeardAndExpired
      BY <2>1, <2>2 DEF HeardAndExpired
    <3> QED
      BY <1>1, <2>1, <3>1
  <2>3. CASE call \notin unheard
    <3>1. subsToServer = <<>>
      BY <2>1, <2>3 DEF HeardOverBus
    <3>2. subscribed > 0
      <4>1. Cardinality(expired) \in Nat
        BY Finite DEF InvBase, TypeOK
      <4> QED
        BY <2>1, <4>1 DEF InvBase, Leaked
    <3>3. brokerKnows /\ serverKnows
      BY <2>1, <3>1, <3>2, Zenon DEF UpdatesLead, Leads
    <3>4. Settled'
      <4>1. Len(subsToBroker') = 0
        BY <2>1, EmptySeq
      <4>2. \A i \in 1 .. Len(subsToBroker') : FALSE
        BY <4>1
      <4> QED
        BY <2>1, <3>1, <3>3, <4>2, Zenon DEF Settled
    <3>5. HeardAndExpired = {}
      <4>1. \A q : q = <<>> => ~Holds(q, call)
        <5>1. Len(<<>>) = 0
          BY EmptySeq
        <5>2. \A i \in 1 .. 0 : FALSE
          OBVIOUS
        <5> QED
          BY <5>1, <5>2, Zenon DEF Holds
      <4> QED
        BY <1>0, <2>1, <2>3, <4>1, Zenon DEF Settled
    <3>6. HeardAndExpired' = {call}
      BY <2>1, <2>3, <3>5 DEF HeardAndExpired
    <3> QED
      BY <3>4, <3>6
  <2> QED
    BY <2>2, <2>3
<1>8. CASE rpc_server_start \/ AnnounceServer \/ UNCHANGED vars
  <2>1. UNCHANGED <<clientVars, toBroker, toServer, replyVars, subVars, historyVars>>
    BY <1>8 DEF rpc_server_start, AnnounceServer, vars
  <2> QED
    BY <1>1, <1>2, <2>1 DEF InCall, OnItsWay, Holds
<1>9. CASE ForwardRequest
  <2>1. /\ UNCHANGED <<clientVars, fromServer, toClient, subVars, historyVars>>
        /\ toBroker # <<>> /\ toBroker' = Tail(toBroker)
        /\ toServer' = Append(toServer, Head(toBroker))
    BY <1>9 DEF ForwardRequest
  <2>2. Holds(toServer, call) \/ Holds(toBroker, call)
        => Holds(toServer', call) \/ Holds(toBroker', call)
    BY <1>0, <2>1, HoldsMove, Zenon
  <2>3. OnItsWay => OnItsWay'
    BY <2>1, <2>2, Zenon DEF OnItsWay, Holds
  <2> QED
    BY <1>1, <1>2, <2>1, <2>3 DEF InCall
<1>10. CASE rpc_handle_req
  <2>1. /\ UNCHANGED <<clientVars, toBroker, toClient, subVars, historyVars>>
        /\ toServer # <<>> /\ toServer' = Tail(toServer)
        /\ serverKnows => fromServer' = Append(fromServer, Head(toServer))
    BY <1>10 DEF rpc_handle_req
  <2>2. serverKnows /\ (Holds(fromServer, call) \/ Holds(toServer, call))
        => Holds(fromServer', call) \/ Holds(toServer', call)
    <3> SUFFICES ASSUME serverKnows, Holds(fromServer, call) \/ Holds(toServer, call)
                 PROVE  Holds(fromServer', call) \/ Holds(toServer', call)
      OBVIOUS
    <3>1. fromServer' = Append(fromServer, Head(toServer))
      BY <2>1
    <3> QED
      BY <1>0, <2>1, <3>1, HoldsMove, Zenon
  <2>3. Settled /\ OnItsWay => OnItsWay'
    BY <2>1, <2>2, Zenon DEF Settled, OnItsWay, Holds
  <2> QED
    BY <1>1, <1>2, <2>1, <2>3 DEF InCall
<1>11. CASE ForwardReply
  <2>1. /\ UNCHANGED <<clientVars, requestVars, subVars, historyVars>>
        /\ fromServer # <<>> /\ fromServer' = Tail(fromServer)
        /\ brokerKnows => toClient' = Append(toClient, Head(fromServer))
    BY <1>11 DEF ForwardReply
  <2>2. brokerKnows /\ (Holds(toClient, call) \/ Holds(fromServer, call))
        => Holds(toClient', call) \/ Holds(fromServer', call)
    BY <1>0, <2>1, HoldsMove, Zenon
  <2>3. Settled /\ OnItsWay => OnItsWay'
    BY <2>1, <2>2, Zenon DEF Settled, OnItsWay, Holds
  <2> QED
    BY <1>1, <1>2, <2>1, <2>3 DEF InCall
<1>12. CASE ForwardSubscription
  <2>1. /\ UNCHANGED <<clientVars, requestVars, replyVars, serverKnows, historyVars>>
        /\ subsToBroker # <<>> /\ subsToBroker' = Tail(subsToBroker)
        /\ brokerKnows' = (Head(subsToBroker) = "subscribe")
        /\ (Head(subsToBroker) = "subscribe") = brokerKnows => subsToServer' = subsToServer
    BY <1>12, Zenon DEF ForwardSubscription
  <2>2. ASSUME Settled PROVE Settled'
    <3>1. /\ Len(subsToBroker) \in Nat /\ Len(subsToBroker) >= 1
          /\ Head(subsToBroker) = subsToBroker[1]
          /\ Len(Tail(subsToBroker)) = Len(subsToBroker) - 1
          /\ \A i \in 1 .. Len(subsToBroker) - 1 :
               Tail(subsToBroker)[i] = subsToBroker[i + 1]
      BY <1>0, <2>1, Pop
    <3>2. \A i \in 1 .. Len(subsToBroker) : subsToBroker[i] = "subscribe"
      BY <2>2 DEF Settled
    <3>3. Head(subsToBroker) = "subscribe"
      BY <3>1, <3>2
    <3>4. \A i \in 1 .. Len(subsToBroker') : subsToBroker'[i] = "subscribe"
      <4> DEFINE t == Tail(subsToBroker)
      <4>1. subsToBroker' = t
        BY <2>1
      <4> HIDE DEF t
      <4>2. \A i \in 1 .. Len(t) : t[i] = "subscribe"
        <5>1. Len(t) = Len(subsToBroker) - 1
              /\ \A i \in 1 .. Len(subsToBroker) - 1 : t[i] = subsToBroker[i + 1]
          BY <3>1 DEF t
        <5> QED
          BY <3>1, <3>2, <5>1
      <4> QED
        BY <4>1, <4>2
    <3>5. brokerKnows /\ brokerKnows'
      BY <2>1, <2>2, <3>3 DEF Settled
    <3>6. subsToServer' = subsToServer
      BY <2>1, <3>3, <3>5 DEF InvBase, TypeOK
    <3> QED
      BY <2>1, <2>2, <3>4, <3>5, <3>6 DEF Settled, InCall, Holds
  <2> QED
    BY <1>0, <1>2, <2>1, <2>2
<1>13. CASE ServerLearns
  <2>1. subsToServer # <<>> /\ UNCHANGED <<expired, unheard>>
    BY <1>13 DEF ServerLearns
  <2> QED
    BY <1>0, <1>2, <2>1 DEF Settled
<1> QED
  BY <1>3, <1>4, <1>5, <1>6, <1>7, <1>8, <1>9, <1>10, <1>11, <1>12, <1>13
     DEF Next, client, msgq_fe_thread_async, msgq_be_thread_sync

LEMMA OneFromInv == InvBase /\ InvSettled => AtMostOneExpires
<1> SUFFICES ASSUME InvBase, Fast, \A j, k \in HeardAndExpired : j = k
             PROVE  Cardinality(HeardAndExpired) <= 1
  BY DEF AtMostOneExpires, InvSettled, HeardAndExpired
<1>1. CASE HeardAndExpired = {}
  BY <1>1, FS_EmptySet
<1>2. CASE HeardAndExpired # {}
  <2>1. PICK k : HeardAndExpired = {k}
    BY <1>2
  <2> QED
    BY <2>1, FS_Singleton
<1> QED
  BY <1>1, <1>2

(* On a bus that is faster than the client's timeout at most one call that
   reached the server expires: its reply overtook the first subscription, and
   the subscription it leaves behind keeps that from happening again.        *)
THEOREM OneExpires == Spec => []AtMostOneExpires
BY InitBase, NextBase, InitUpdates, NextUpdates, InitSettled, NextSettled,
   OneFromInv, PTL DEF Spec

==============================================================================
