--------------------------- MODULE RpcWorkersProofs ---------------------------
(***************************************************************************)
(* Theorems about RpcWorkers, for any clients, workers, frames and bounds: *)
(* the REP sockets are used in turn, no request or reply is lost or made   *)
(* twice, and what a client hears is the promised reply to its request.    *)
(***************************************************************************)
EXTENDS RpcWorkers, MPackNodeProofs, SequenceTheorems, FiniteSetTheorems

------------------------------------------------------------------------------
(* The handler. *)

\* What msg_handler looks up the function with is empty unless add is called.
LEMMA OtherNames ==
  ASSUME NEW payload, PayloadOK(payload), ~CallsAdd(payload)
  PROVE  LET root == mpack_tree_root(payload, POOL_NODES)
             func == mpack_node_array_at(root, 0)
         IN  mpack_node_copy_cstr(func, NAME_SIZE).cstr # "add"
<1> DEFINE root == mpack_tree_root(payload, POOL_NODES)
           func == mpack_node_array_at(root, 0)
           name == mpack_node_copy_cstr(func, NAME_SIZE)
<1>1. CASE ~(payload.ok /\ payload.nodes <= POOL_NODES)
  <2>1. PICK e : e # "ok" /\ root = Handle(e, NilNode)
    BY <1>1 DEF mpack_tree_root
  <2>2. func = Handle(e, NilNode)
    BY <2>1, ArrayAtSticks
  <2>3. name.cstr = EmptyText
    BY <2>1, <2>2, CopySticks
  <2> QED
    BY <2>3 DEF EmptyText
<1>2. CASE payload.ok /\ payload.nodes <= POOL_NODES
  <2> DEFINE array == payload.root
  <2>1. root = Handle("ok", array)
    BY <1>2 DEF mpack_tree_root
  <2>2. CASE ~(array.type = "array" /\ 0 < array.len)
    <3>1. PICK e : e # "ok" /\ func = Handle(e, NilNode)
      BY <2>1, <2>2, ArrayAtMissing
    <3>2. name.cstr = EmptyText
      BY <3>1, CopySticks
    <3> QED
      BY <3>2 DEF EmptyText
  <2>3. CASE array.type = "array" /\ 0 < array.len
    <3> DEFINE first == array.kids[1]
    <3>1. func = Handle("ok", first)
      BY <2>1, <2>3, ArrayAtFound, 0 + 1 = 1
    <3>2. array.len >= 1 /\ first.len \in Nat
      BY <2>3 DEF PayloadOK
    <3>3. ~(/\ first.type = "str" /\ ~first.nul /\ first.len < NAME_SIZE
            /\ first.text = "add")
      BY <1>2, <2>3, <3>2 DEF CallsAdd
    <3>4. NAME_SIZE \in Nat
      BY DEF NAME_SIZE
    <3>5. CASE first.type = "str" /\ first.len < NAME_SIZE /\ ~first.nul
      <4>1. name.cstr = first.text
        BY <3>1, <3>2, <3>4, <3>5, CopyFits
      <4> QED
        BY <3>3, <3>5, <4>1
    <3>6. CASE ~(first.type = "str" /\ first.len < NAME_SIZE /\ ~first.nul)
      <4>1. name.cstr = EmptyText
        BY <3>1, <3>2, <3>4, <3>6, CopyFails
      <4> QED
        BY <4>1 DEF EmptyText
    <3> QED
      BY <3>5, <3>6
  <2> QED
    BY <2>2, <2>3
<1> QED
  BY <1>1, <1>2

\* A call of add is found, on a tree without errors.
LEMMA AddIsFound ==
  ASSUME NEW payload, PayloadOK(payload), CallsAdd(payload)
  PROVE  LET root == mpack_tree_root(payload, POOL_NODES)
             func == mpack_node_array_at(root, 0)
             name == mpack_node_copy_cstr(func, NAME_SIZE)
         IN  name.cstr = "add" /\ After(name, root) = Handle("ok", payload.root)
<1> DEFINE root  == mpack_tree_root(payload, POOL_NODES)
           func  == mpack_node_array_at(root, 0)
           name  == mpack_node_copy_cstr(func, NAME_SIZE)
           first == payload.root.kids[1]
<1>1. root = Handle("ok", payload.root)
  BY DEF CallsAdd, mpack_tree_root
<1>2. /\ payload.root.type = "array" /\ 0 < payload.root.len
      /\ first.len \in Nat /\ first.type = "str" /\ ~first.nul
      /\ first.len < NAME_SIZE /\ first.text = "add"
  BY DEF CallsAdd, PayloadOK
<1>3. func = Handle("ok", first)
  BY <1>1, <1>2, ArrayAtFound, 0 + 1 = 1
<1>4. name = [err |-> "ok", cstr |-> "add"]
  <2>1. NAME_SIZE \in Nat
    BY DEF NAME_SIZE
  <2> QED
    BY <1>2, <1>3, <2>1, CopyFits
<1>5. After(name, root) = Handle("ok", payload.root)
  BY <1>1, <1>4 DEF After, Handle
<1> QED
  BY <1>4, <1>5

(* The reply of msg_handler (rpc/rpcs.cpp) to a frame is the promised one: the
   sticky error of the tree never turns a good call into a failure, nor lets a
   frame that is no call of two doubles through.                             *)
THEOREM HandlerKeepsPromise ==
  ASSUME NEW payload, PayloadOK(payload)
  PROVE  msg_handler(payload) = PromisedReply(payload)
<1> DEFINE root  == mpack_tree_root(payload, POOL_NODES)
           func  == mpack_node_array_at(root, 0)
           name  == mpack_node_copy_cstr(func, NAME_SIZE)
           paras == mpack_node_array_at(After(name, root), 1)
           types == <<"double", "double">>
<1>1. msg_handler(payload) = IF name.cstr = "add" THEN rpc_request_add(paras)
                             ELSE Reply("FAILED", "unknown entry", <<>>)
  BY DEF msg_handler, rpc_hashmgr
<1>2. CASE ~CallsAdd(payload)
  <2>1. name.cstr # "add"
    BY <1>2, OtherNames
  <2> QED
    BY <1>1, <1>2, <2>1 DEF PromisedReply
<1>3. CASE CallsAdd(payload)
  <2>1. name.cstr = "add" /\ After(name, root) = Handle("ok", payload.root)
    BY <1>3, AddIsFound
  <2>2. msg_handler(payload) = rpc_request_add(paras)
    BY <1>1, <2>1
  <2>3. payload.root.type = "array" /\ payload.root.len \in Nat
    BY <1>3 DEF CallsAdd, PayloadOK
  <2>4. Len(types) = 2 /\ types[1] = "double" /\ types[2] = "double"
    OBVIOUS
  <2>5. CASE payload.root.len >= 2
    <3> DEFINE params == payload.root.kids[2]
    <3>1. paras = Handle("ok", params)
      BY <2>1, <2>3, <2>5, ArrayAtFound, 1 < payload.root.len, 1 + 1 = 2
    <3>2. paras.data = params /\ paras.err = "ok"
      BY <3>1 DEF Handle
    <3>3. rpc_check_param_validity(paras, types) <=>
            /\ params.type = "array" /\ params.len = 2
            /\ \A i \in 1 .. 2 : params.kids[i].type = types[i]
      BY <2>4, <3>2 DEF rpc_check_param_validity, mpack_node_array_length
    <3>4. rpc_check_param_validity(paras, types) <=> WithTwoDoubles(payload)
      BY <2>4, <2>5, <3>3 DEF WithTwoDoubles
    <3> HIDE DEF types, paras
    <3>5. rpc_request_add(paras) =
            IF WithTwoDoubles(payload)
            THEN Reply("SUCCESS", EmptyText, <<params.kids[1].text, params.kids[2].text>>)
            ELSE Reply("FAILED", EmptyText, <<>>)
      BY <3>2, <3>4 DEF rpc_request_add, types
    <3> QED
      BY <1>3, <2>2, <3>5 DEF PromisedReply
  <2>6. CASE ~(payload.root.len >= 2)
    <3>1. PICK e : e # "ok" /\ paras = Handle(e, NilNode)
      BY <2>1, <2>3, <2>6, ArrayAtMissing, ~(1 < payload.root.len)
    <3>2. ~rpc_check_param_validity(paras, types)
      BY <3>1 DEF rpc_check_param_validity, Handle
    <3>3. rpc_request_add(paras) = Reply("FAILED", EmptyText, <<>>)
      BY <3>2 DEF rpc_request_add
    <3>4. ~WithTwoDoubles(payload)
      BY <2>6 DEF WithTwoDoubles
    <3> QED
      BY <1>3, <2>2, <3>3, <3>4 DEF PromisedReply
  <2> QED
    BY <2>5, <2>6
<1> QED
  BY <1>2, <1>3

------------------------------------------------------------------------------
(* Sequences: a socket gives its first message and takes one at its end. *)

LEMMA Pop ==
  ASSUME NEW S, NEW s \in Seq(S), s # <<>>
  PROVE  /\ Len(s) \in Nat \ {0}
         /\ DOMAIN s = 1 .. Len(s)
         /\ Head(s) \in S
         /\ Head(s) = s[1]
         /\ Tail(s) \in Seq(S)
         /\ DOMAIN Tail(s) = 1 .. Len(s) - 1
         /\ \A i \in 1 .. Len(s) - 1 : Tail(s)[i] = s[i + 1]
<1>1. Len(s) \in Nat /\ Len(s) # 0 /\ DOMAIN s = 1 .. Len(s)
  BY LenProperties, EmptySeq
<1>2. Tail(s) \in Seq(S) /\ Len(Tail(s)) = Len(s) - 1
  BY HeadTailProperties
<1>3. \A i \in 1 .. Len(s) - 1 : Tail(s)[i] = s[i + 1]
  BY <1>1, HeadTailProperties
<1>4. Head(s) \in S /\ Head(s) = s[1]
  BY HeadTailProperties
<1>5. DOMAIN Tail(s) = 1 .. Len(s) - 1
  BY <1>2, LenProperties
<1> QED
  BY <1>1, <1>2, <1>3, <1>4, <1>5

LEMMA Push ==
  ASSUME NEW S, NEW s \in Seq(S), NEW e \in S
  PROVE  /\ Len(s) \in Nat
         /\ DOMAIN s = 1 .. Len(s)
         /\ Append(s, e) \in Seq(S)
         /\ DOMAIN Append(s, e) = 1 .. Len(s) + 1
         /\ \A i \in 1 .. Len(s) : Append(s, e)[i] = s[i]
         /\ Append(s, e)[Len(s) + 1] = e
<1>1. Len(s) \in Nat /\ DOMAIN s = 1 .. Len(s)
  BY LenProperties
<1>2. /\ Append(s, e) \in Seq(S)
      /\ Len(Append(s, e)) = Len(s) + 1
      /\ \A i \in 1 .. Len(s) : Append(s, e)[i] = s[i]
      /\ Append(s, e)[Len(s) + 1] = e
  BY AppendProperties
<1>3. DOMAIN Append(s, e) = 1 .. Len(s) + 1
  BY <1>2, LenProperties
<1> QED
  BY <1>1, <1>2, <1>3

LEMMA One ==
  ASSUME NEW S, NEW e \in S
  PROVE  <<e>> \in Seq(S) /\ AtMostOne(<<e>>) /\ <<e>>[1] = e /\ <<e>> # <<>>
  BY DEF AtMostOne

LEMMA Nothing ==
  ASSUME NEW S
  PROVE  <<>> \in Seq(S) /\ AtMostOne(<<>>)
  BY DEF AtMostOne

\* A request is a sequence of frames that has a last one.
LEMMA RequestProperties ==
  ASSUME NEW request \in Requests
  PROVE  /\ request \in Seq(Payloads)
         /\ request # <<>>
         /\ Len(request) \in Nat \ {0}
         /\ request[Len(request)] \in Payloads
<1>1. PICK k \in 1 .. MaxParts : request \in [1 .. k -> Payloads]
  BY DEF Requests
<1>2. k \in Nat \ {0}
  BY BoundsAssumption
<1>3. request \in Seq(Payloads) /\ Len(request) = k
  BY <1>1, <1>2, IsASeq
<1> QED
  BY <1>1, <1>2, <1>3, EmptySeq

\* Its frames in a worker's socket: only the last one does not go on.
LEMMA FramesProperties ==
  ASSUME NEW request \in Requests, NEW c \in Clients
  PROVE  LET n == Len(request)
             s == Frames(request, c)
         IN  /\ s \in Seq(Frame)
             /\ Len(s) = n
             /\ \A i \in 1 .. n : s[i].more <=> i < n
             /\ s[n].client = c
             /\ s[n].body = request[n]
<1> DEFINE n == Len(request)
           s == Frames(request, c)
<1>1. /\ n \in Nat \ {0} /\ DOMAIN request = 1 .. n
      /\ \A i \in 1 .. n : request[i] \in Payloads
  BY RequestProperties, LenProperties, ElementOfSeq
<1>2. s = [i \in 1 .. n |-> [client |-> c, more |-> i < n, body |-> request[i]]]
  BY <1>1 DEF Frames
<1>3. \A i \in 1 .. n : [client |-> c, more |-> i < n, body |-> request[i]] \in Frame
  BY <1>1 DEF Frame
<1>4. s \in Seq(Frame) /\ Len(s) = n
  BY <1>1, <1>2, <1>3, IsASeq
<1>5. ASSUME NEW i \in 1 .. n
      PROVE  s[i].more <=> i < n
  <2>1. s[i].more = (i < n)
    BY <1>2
  <2> HIDE DEF s, n
  <2> QED
    BY <2>1
<1>6. s[n].client = c /\ s[n].body = request[n]
  BY <1>1, <1>2
<1> QED
  BY <1>4, <1>5, <1>6

------------------------------------------------------------------------------
(* Types. *)

\* Replies come from the table of msg_handler.
LEMMA RowProperties ==
  ASSUME NEW row \in HandlerTable
  PROVE  row.reply \in Replies /\ row.reply = msg_handler(row.body)
  BY DEF HandlerTable, Replies

LEMMA InitType == Init => TypeOK
<1> SUFFICES ASSUME Init PROVE TypeOK
  OBVIOUS
<1>1. /\ asking \in [Clients -> Requests \cup {<<>>}]
      /\ heard \in [Clients -> Seq(Replies)]
      /\ frontend \in Seq([client : Clients, parts : Requests])
      /\ inbox \in [Workers -> Seq(Frame)]
      /\ handling \in [Workers -> Seq(Frame)]
      /\ owing \in [Workers -> Seq(Clients)]
      /\ backend \in Seq([client : Clients, reply : Replies])
  BY Nothing DEF Init
<1>2. \A w \in Workers : handling[w] = <<>> /\ owing[w] = <<>>
  BY DEF Init
<1> QED
  BY <1>1, <1>2, Nothing DEF TypeOK

LEMMA NextType == TypeOK /\ [Next]_vars => TypeOK'
<1> SUFFICES ASSUME TypeOK, [Next]_vars PROVE TypeOK'
  OBVIOUS
<1>1. ASSUME NEW c \in Clients, ClientAsks(c)
      PROVE  TypeOK'
  <2>1. PICK request \in Requests :
          /\ asking' = [asking EXCEPT ![c] = request]
          /\ frontend' = Append(frontend, [client |-> c, parts |-> request])
    BY <1>1 DEF ClientAsks
  <2>2. asking' \in [Clients -> Requests \cup {<<>>}]
    BY <2>1 DEF TypeOK
  <2>3. frontend' \in Seq([client : Clients, parts : Requests])
    BY <2>1, Push DEF TypeOK
  <2> QED
    BY <1>1, <2>2, <2>3 DEF ClientAsks, TypeOK
<1>2. CASE ProxyRequest
  <2>1. PICK w \in Workers :
          inbox' = [inbox EXCEPT ![w] =
                      @ \o Frames(Head(frontend).parts, Head(frontend).client)]
    BY <1>2 DEF ProxyRequest
  <2>2. /\ frontend \in Seq([client : Clients, parts : Requests])
        /\ frontend # <<>> /\ frontend' = Tail(frontend)
    BY <1>2 DEF ProxyRequest, TypeOK
  <2>3. /\ Head(frontend) \in [client : Clients, parts : Requests]
        /\ frontend' \in Seq([client : Clients, parts : Requests])
    BY <2>2, Pop
  <2>4. Frames(Head(frontend).parts, Head(frontend).client) \in Seq(Frame)
    BY <2>3, FramesProperties
  <2>5. inbox' \in [Workers -> Seq(Frame)]
    BY <2>1, <2>4, ConcatProperties DEF TypeOK
  <2> QED
    BY <1>2, <2>3, <2>5 DEF ProxyRequest, TypeOK
<1>3. CASE ProxyReply
  <2> DEFINE r == Head(backend)
  <2>1. /\ backend \in Seq([client : Clients, reply : Replies])
        /\ backend # <<>> /\ backend' = Tail(backend)
    BY <1>3 DEF ProxyReply, TypeOK
  <2>2. /\ r \in [client : Clients, reply : Replies]
        /\ backend' \in Seq([client : Clients, reply : Replies])
    BY <2>1, Pop
  <2>3. /\ heard' = [heard EXCEPT ![r.client] = Append(@, r.reply)]
        /\ asking' = [asking EXCEPT ![r.client] = <<>>]
    BY <1>3 DEF ProxyReply
  <2>4. heard' \in [Clients -> Seq(Replies)]
    BY <2>2, <2>3, Push DEF TypeOK
  <2>5. asking' \in [Clients -> Requests \cup {<<>>}]
    BY <2>2, <2>3 DEF TypeOK
  <2> QED
    BY <1>3, <2>2, <2>4, <2>5 DEF ProxyReply, TypeOK
<1>4. ASSUME NEW w \in Workers, ReceiveFrame(w)
      PROVE  TypeOK'
  <2>1. inbox[w] \in Seq(Frame) /\ inbox[w] # <<>>
    BY <1>4 DEF ReceiveFrame, TypeOK
  <2>2. Head(inbox[w]) \in Frame /\ Tail(inbox[w]) \in Seq(Frame)
    BY <2>1, Pop
  <2>3. Head(inbox[w]).client \in Clients
    BY <2>2 DEF Frame
  <2> DEFINE owed == IF Head(inbox[w]).more THEN <<>> ELSE <<Head(inbox[w]).client>>
  <2>4. <<Head(inbox[w])>> \in Seq(Frame) /\ AtMostOne(<<Head(inbox[w])>>)
    BY <2>2, One
  <2>5. owed \in Seq(Clients) /\ AtMostOne(owed)
    BY <2>3, One, Nothing
  <2> HIDE DEF owed
  <2>6. /\ handling' = [handling EXCEPT ![w] = <<Head(inbox[w])>>]
        /\ owing' = [owing EXCEPT ![w] = owed]
        /\ inbox' = [inbox EXCEPT ![w] = Tail(@)]
    BY <1>4 DEF ReceiveFrame, owed
  <2>7. /\ inbox' \in [Workers -> Seq(Frame)]
        /\ handling' \in [Workers -> Seq(Frame)]
        /\ owing' \in [Workers -> Seq(Clients)]
    BY <2>2, <2>4, <2>5, <2>6 DEF TypeOK
  <2>8. \A v \in Workers : AtMostOne(handling'[v]) /\ AtMostOne(owing'[v])
    BY <2>4, <2>5, <2>6 DEF TypeOK
  <2> QED
    BY <1>4, <2>7, <2>8 DEF ReceiveFrame, TypeOK
<1>5. ASSUME NEW w \in Workers, SendReply(w)
      PROVE  TypeOK'
  <2>1. PICK row \in HandlerTable :
          IF owing[w] = <<>>
          THEN UNCHANGED <<backend, owing>>
          ELSE /\ backend' = Append(backend, [client |-> owing[w][1],
                                              reply |-> row.reply])
               /\ owing' = [owing EXCEPT ![w] = <<>>]
    BY <1>5 DEF SendReply
  <2>2. handling' = [handling EXCEPT ![w] = <<>>]
    BY <1>5 DEF SendReply
  <2>3. /\ handling' \in [Workers -> Seq(Frame)]
        /\ \A v \in Workers : AtMostOne(handling'[v])
    BY <2>2, Nothing DEF TypeOK
  <2>4. /\ owing' \in [Workers -> Seq(Clients)]
        /\ \A v \in Workers : AtMostOne(owing'[v])
    BY <2>1, Nothing DEF TypeOK
  <2>5. backend' \in Seq([client : Clients, reply : Replies])
    <3>1. CASE owing[w] = <<>>
      BY <2>1, <3>1 DEF TypeOK
    <3>2. CASE owing[w] # <<>>
      <4>1. owing[w] \in Seq(Clients)
        BY DEF TypeOK
      <4>2. owing[w][1] \in Clients
        BY <3>2, <4>1, Pop
      <4> DEFINE e == [client |-> owing[w][1], reply |-> row.reply]
      <4>3. e \in [client : Clients, reply : Replies]
        BY <4>2, RowProperties
      <4>4. backend' = Append(backend, e)
        BY <2>1, <3>2
      <4> HIDE DEF e
      <4> QED
        BY <4>3, <4>4, Push DEF TypeOK
    <3> QED
      BY <3>1, <3>2
  <2> QED
    BY <1>5, <2>3, <2>4, <2>5 DEF SendReply, TypeOK
<1>6. CASE UNCHANGED vars
  BY <1>6 DEF vars, TypeOK
<1> QED
  BY <1>1, <1>2, <1>3, <1>4, <1>5, <1>6 DEF Next, zmq_proxy, rpcs_worker_thread

(* Every socket and every thread holds what it may: type correctness. *)
THEOREM TypeCorrect == Spec => []TypeOK
<1> QED
  BY InitType, NextType, PTL DEF Spec

(* A worker never receives while its REP socket owes a reply: handling and owing
   fill and empty together, whatever the frame is.                           *)
THEOREM RepliesBeforeReceiving == Spec => []NeverReceivesOwing
<1>1. Init => NeverReceivesOwing
  BY DEF Init, NeverReceivesOwing
<1>2. TypeOK /\ NeverReceivesOwing /\ [Next]_vars => NeverReceivesOwing'
  <2> SUFFICES ASSUME TypeOK, NeverReceivesOwing, [Next]_vars
               PROVE  NeverReceivesOwing'
    OBVIOUS
  <2>1. CASE UNCHANGED <<handling, owing>>
    BY <2>1 DEF NeverReceivesOwing
  <2>2. ASSUME NEW w \in Workers, ReceiveFrame(w)
        PROVE  NeverReceivesOwing'
    <3>1. Head(inbox[w]) \in Frame
      BY <2>2, Pop DEF ReceiveFrame, TypeOK
    <3>2. handling'[w] # <<>>
      BY <2>2, <3>1, One DEF ReceiveFrame, TypeOK
    <3>3. \A v \in Workers \ {w} : handling'[v] = handling[v] /\ owing'[v] = owing[v]
      BY <2>2 DEF ReceiveFrame, TypeOK
    <3> QED
      BY <3>2, <3>3 DEF NeverReceivesOwing
  <2>3. ASSUME NEW w \in Workers, SendReply(w)
        PROVE  NeverReceivesOwing'
    <3>1. owing'[w] = <<>>
      BY <2>3 DEF SendReply, TypeOK
    <3>2. \A v \in Workers \ {w} : handling'[v] = handling[v] /\ owing'[v] = owing[v]
      BY <2>3 DEF SendReply, TypeOK
    <3> QED
      BY <3>1, <3>2 DEF NeverReceivesOwing
  <2> QED
    BY <2>1, <2>2, <2>3 DEF Next, vars, ClientAsks, zmq_proxy, ProxyRequest,
                            ProxyReply, rpcs_worker_thread
<1> QED
  BY <1>1, <1>2, TypeCorrect, PTL DEF Spec

------------------------------------------------------------------------------
(* What is under way.  A request moves from place to place, and its reply
   after it; the invariant says that no two places are of the same client, that
   a client waits exactly when there is a place of its own, and that what is
   there is the request it waits on, or the reply to it.                     *)

LastFrame(request) == request[Len(request)]

OnePlaceEach == \A p, q \in Places : ClientAt(p) = ClientAt(q) => p = q

WaitsForPlace ==
  \A c \in Clients : asking[c] # <<>> <=> \E p \in Places : ClientAt(p) = c

CarriesAt(p) ==
  LET request == asking[ClientAt(p)]
  IN  CASE p[1] = "frontend" -> frontend[p[2]].parts = request
        [] p[1] = "inbox"    -> inbox[p[2]][p[3]].body = LastFrame(request)
        [] p[1] = "owing"    -> /\ handling[p[2]] # <<>>
                                /\ handling[p[2]][1].body = LastFrame(request)
        [] p[1] = "backend"  -> backend[p[2]].reply = msg_handler(LastFrame(request))

Carries == \A p \in Places : CarriesAt(p)

Inv == TypeOK /\ OnePlaceEach /\ WaitsForPlace /\ Carries

\* The four kinds of places.
IsPlace(p) ==
  \/ \E i \in DOMAIN frontend : p = <<"frontend", i>>
  \/ \E w \in Workers : \E i \in DOMAIN inbox[w] :
       ~inbox[w][i].more /\ p = <<"inbox", w, i>>
  \/ \E w \in Workers : owing[w] # <<>> /\ p = <<"owing", w>>
  \/ \E i \in DOMAIN backend : p = <<"backend", i>>

LEMMA PlaceKinds == \A p : p \in Places <=> IsPlace(p)
<1> SUFFICES ASSUME NEW p PROVE p \in Places <=> IsPlace(p)
  OBVIOUS
<1> DEFINE ends(w) == {<<"inbox", w, i>> : i \in {i \in DOMAIN inbox[w] : ~inbox[w][i].more}}
           front  == {<<"frontend", i>> : i \in DOMAIN frontend}
           inner  == UNION {ends(w) : w \in Workers}
           owed   == {<<"owing", w>> : w \in {w \in Workers : owing[w] # <<>>}}
           back   == {<<"backend", i>> : i \in DOMAIN backend}
<1>1. p \in front <=> \E i \in DOMAIN frontend : p = <<"frontend", i>>
  OBVIOUS
<1>2. p \in inner <=> \E w \in Workers : \E i \in DOMAIN inbox[w] :
                        ~inbox[w][i].more /\ p = <<"inbox", w, i>>
  <2>1. \A w : p \in ends(w) <=>
          \E i \in DOMAIN inbox[w] : ~inbox[w][i].more /\ p = <<"inbox", w, i>>
    OBVIOUS
  <2> HIDE DEF ends
  <2> QED
    BY <2>1
<1>3. p \in owed <=> \E w \in Workers : owing[w] # <<>> /\ p = <<"owing", w>>
  OBVIOUS
<1>4. p \in back <=> \E i \in DOMAIN backend : p = <<"backend", i>>
  OBVIOUS
<1>5. Places = front \cup inner \cup owed \cup back
  BY DEF Places
<1> HIDE DEF front, inner, owed, back
<1> QED
  BY <1>1, <1>2, <1>3, <1>4, <1>5 DEF IsPlace

LEMMA PlaceKindsNext == \A p : p \in Places' <=> IsPlace(p)'
<1> SUFFICES ASSUME NEW p PROVE p \in Places' <=> IsPlace(p)'
  OBVIOUS
<1> DEFINE ends(w) == {<<"inbox", w, i>> : i \in {i \in DOMAIN inbox'[w] : ~inbox'[w][i].more}}
           front  == {<<"frontend", i>> : i \in DOMAIN frontend'}
           inner  == UNION {ends(w) : w \in Workers}
           owed   == {<<"owing", w>> : w \in {w \in Workers : owing'[w] # <<>>}}
           back   == {<<"backend", i>> : i \in DOMAIN backend'}
<1>1. p \in front <=> \E i \in DOMAIN frontend' : p = <<"frontend", i>>
  OBVIOUS
<1>2. p \in inner <=> \E w \in Workers : \E i \in DOMAIN inbox'[w] :
                        ~inbox'[w][i].more /\ p = <<"inbox", w, i>>
  <2>1. \A w : p \in ends(w) <=>
          \E i \in DOMAIN inbox'[w] : ~inbox'[w][i].more /\ p = <<"inbox", w, i>>
    OBVIOUS
  <2> HIDE DEF ends
  <2> QED
    BY <2>1
<1>3. p \in owed <=> \E w \in Workers : owing'[w] # <<>> /\ p = <<"owing", w>>
  OBVIOUS
<1>4. p \in back <=> \E i \in DOMAIN backend' : p = <<"backend", i>>
  OBVIOUS
<1>5. Places' = front \cup inner \cup owed \cup back
  BY DEF Places
<1> HIDE DEF front, inner, owed, back
<1> QED
  BY <1>1, <1>2, <1>3, <1>4, <1>5 DEF IsPlace

\* Who and what is at each of them.
LEMMA ClientAtKinds ==
  /\ \A i : ClientAt(<<"frontend", i>>) = frontend[i].client
  /\ \A w, i : ClientAt(<<"inbox", w, i>>) = inbox[w][i].client
  /\ \A w : ClientAt(<<"owing", w>>) = owing[w][1]
  /\ \A i : ClientAt(<<"backend", i>>) = backend[i].client
  BY DEF ClientAt

LEMMA ClientAtKindsNext ==
  /\ \A i : ClientAt(<<"frontend", i>>)' = frontend'[i].client
  /\ \A w, i : ClientAt(<<"inbox", w, i>>)' = inbox'[w][i].client
  /\ \A w : ClientAt(<<"owing", w>>)' = owing'[w][1]
  /\ \A i : ClientAt(<<"backend", i>>)' = backend'[i].client
  BY DEF ClientAt

LEMMA CarriesAtKinds ==
  /\ \A i : CarriesAt(<<"frontend", i>>) <=>
       frontend[i].parts = asking[frontend[i].client]
  /\ \A w, i : CarriesAt(<<"inbox", w, i>>) <=>
       inbox[w][i].body = LastFrame(asking[inbox[w][i].client])
  /\ \A w : CarriesAt(<<"owing", w>>) <=>
       /\ handling[w] # <<>>
       /\ handling[w][1].body = LastFrame(asking[owing[w][1]])
  /\ \A i : CarriesAt(<<"backend", i>>) <=>
       backend[i].reply = msg_handler(LastFrame(asking[backend[i].client]))
  BY ClientAtKinds DEF CarriesAt

LEMMA CarriesAtKindsNext ==
  /\ \A i : CarriesAt(<<"frontend", i>>)' <=>
       frontend'[i].parts = asking'[frontend'[i].client]
  /\ \A w, i : CarriesAt(<<"inbox", w, i>>)' <=>
       inbox'[w][i].body = LastFrame(asking'[inbox'[w][i].client])
  /\ \A w : CarriesAt(<<"owing", w>>)' <=>
       /\ handling'[w] # <<>>
       /\ handling'[w][1].body = LastFrame(asking'[owing'[w][1]])
  /\ \A i : CarriesAt(<<"backend", i>>)' <=>
       backend'[i].reply = msg_handler(LastFrame(asking'[backend'[i].client]))
  BY ClientAtKindsNext DEF CarriesAt, LastFrame

\* Every place is of a client.
LEMMA PlacesOfClients ==
  ASSUME TypeOK, NEW p \in Places
  PROVE  ClientAt(p) \in Clients
<1>1. CASE \E i \in DOMAIN frontend : p = <<"frontend", i>>
  <2>1. PICK i \in DOMAIN frontend : p = <<"frontend", i>>
    BY <1>1
  <2>2. frontend \in Seq([client : Clients, parts : Requests])
    BY DEF TypeOK
  <2>3. frontend[i] \in [client : Clients, parts : Requests]
    BY <2>2, ElementOfSeq, LenProperties
  <2> QED
    BY <2>1, <2>3, ClientAtKinds
<1>2. CASE \E w \in Workers : \E i \in DOMAIN inbox[w] : p = <<"inbox", w, i>>
  <2>0. PICK w \in Workers : \E i \in DOMAIN inbox[w] : p = <<"inbox", w, i>>
    BY <1>2
  <2>1. PICK i \in DOMAIN inbox[w] : p = <<"inbox", w, i>>
    BY <2>0
  <2>2. inbox[w] \in Seq(Frame)
    BY DEF TypeOK
  <2>3. inbox[w][i] \in Frame
    BY <2>1, <2>2, ElementOfSeq, LenProperties
  <2> QED
    BY <2>1, <2>3, ClientAtKinds DEF Frame
<1>3. CASE \E w \in Workers : owing[w] # <<>> /\ p = <<"owing", w>>
  <2>1. PICK w \in Workers : owing[w] # <<>> /\ p = <<"owing", w>>
    BY <1>3
  <2>2. owing[w] \in Seq(Clients)
    BY DEF TypeOK
  <2>3. owing[w][1] \in Clients
    BY <2>1, <2>2, Pop
  <2> QED
    BY <2>1, <2>3, ClientAtKinds
<1>4. CASE \E i \in DOMAIN backend : p = <<"backend", i>>
  <2>1. PICK i \in DOMAIN backend : p = <<"backend", i>>
    BY <1>4
  <2>2. backend \in Seq([client : Clients, reply : Replies])
    BY DEF TypeOK
  <2>3. backend[i] \in [client : Clients, reply : Replies]
    BY <2>2, ElementOfSeq, LenProperties
  <2> QED
    BY <2>1, <2>3, ClientAtKinds
<1> QED
  BY <1>1, <1>2, <1>3, <1>4, PlaceKinds DEF IsPlace

(* A step that moves what is at the places of P, each to one of the places after
   it and to all of them, keeps the clients apart.                           *)
LEMMA Moved ==
  ASSUME OnePlaceEach, NEW P \in SUBSET Places, NEW to,
         \A q \in P : /\ to[q] \in Places'
                      /\ ClientAt(to[q])' = ClientAt(q)
                      /\ CarriesAt(to[q])',
         \A p \in Places' : \E q \in P : p = to[q]
  PROVE  /\ OnePlaceEach' /\ Carries'
         /\ \A c : (\E p \in Places' : ClientAt(p)' = c)
                     <=> \E q \in P : ClientAt(q) = c
<1>1. ASSUME NEW p \in Places', NEW q \in Places', ClientAt(p)' = ClientAt(q)'
      PROVE  p = q
  <2>1. PICK s \in P : p = to[s]
    OBVIOUS
  <2>2. PICK t \in P : q = to[t]
    OBVIOUS
  <2>3. ClientAt(s) = ClientAt(t)
    BY <1>1, <2>1, <2>2
  <2> QED
    BY <2>1, <2>2, <2>3 DEF OnePlaceEach
<1>2. ASSUME NEW p \in Places'
      PROVE  CarriesAt(p)'
  OBVIOUS
<1>3. ASSUME NEW c
      PROVE  (\E p \in Places' : ClientAt(p)' = c) <=> \E q \in P : ClientAt(q) = c
  OBVIOUS
<1> QED
  BY <1>1, <1>2, <1>3 DEF OnePlaceEach, Carries

\* What is at p comes to q as it is.
Moves(p, q) ==
  \/ \E i, j : /\ p = <<"frontend", i>> /\ q = <<"frontend", j>>
               /\ frontend'[j] = frontend[i]
  \/ \E w, i, j : /\ p = <<"inbox", w, i>> /\ q = <<"inbox", w, j>>
                  /\ inbox'[w][j] = inbox[w][i]
  \/ \E w : /\ p = <<"owing", w>> /\ q = <<"owing", w>>
            /\ owing'[w] = owing[w] /\ handling'[w] = handling[w]
  \/ \E i, j : /\ p = <<"backend", i>> /\ q = <<"backend", j>>
               /\ backend'[j] = backend[i]

LEMMA MovesCarry ==
  ASSUME NEW p, NEW q, Moves(p, q), CarriesAt(p),
         asking'[ClientAt(p)] = asking[ClientAt(p)]
  PROVE  ClientAt(q)' = ClientAt(p) /\ CarriesAt(q)'
<1>1. CASE \E i, j : /\ p = <<"frontend", i>> /\ q = <<"frontend", j>>
                     /\ frontend'[j] = frontend[i]
  BY <1>1, ClientAtKinds, ClientAtKindsNext, CarriesAtKinds, CarriesAtKindsNext
<1>2. CASE \E w, i, j : /\ p = <<"inbox", w, i>> /\ q = <<"inbox", w, j>>
                        /\ inbox'[w][j] = inbox[w][i]
  BY <1>2, ClientAtKinds, ClientAtKindsNext, CarriesAtKinds, CarriesAtKindsNext
<1>3. CASE \E w : /\ p = <<"owing", w>> /\ q = <<"owing", w>>
                  /\ owing'[w] = owing[w] /\ handling'[w] = handling[w]
  BY <1>3, ClientAtKinds, ClientAtKindsNext, CarriesAtKinds, CarriesAtKindsNext
<1>4. CASE \E i, j : /\ p = <<"backend", i>> /\ q = <<"backend", j>>
                     /\ backend'[j] = backend[i]
  BY <1>4, ClientAtKinds, ClientAtKindsNext, CarriesAtKinds, CarriesAtKindsNext
<1> QED
  BY <1>1, <1>2, <1>3, <1>4 DEF Moves

LEMMA AskKeepsInv ==
  ASSUME Inv, NEW c \in Clients, ClientAsks(c)
  PROVE  OnePlaceEach' /\ WaitsForPlace' /\ Carries'
<1>0. PICK n : n = Len(frontend) + 1
  OBVIOUS
<1> DEFINE new == <<"frontend", n>>
<1>1. PICK request \in Requests :
        /\ asking' = [asking EXCEPT ![c] = request]
        /\ frontend' = Append(frontend, [client |-> c, parts |-> request])
  BY DEF ClientAsks
<1>2. /\ asking[c] = <<>> /\ asking \in [Clients -> Requests \cup {<<>>}]
      /\ inbox' = inbox /\ owing' = owing /\ backend' = backend
      /\ handling' = handling
  BY DEF ClientAsks, Inv, TypeOK
<1>3. /\ n \in Nat /\ DOMAIN frontend = 1 .. n - 1 /\ DOMAIN frontend' = 1 .. n
      /\ \A i \in 1 .. n - 1 : frontend'[i] = frontend[i]
      /\ frontend'[n] = [client |-> c, parts |-> request]
  <2> DEFINE e == [client |-> c, parts |-> request]
  <2>1. frontend \in Seq([client : Clients, parts : Requests])
    BY DEF Inv, TypeOK
  <2>2. frontend' = Append(frontend, e) /\ e \in [client : Clients, parts : Requests]
    BY <1>1
  <2> HIDE DEF e
  <2>3. Len(frontend) \in Nat
    BY <2>1, LenProperties
  <2>4. n \in Nat /\ n - 1 = Len(frontend) /\ n = Len(frontend) + 1
    BY <1>0, <2>3
  <2>5. /\ n \in Nat /\ DOMAIN frontend = 1 .. n - 1 /\ DOMAIN frontend' = 1 .. n
        /\ \A i \in 1 .. n - 1 : frontend'[i] = frontend[i]
        /\ frontend'[n] = e
    BY <2>1, <2>2, <2>4, Push
  <2> QED
    BY <2>5 DEF e
<1>4. \A p : p \in Places' <=> p \in Places \/ p = new
  <2>1. \A p : IsPlace(p)' <=> IsPlace(p) \/ p = new
    <3>1. n >= 1
      BY <1>0, LenProperties DEF Inv, TypeOK
    <3>2. \A i : i \in 1 .. n <=> i \in 1 .. n - 1 \/ i = n
      BY <1>3, <3>1
    <3> QED
      BY <1>2, <1>3, <3>2 DEF IsPlace
  <2> QED
    BY <2>1, PlaceKinds, PlaceKindsNext
<1>5. \A p \in Places : ClientAt(p) \in Clients \ {c}
  BY <1>2, PlacesOfClients DEF Inv, WaitsForPlace
<1>6. \A p \in Places : ClientAt(p)' = ClientAt(p) /\ CarriesAt(p)'
  <2> SUFFICES ASSUME NEW p \in Places PROVE ClientAt(p)' = ClientAt(p) /\ CarriesAt(p)'
    OBVIOUS
  <2>1. asking'[ClientAt(p)] = asking[ClientAt(p)]
    BY <1>1, <1>2, <1>5
  <2>2. Moves(p, p)
    BY <1>2, <1>3, PlaceKinds DEF IsPlace, Moves
  <2> QED
    BY <2>1, <2>2, MovesCarry DEF Inv, Carries
<1>7. ClientAt(new)' = c /\ CarriesAt(new)'
  BY <1>1, <1>2, <1>3, ClientAtKindsNext, CarriesAtKindsNext
<1>8. OnePlaceEach'
  BY <1>4, <1>5, <1>6, <1>7 DEF Inv, OnePlaceEach
<1>9. Carries'
  BY <1>4, <1>6, <1>7 DEF Carries
<1>10. ASSUME NEW d \in Clients
       PROVE  asking'[d] # <<>> <=> \E p \in Places' : ClientAt(p)' = d
  <2>1. CASE d = c
    BY <1>1, <1>2, <1>4, <1>7, <2>1, RequestProperties
  <2>2. CASE d # c
    <3>1. asking'[d] = asking[d]
      BY <1>1, <1>2, <2>2
    <3>2. (\E p \in Places' : ClientAt(p)' = d) <=> \E p \in Places : ClientAt(p) = d
      BY <1>4, <1>6, <1>7, <2>2
    <3> QED
      BY <3>1, <3>2 DEF Inv, WaitsForPlace
  <2> QED
    BY <2>1, <2>2
<1> QED
  BY <1>8, <1>9, <1>10 DEF WaitsForPlace

\* The first request in the ROUTER becomes the last frame in a worker's socket.
LEMMA RequestKeepsInv ==
  ASSUME Inv, ProxyRequest
  PROVE  OnePlaceEach' /\ WaitsForPlace' /\ Carries'
<1>1. /\ frontend \in Seq([client : Clients, parts : Requests])
      /\ frontend # <<>> /\ frontend' = Tail(frontend)
      /\ inbox \in [Workers -> Seq(Frame)]
      /\ asking' = asking /\ owing' = owing /\ backend' = backend
      /\ handling' = handling
  BY DEF ProxyRequest, Inv, TypeOK
<1>2. PICK r : r = Head(frontend)
  OBVIOUS
<1>3. PICK w \in Workers : inbox' = [inbox EXCEPT ![w] = @ \o Frames(r.parts, r.client)]
  BY <1>2 DEF ProxyRequest
<1>4. PICK f : f = Len(frontend)
  OBVIOUS
<1>5. /\ f \in Nat \ {0} /\ DOMAIN frontend = 1 .. f /\ DOMAIN frontend' = 1 .. f - 1
      /\ r \in [client : Clients, parts : Requests] /\ r = frontend[1]
      /\ \A i \in 1 .. f - 1 : frontend'[i] = frontend[i + 1]
  BY <1>1, <1>2, <1>4, Pop
<1>6. PICK k, n : k = Len(inbox[w]) /\ n = Len(inbox[w]) + Len(r.parts)
  OBVIOUS
<1>7. /\ k \in Nat /\ n \in Nat /\ k < n
      /\ DOMAIN inbox[w] = 1 .. k /\ DOMAIN inbox'[w] = 1 .. n
      /\ \A i \in 1 .. k : inbox'[w][i] = inbox[w][i]
      /\ \A i \in k + 1 .. n : inbox'[w][i].more <=> i < n
      /\ inbox'[w][n].client = r.client
      /\ inbox'[w][n].body = LastFrame(r.parts)
  <2> DEFINE s == Frames(r.parts, r.client)
  <2>1. PICK m : m = Len(r.parts)
    OBVIOUS
  <2>2. r.parts \in Requests /\ r.client \in Clients
    BY <1>5
  <2>3. m \in Nat \ {0}
    BY <2>1, <2>2, RequestProperties
  <2>4. /\ s \in Seq(Frame) /\ Len(s) = m
        /\ \A i \in 1 .. m : s[i].more <=> i < m
        /\ s[m].client = r.client /\ s[m].body = r.parts[m]
    BY <2>1, <2>2, FramesProperties
  <2>5. inbox[w] \in Seq(Frame) /\ inbox'[w] = inbox[w] \o s
    BY <1>1, <1>3
  <2> HIDE DEF s
  <2>6. k \in Nat /\ n = k + m /\ DOMAIN inbox[w] = 1 .. k
    BY <1>6, <2>1, <2>5, LenProperties
  <2>7. /\ inbox'[w] \in Seq(Frame) /\ Len(inbox'[w]) = k + m
        /\ \A i \in 1 .. k + m :
             inbox'[w][i] = IF i <= k THEN inbox[w][i] ELSE s[i - k]
    <3>1. Len(inbox[w]) = k /\ Len(s) = m
      BY <1>6, <2>4
    <3>2. /\ inbox[w] \o s \in Seq(Frame)
          /\ Len(inbox[w] \o s) = Len(inbox[w]) + Len(s)
          /\ \A i \in 1 .. Len(inbox[w]) + Len(s) : (inbox[w] \o s)[i] =
               IF i <= Len(inbox[w]) THEN inbox[w][i] ELSE s[i - Len(inbox[w])]
      <4>1. PICK t \in Seq(Frame) : t = inbox[w]
        BY <2>5
      <4>2. s \in Seq(Frame)
        BY <2>4
      <4>3. /\ t \o s \in Seq(Frame)
            /\ Len(t \o s) = Len(t) + Len(s)
            /\ \A i \in 1 .. Len(t) + Len(s) : (t \o s)[i] =
                 IF i <= Len(t) THEN t[i] ELSE s[i - Len(t)]
        BY <4>2, ConcatProperties, Zenon
      <4> QED
        BY <4>1, <4>3, Zenon
    <3> QED
      BY <2>5, <3>1, <3>2, Zenon
  <2>8. DOMAIN inbox'[w] = 1 .. n
    BY <2>6, <2>7, LenProperties
  <2>9. \A i \in 1 .. k : inbox'[w][i] = inbox[w][i]
    BY <2>3, <2>6, <2>7
  <2>10. \A i \in k + 1 .. n : inbox'[w][i] = s[i - k] /\ i - k \in 1 .. m
    BY <2>3, <2>6, <2>7
  <2>11. \A i \in k + 1 .. n : inbox'[w][i].more <=> i < n
    <3> SUFFICES ASSUME NEW i \in k + 1 .. n
                 PROVE  inbox'[w][i].more <=> i < n
      OBVIOUS
    <3>1. s[i - k].more <=> i - k < m
      BY <2>4, <2>10
    <3>2. i - k < m <=> i < n
      BY <2>3, <2>6
    <3> QED
      BY <2>10, <3>1, <3>2
  <2>12. n \in k + 1 .. n /\ n - k = m
    BY <2>3, <2>6
  <2>13. inbox'[w][n].client = r.client /\ inbox'[w][n].body = r.parts[m]
    <3>1. inbox'[w][n] = s[n - k]
      BY <2>10, <2>12
    <3>2. inbox'[w][n] = s[m]
      BY <2>12, <3>1
    <3> QED
      BY <2>4, <3>2, Zenon
  <2>14. LastFrame(r.parts) = r.parts[m]
    BY <2>1 DEF LastFrame
  <2>15. k \in Nat /\ n \in Nat /\ k < n
    BY <2>3, <2>6
  <2> QED
    BY <2>6, <2>8, <2>9, <2>11, <2>13, <2>14, <2>15
<1>8. \A v \in Workers \ {w} : inbox'[v] = inbox[v]
  BY <1>1, <1>3
<1> DEFINE first == <<"frontend", 1>>
           last  == <<"inbox", w, n>>
<1>9. PICK P : P = Places
  OBVIOUS
<1>10. PICK to : to = [q \in P |-> IF q = first THEN last
                                   ELSE IF q[1] = "frontend" THEN <<"frontend", q[2] - 1>>
                                   ELSE q]
  OBVIOUS
<1>11. last \in Places' /\ first \in Places /\ to[first] = last
  <2>1. n \in 1 .. n /\ ~inbox'[w][n].more /\ 1 \in 1 .. f
    <3>1. n \in k + 1 .. n /\ n \in 1 .. n /\ ~(n < n) /\ 1 \in 1 .. f
      BY <1>5, <1>7
    <3> QED
      BY <1>7, <3>1
  <2>2. IsPlace(last)'
    BY <1>7, <2>1 DEF IsPlace
  <2>3. IsPlace(first)
    BY <1>5, <2>1 DEF IsPlace
  <2> QED
    BY <1>9, <1>10, <2>2, <2>3, PlaceKinds, PlaceKindsNext
<1>12. ClientAt(last)' = ClientAt(first) /\ CarriesAt(last)'
  <2>1. first \in Places /\ CarriesAt(first)
    BY <1>11 DEF Inv, Carries
  <2>2. r.parts = asking[r.client]
    BY <1>5, <2>1, CarriesAtKinds
  <2>3. ClientAt(last)' = r.client /\ ClientAt(first) = r.client
    BY <1>5, <1>7, ClientAtKinds, ClientAtKindsNext
  <2>4. inbox'[w][n].body = LastFrame(asking'[inbox'[w][n].client])
    BY <1>1, <1>7, <2>2
  <2>5. CarriesAt(last)'
    BY <2>4, CarriesAtKindsNext
  <2> QED
    BY <2>3, <2>5
<1>13. ASSUME NEW q \in P, q # first
       PROVE  to[q] \in Places' /\ Moves(q, to[q])
  <2>1. IsPlace(q)
    BY <1>9, PlaceKinds
  <2>2. CASE \E i \in DOMAIN frontend : q = <<"frontend", i>>
    <3>1. PICK i \in DOMAIN frontend : q = <<"frontend", i>>
      BY <2>2
    <3>2. i - 1 \in 1 .. f - 1 /\ i - 1 + 1 = i
      BY <1>5, <1>13, <3>1
    <3>3. to[q] = <<"frontend", i - 1>>
      BY <1>10, <1>13, <3>1
    <3>4. frontend'[i - 1] = frontend[i]
      BY <1>5, <3>2
    <3>5. IsPlace(to[q])'
      BY <1>5, <3>2, <3>3 DEF IsPlace
    <3> QED
      BY <3>1, <3>3, <3>4, <3>5, PlaceKindsNext DEF Moves
  <2>3. CASE \E v \in Workers : \E i \in DOMAIN inbox[v] :
               ~inbox[v][i].more /\ q = <<"inbox", v, i>>
    <3>1. PICK v \in Workers : \E i \in DOMAIN inbox[v] :
               ~inbox[v][i].more /\ q = <<"inbox", v, i>>
      BY <2>3
    <3>2. PICK i \in DOMAIN inbox[v] : ~inbox[v][i].more /\ q = <<"inbox", v, i>>
      BY <3>1
    <3>3. i \in DOMAIN inbox'[v] /\ inbox'[v][i] = inbox[v][i]
      BY <1>7, <1>8
    <3>4. to[q] = q
      BY <1>10, <3>2
    <3>5. IsPlace(q)'
      BY <3>2, <3>3 DEF IsPlace
    <3> QED
      BY <3>2, <3>3, <3>4, <3>5, PlaceKindsNext DEF Moves
  <2>4. CASE \/ \E v \in Workers : owing[v] # <<>> /\ q = <<"owing", v>>
             \/ \E i \in DOMAIN backend : q = <<"backend", i>>
    <3>1. to[q] = q
      BY <1>10, <2>4
    <3>2. IsPlace(q)'
      BY <1>1, <2>4 DEF IsPlace
    <3> QED
      BY <1>1, <2>4, <3>1, <3>2, PlaceKindsNext DEF Moves
  <2> QED
    BY <2>1, <2>2, <2>3, <2>4 DEF IsPlace
<1>14. ASSUME NEW q \in P
       PROVE  to[q] \in Places' /\ ClientAt(to[q])' = ClientAt(q) /\ CarriesAt(to[q])'
  <2>1. CASE q = first
    BY <1>11, <1>12, <2>1
  <2>2. CASE q # first
    BY <1>1, <1>9, <1>13, <2>2, MovesCarry DEF Inv, Carries
  <2> QED
    BY <2>1, <2>2
<1>15. ASSUME NEW p \in Places'
       PROVE  \E q \in P : p = to[q]
  <2>1. IsPlace(p)'
    BY PlaceKindsNext
  <2>2. CASE \E i \in DOMAIN frontend' : p = <<"frontend", i>>
    <3>1. PICK i \in DOMAIN frontend' : p = <<"frontend", i>>
      BY <2>2
    <3>2. PICK j : j = i + 1
      OBVIOUS
    <3>3. j \in 1 .. f /\ j # 1 /\ j - 1 = i
      BY <1>5, <3>2
    <3> DEFINE q == <<"frontend", j>>
    <3>4. q \in P /\ q # first /\ q[1] = "frontend" /\ q[2] = j
      BY <1>5, <1>9, <3>3, PlaceKinds DEF IsPlace
    <3>5. to[q] = <<"frontend", q[2] - 1>>
      BY <1>10, <3>4
    <3>6. to[q] = p
      BY <3>1, <3>3, <3>4, <3>5
    <3> QED
      BY <3>4, <3>6
  <2>3. CASE \E v \in Workers : \E i \in DOMAIN inbox'[v] :
               ~inbox'[v][i].more /\ p = <<"inbox", v, i>>
    <3>1. PICK v \in Workers : \E i \in DOMAIN inbox'[v] :
               ~inbox'[v][i].more /\ p = <<"inbox", v, i>>
      BY <2>3
    <3>2. PICK i \in DOMAIN inbox'[v] : ~inbox'[v][i].more /\ p = <<"inbox", v, i>>
      BY <3>1
    <3>3. CASE p = last
      BY <1>9, <1>11, <3>3
    <3>4. CASE p # last
      <4>1. i \in DOMAIN inbox[v] /\ inbox'[v][i] = inbox[v][i]
        <5>1. CASE v # w
          BY <1>8, <5>1
        <5>2. CASE v = w
          <6>1. i \in 1 .. n /\ i # n
            BY <1>7, <3>2, <3>4, <5>2
          <6>2. i \in 1 .. k \/ (i \in k + 1 .. n /\ i < n)
            BY <1>7, <6>1
          <6> QED
            BY <1>7, <3>2, <5>2, <6>2
        <5> QED
          BY <5>1, <5>2
      <4>2. p \in P
        BY <1>9, <3>2, <4>1, PlaceKinds DEF IsPlace
      <4>3. to[p] = p
        BY <1>10, <3>2, <4>2
      <4> QED
        BY <4>2, <4>3
    <3> QED
      BY <3>3, <3>4
  <2>4. CASE \/ \E v \in Workers : owing'[v] # <<>> /\ p = <<"owing", v>>
             \/ \E i \in DOMAIN backend' : p = <<"backend", i>>
    <3>1. p \in P
      BY <1>1, <1>9, <2>4, PlaceKinds DEF IsPlace
    <3>2. to[p] = p
      BY <1>10, <2>4, <3>1
    <3> QED
      BY <3>1, <3>2
  <2> QED
    BY <2>1, <2>2, <2>3, <2>4 DEF IsPlace
<1>16. /\ OnePlaceEach' /\ Carries'
       /\ \A c : (\E p \in Places' : ClientAt(p)' = c) <=> \E q \in P : ClientAt(q) = c
  BY <1>9, <1>14, <1>15, Moved DEF Inv
<1> QED
  BY <1>1, <1>9, <1>16 DEF Inv, WaitsForPlace

\* The first frame in a worker's socket is received; the last of a request
\* becomes the reply that is owed.
LEMMA ReceiveKeepsInv ==
  ASSUME Inv, NEW w \in Workers, ReceiveFrame(w)
  PROVE  OnePlaceEach' /\ WaitsForPlace' /\ Carries'
<1>1. /\ inbox \in [Workers -> Seq(Frame)]
      /\ inbox[w] \in Seq(Frame) /\ inbox[w] # <<>>
      /\ handling \in [Workers -> Seq(Frame)] /\ owing \in [Workers -> Seq(Clients)]
      /\ owing[w] = <<>>
      /\ asking' = asking /\ frontend' = frontend /\ backend' = backend
  BY DEF ReceiveFrame, Inv, TypeOK
<1>2. PICK f : f = Head(inbox[w])
  OBVIOUS
<1>3. /\ handling' = [handling EXCEPT ![w] = <<f>>]
      /\ owing' = [owing EXCEPT ![w] = IF f.more THEN <<>> ELSE <<f.client>>]
      /\ inbox' = [inbox EXCEPT ![w] = Tail(@)]
  BY <1>2 DEF ReceiveFrame
<1>4. PICK n : n = Len(inbox[w])
  OBVIOUS
<1>5. /\ n \in Nat \ {0} /\ DOMAIN inbox[w] = 1 .. n /\ DOMAIN inbox'[w] = 1 .. n - 1
      /\ f = inbox[w][1] /\ f \in Frame
      /\ \A i \in 1 .. n - 1 : inbox'[w][i] = inbox[w][i + 1]
  <2>1. inbox'[w] = Tail(inbox[w])
    BY <1>1, <1>3
  <2> QED
    BY <1>1, <1>2, <1>4, <2>1, Pop
<1>6. /\ \A v \in Workers \ {w} : /\ inbox'[v] = inbox[v]
                                  /\ owing'[v] = owing[v]
                                  /\ handling'[v] = handling[v]
      /\ handling'[w] = <<f>>
      /\ owing'[w] = IF f.more THEN <<>> ELSE <<f.client>>
  BY <1>1, <1>3
<1> DEFINE first == <<"inbox", w, 1>>
           owed  == <<"owing", w>>
<1>7. PICK P : P = Places
  OBVIOUS
<1>8. PICK to : to = [q \in P |-> IF q = first THEN owed
                                  ELSE IF q[1] = "inbox" /\ q[2] = w
                                       THEN <<"inbox", w, q[3] - 1>>
                                  ELSE q]
  OBVIOUS
<1>9. /\ first \in P <=> ~f.more
      /\ owed \in Places' <=> ~f.more
      /\ owed \notin P
  <2>1. 1 \in 1 .. n
    BY <1>5
  <2>2. IsPlace(first) <=> ~f.more
    BY <1>5, <2>1 DEF IsPlace
  <2>3. ~IsPlace(owed)
    BY <1>1 DEF IsPlace
  <2>4. IsPlace(owed)' <=> owing'[w] # <<>>
    BY DEF IsPlace
  <2>5. owing'[w] # <<>> <=> ~f.more
    BY <1>6
  <2> QED
    BY <1>7, <2>2, <2>3, <2>4, <2>5, PlaceKinds, PlaceKindsNext
<1>10. ASSUME ~f.more
       PROVE  ClientAt(owed)' = ClientAt(first) /\ CarriesAt(owed)'
  <2>1. CarriesAt(first)
    BY <1>7, <1>9, <1>10 DEF Inv, Carries
  <2>2. f.body = LastFrame(asking[f.client])
    BY <1>5, <2>1, CarriesAtKinds
  <2>3. owing'[w][1] = f.client /\ handling'[w] # <<>> /\ handling'[w][1] = f
    BY <1>5, <1>6, <1>10, One
  <2>4. ClientAt(owed)' = f.client /\ ClientAt(first) = f.client
    BY <1>5, <2>3, ClientAtKinds, ClientAtKindsNext
  <2>5. handling'[w][1].body = LastFrame(asking'[owing'[w][1]])
    BY <1>1, <2>2, <2>3
  <2>6. CarriesAt(owed)'
    BY <2>3, <2>5, CarriesAtKindsNext
  <2> QED
    BY <2>4, <2>6
<1>11. ASSUME NEW q \in P, q # first
       PROVE  to[q] \in Places' /\ Moves(q, to[q])
  <2>1. IsPlace(q)
    BY <1>7, PlaceKinds
  <2>2. CASE \E v \in Workers : \E i \in DOMAIN inbox[v] :
               ~inbox[v][i].more /\ q = <<"inbox", v, i>>
    <3>1. PICK v \in Workers : \E i \in DOMAIN inbox[v] :
               ~inbox[v][i].more /\ q = <<"inbox", v, i>>
      BY <2>2
    <3>2. PICK i \in DOMAIN inbox[v] : ~inbox[v][i].more /\ q = <<"inbox", v, i>>
      BY <3>1
    <3>3. CASE v = w
      <4>1. PICK j : j = i - 1
        OBVIOUS
      <4>2. i # 1 /\ i \in 1 .. n
        BY <1>5, <1>11, <3>2, <3>3
      <4>3. j \in 1 .. n - 1 /\ j + 1 = i
        BY <1>5, <4>1, <4>2
      <4>4. to[q] = <<"inbox", w, j>>
        <5>1. q[1] = "inbox" /\ q[2] = w /\ q[3] = i
          BY <3>2, <3>3
        <5>2. to[q] = <<"inbox", w, q[3] - 1>>
          BY <1>8, <1>11, <5>1
        <5> QED
          BY <4>1, <5>1, <5>2
      <4>5. inbox'[w][j] = inbox[w][i]
        BY <1>5, <4>3
      <4>6. IsPlace(to[q])'
        BY <1>5, <3>2, <3>3, <4>3, <4>4, <4>5 DEF IsPlace
      <4> QED
        BY <3>2, <3>3, <4>4, <4>5, <4>6, PlaceKindsNext DEF Moves
    <3>4. CASE v # w
      <4>1. to[q] = q
        BY <1>8, <3>2, <3>4
      <4>2. IsPlace(q)'
        BY <1>6, <3>2, <3>4 DEF IsPlace
      <4> QED
        BY <1>6, <3>2, <3>4, <4>1, <4>2, PlaceKindsNext DEF Moves
    <3> QED
      BY <3>3, <3>4
  <2>3. CASE \E v \in Workers : owing[v] # <<>> /\ q = <<"owing", v>>
    <3>1. PICK v \in Workers : owing[v] # <<>> /\ q = <<"owing", v>>
      BY <2>3
    <3>2. v # w /\ to[q] = q
      BY <1>1, <1>8, <3>1
    <3>3. IsPlace(q)'
      BY <1>6, <3>1, <3>2 DEF IsPlace
    <3> QED
      BY <1>6, <3>1, <3>2, <3>3, PlaceKindsNext DEF Moves
  <2>4. CASE \/ \E i \in DOMAIN frontend : q = <<"frontend", i>>
             \/ \E i \in DOMAIN backend : q = <<"backend", i>>
    <3>1. to[q] = q
      BY <1>8, <2>4
    <3>2. IsPlace(q)'
      BY <1>1, <2>4 DEF IsPlace
    <3> QED
      BY <1>1, <2>4, <3>1, <3>2, PlaceKindsNext DEF Moves
  <2> QED
    BY <2>1, <2>2, <2>3, <2>4 DEF IsPlace
<1>12. ASSUME NEW q \in P
       PROVE  to[q] \in Places' /\ ClientAt(to[q])' = ClientAt(q) /\ CarriesAt(to[q])'
  <2>1. CASE q = first
    <3>1. ~f.more /\ to[q] = owed
      BY <1>8, <1>9, <2>1
    <3> QED
      BY <1>9, <1>10, <2>1, <3>1
  <2>2. CASE q # first
    BY <1>1, <1>7, <1>11, <2>2, MovesCarry DEF Inv, Carries
  <2> QED
    BY <2>1, <2>2
<1>13. ASSUME NEW p \in Places'
       PROVE  \E q \in P : p = to[q]
  <2>1. IsPlace(p)'
    BY PlaceKindsNext
  <2>2. CASE \E v \in Workers : \E i \in DOMAIN inbox'[v] :
               ~inbox'[v][i].more /\ p = <<"inbox", v, i>>
    <3>1. PICK v \in Workers : \E i \in DOMAIN inbox'[v] :
               ~inbox'[v][i].more /\ p = <<"inbox", v, i>>
      BY <2>2
    <3>2. PICK i \in DOMAIN inbox'[v] : ~inbox'[v][i].more /\ p = <<"inbox", v, i>>
      BY <3>1
    <3>3. CASE v = w
      <4>1. PICK j : j = i + 1
        OBVIOUS
      <4>2. j \in 1 .. n /\ j # 1 /\ j - 1 = i /\ inbox'[w][i] = inbox[w][j]
        BY <1>5, <3>3, <4>1
      <4> DEFINE q == <<"inbox", w, j>>
      <4>3. q \in P /\ q # first /\ q[1] = "inbox" /\ q[2] = w /\ q[3] = j
        BY <1>5, <1>7, <3>2, <3>3, <4>2, PlaceKinds DEF IsPlace
      <4>4. to[q] = <<"inbox", w, q[3] - 1>>
        BY <1>8, <4>3
      <4>5. to[q] = p
        BY <3>2, <3>3, <4>2, <4>3, <4>4
      <4> QED
        BY <4>3, <4>5
    <3>4. CASE v # w
      <4>1. p \in P
        BY <1>6, <1>7, <3>2, <3>4, PlaceKinds DEF IsPlace
      <4>2. to[p] = p
        BY <1>8, <3>2, <3>4, <4>1
      <4> QED
        BY <4>1, <4>2
    <3> QED
      BY <3>3, <3>4
  <2>3. CASE \E v \in Workers : owing'[v] # <<>> /\ p = <<"owing", v>>
    <3>1. PICK v \in Workers : owing'[v] # <<>> /\ p = <<"owing", v>>
      BY <2>3
    <3>2. CASE v = w
      <4>1. first \in P
        BY <1>9, <3>1, <3>2
      <4>2. to[first] = p
        BY <1>8, <3>1, <3>2, <4>1
      <4> QED
        BY <4>1, <4>2
    <3>3. CASE v # w
      <4>1. p \in P
        BY <1>6, <1>7, <3>1, <3>3, PlaceKinds DEF IsPlace
      <4>2. to[p] = p
        BY <1>8, <3>1, <4>1
      <4> QED
        BY <4>1, <4>2
    <3> QED
      BY <3>2, <3>3
  <2>4. CASE \/ \E i \in DOMAIN frontend' : p = <<"frontend", i>>
             \/ \E i \in DOMAIN backend' : p = <<"backend", i>>
    <3>1. p \in P
      BY <1>1, <1>7, <2>4, PlaceKinds DEF IsPlace
    <3>2. to[p] = p
      BY <1>8, <2>4, <3>1
    <3> QED
      BY <3>1, <3>2
  <2> QED
    BY <2>1, <2>2, <2>3, <2>4 DEF IsPlace
<1>14. /\ OnePlaceEach' /\ Carries'
       /\ \A c : (\E p \in Places' : ClientAt(p)' = c) <=> \E q \in P : ClientAt(q) = c
  <2>1. OnePlaceEach /\ P \in SUBSET Places
    BY <1>7 DEF Inv
  <2> QED
    BY <1>12, <1>13, <2>1, Moved
<1> QED
  BY <1>1, <1>7, <1>14 DEF Inv, WaitsForPlace

\* The reply that is owed goes out; a reply that is not owed goes nowhere.
LEMMA ReplyKeepsInv ==
  ASSUME Inv, NEW w \in Workers, SendReply(w)
  PROVE  OnePlaceEach' /\ WaitsForPlace' /\ Carries'
<1>1. /\ handling \in [Workers -> Seq(Frame)] /\ owing \in [Workers -> Seq(Clients)]
      /\ handling[w] # <<>>
      /\ asking' = asking /\ frontend' = frontend /\ inbox' = inbox
      /\ handling' = [handling EXCEPT ![w] = <<>>]
  BY DEF SendReply, Inv, TypeOK
<1>2. PICK row \in HandlerTable :
        /\ row.body = handling[w][1].body
        /\ IF owing[w] = <<>>
           THEN UNCHANGED <<backend, owing>>
           ELSE /\ backend' = Append(backend, [client |-> owing[w][1],
                                               reply |-> row.reply])
                /\ owing' = [owing EXCEPT ![w] = <<>>]
  BY DEF SendReply
<1>3. owing' = [owing EXCEPT ![w] = <<>>]
  BY <1>1, <1>2
<1>4. /\ \A v \in Workers \ {w} : handling'[v] = handling[v] /\ owing'[v] = owing[v]
      /\ owing'[w] = <<>>
  BY <1>1, <1>3
<1>5. PICK n : n = IF owing[w] = <<>> THEN Len(backend) ELSE Len(backend) + 1
  OBVIOUS
<1>6. PICK k : k = Len(backend)
  OBVIOUS
<1>7. /\ k \in Nat /\ n \in Nat
      /\ n = IF owing[w] = <<>> THEN k ELSE k + 1
      /\ DOMAIN backend = 1 .. k /\ DOMAIN backend' = 1 .. n
      /\ \A i \in 1 .. k : backend'[i] = backend[i]
      /\ owing[w] # <<>> => backend'[n] = [client |-> owing[w][1], reply |-> row.reply]
  <2>1. backend \in Seq([client : Clients, reply : Replies])
    BY DEF Inv, TypeOK
  <2>2. k \in Nat /\ DOMAIN backend = 1 .. k
    BY <1>6, <2>1, LenProperties
  <2>3. CASE owing[w] = <<>>
    BY <1>2, <1>5, <1>6, <2>2, <2>3
  <2>4. CASE owing[w] # <<>>
    <3> DEFINE e == [client |-> owing[w][1], reply |-> row.reply]
    <3>1. owing[w][1] \in Clients
      BY <1>1, <2>4, Pop
    <3>2. e \in [client : Clients, reply : Replies]
      BY <3>1, RowProperties
    <3>3. backend' = Append(backend, e)
      BY <1>2, <2>4
    <3> HIDE DEF e
    <3>4. /\ DOMAIN backend' = 1 .. k + 1
          /\ \A i \in 1 .. k : backend'[i] = backend[i]
          /\ backend'[k + 1] = e
      BY <1>6, <2>1, <3>2, <3>3, Push
    <3> QED
      BY <1>5, <1>6, <2>2, <2>4, <3>4 DEF e
  <2> QED
    BY <2>3, <2>4
<1> DEFINE owed == <<"owing", w>>
           last == <<"backend", n>>
<1>8. PICK P : P = Places
  OBVIOUS
<1>9. PICK to : to = [q \in P |-> IF q = owed THEN last ELSE q]
  OBVIOUS
<1>10. owed \in P <=> owing[w] # <<>>
  BY <1>8, PlaceKinds DEF IsPlace
<1>11. ASSUME owing[w] # <<>>
       PROVE  last \in Places' /\ ClientAt(last)' = ClientAt(owed) /\ CarriesAt(last)'
  <2>1. n \in 1 .. n
    BY <1>7, <1>11
  <2>2. last \in Places'
    BY <1>7, <2>1, PlaceKindsNext DEF IsPlace
  <2>3. CarriesAt(owed)
    BY <1>8, <1>10, <1>11 DEF Inv, Carries
  <2>4. handling[w][1].body = LastFrame(asking[owing[w][1]])
    BY <2>3, CarriesAtKinds
  <2>5. backend'[n].client = owing[w][1] /\ backend'[n].reply = row.reply
    BY <1>7, <1>11
  <2>6. row.reply = msg_handler(LastFrame(asking[owing[w][1]]))
    BY <1>2, <2>4, RowProperties
  <2>7. backend'[n].reply = msg_handler(LastFrame(asking'[backend'[n].client]))
    BY <1>1, <2>5, <2>6
  <2>8. ClientAt(last)' = ClientAt(owed)
    BY <2>5, ClientAtKinds, ClientAtKindsNext
  <2> QED
    BY <2>2, <2>7, <2>8, CarriesAtKindsNext
<1>12. ASSUME NEW q \in P, q # owed
       PROVE  to[q] = q /\ q \in Places' /\ Moves(q, q)
  <2>1. IsPlace(q) /\ to[q] = q
    BY <1>8, <1>9, <1>12, PlaceKinds
  <2>2. CASE \E i \in DOMAIN backend : q = <<"backend", i>>
    <3>1. PICK i \in DOMAIN backend : q = <<"backend", i>>
      BY <2>2
    <3>2. i \in 1 .. n /\ backend'[i] = backend[i]
      BY <1>7
    <3> QED
      BY <1>7, <2>1, <3>1, <3>2, PlaceKindsNext DEF IsPlace, Moves
  <2>3. CASE \E v \in Workers : owing[v] # <<>> /\ q = <<"owing", v>>
    <3>1. PICK v \in Workers : owing[v] # <<>> /\ q = <<"owing", v>>
      BY <2>3
    <3>2. v # w
      BY <1>12, <3>1
    <3> QED
      BY <1>4, <2>1, <3>1, <3>2, PlaceKindsNext DEF IsPlace, Moves
  <2>4. CASE \/ \E i \in DOMAIN frontend : q = <<"frontend", i>>
             \/ \E v \in Workers : \E i \in DOMAIN inbox[v] :
                  ~inbox[v][i].more /\ q = <<"inbox", v, i>>
    BY <1>1, <2>1, <2>4, PlaceKindsNext DEF IsPlace, Moves
  <2> QED
    BY <2>1, <2>2, <2>3, <2>4 DEF IsPlace
<1>13. ASSUME NEW q \in P
       PROVE  to[q] \in Places' /\ ClientAt(to[q])' = ClientAt(q) /\ CarriesAt(to[q])'
  <2>1. CASE q = owed
    BY <1>9, <1>10, <1>11, <2>1
  <2>2. CASE q # owed
    BY <1>1, <1>8, <1>12, <2>2, MovesCarry DEF Inv, Carries
  <2> QED
    BY <2>1, <2>2
<1>14. ASSUME NEW p \in Places'
       PROVE  \E q \in P : p = to[q]
  <2>1. IsPlace(p)' /\ p # owed
    BY <1>4, PlaceKindsNext DEF IsPlace
  <2>2. CASE p \in P
    BY <1>9, <2>1, <2>2
  <2>3. CASE p \notin P
    <3>1. \E i \in DOMAIN backend' : p = <<"backend", i>>
      <4>1. ~(\E i \in DOMAIN frontend' : p = <<"frontend", i>>)
        BY <1>1, <1>8, <2>3, PlaceKinds DEF IsPlace
      <4>2. ~(\E v \in Workers : \E i \in DOMAIN inbox'[v] :
                ~inbox'[v][i].more /\ p = <<"inbox", v, i>>)
        BY <1>1, <1>8, <2>3, PlaceKinds DEF IsPlace
      <4>3. ~(\E v \in Workers : owing'[v] # <<>> /\ p = <<"owing", v>>)
        BY <1>4, <1>8, <2>1, <2>3, PlaceKinds DEF IsPlace
      <4> QED
        BY <2>1, <4>1, <4>2, <4>3 DEF IsPlace
    <3>2. PICK i \in DOMAIN backend' : p = <<"backend", i>>
      BY <3>1
    <3>3. i \in 1 .. n /\ i \notin 1 .. k
      BY <1>7, <1>8, <2>3, <3>2, PlaceKinds DEF IsPlace
    <3>4. i = n /\ owing[w] # <<>>
      BY <1>7, <3>3
    <3> QED
      BY <1>9, <1>10, <3>2, <3>4
  <2> QED
    BY <2>2, <2>3
<1>15. /\ OnePlaceEach' /\ Carries'
       /\ \A c : (\E p \in Places' : ClientAt(p)' = c) <=> \E q \in P : ClientAt(q) = c
  BY <1>8, <1>13, <1>14, Moved DEF Inv
<1> QED
  BY <1>1, <1>8, <1>15 DEF Inv, WaitsForPlace

\* The first reply in the proxy is heard by its client, and nobody else's place
\* goes with it.
LEMMA HearKeepsInv ==
  ASSUME Inv, ProxyReply
  PROVE  /\ OnePlaceEach' /\ WaitsForPlace' /\ Carries'
         /\ Head(backend).client \in Clients
         /\ asking[Head(backend).client] \in Requests
         /\ Head(backend).reply
              = msg_handler(LastFrame(asking[Head(backend).client]))
<1>1. /\ backend \in Seq([client : Clients, reply : Replies])
      /\ backend # <<>> /\ backend' = Tail(backend)
      /\ asking \in [Clients -> Requests \cup {<<>>}]
      /\ frontend' = frontend /\ inbox' = inbox /\ owing' = owing
      /\ handling' = handling
  BY DEF ProxyReply, Inv, TypeOK
<1>2. PICK r : r = Head(backend)
  OBVIOUS
<1>3. asking' = [asking EXCEPT ![r.client] = <<>>]
  BY <1>2 DEF ProxyReply
<1>4. PICK n : n = Len(backend)
  OBVIOUS
<1>5. /\ n \in Nat \ {0} /\ DOMAIN backend = 1 .. n /\ DOMAIN backend' = 1 .. n - 1
      /\ r \in [client : Clients, reply : Replies] /\ r = backend[1]
      /\ \A i \in 1 .. n - 1 : backend'[i] = backend[i + 1]
  BY <1>1, <1>2, <1>4, Pop
<1> DEFINE first == <<"backend", 1>>
<1>6. first \in Places /\ ClientAt(first) = r.client /\ CarriesAt(first)
  <2>1. 1 \in DOMAIN backend
    BY <1>5
  <2>2. first \in Places
    BY <2>1, PlaceKinds DEF IsPlace
  <2> QED
    BY <1>5, <2>2, ClientAtKinds DEF Inv, Carries
<1>7. r.client \in Clients /\ asking[r.client] \in Requests
  <2>1. r.client \in Clients
    BY <1>5
  <2>2. asking[r.client] # <<>>
    BY <1>6, <2>1 DEF Inv, WaitsForPlace
  <2> QED
    BY <1>1, <2>1, <2>2
<1>8. r.reply = msg_handler(LastFrame(asking[r.client]))
  BY <1>5, <1>6, CarriesAtKinds
<1>9. PICK P : P = Places \ {first}
  OBVIOUS
<1>10. PICK to : to = [q \in P |-> IF q[1] = "backend" THEN <<"backend", q[2] - 1>>
                                   ELSE q]
  OBVIOUS
<1>11. ASSUME NEW q \in P
       PROVE  /\ ClientAt(q) \in Clients \ {r.client}
              /\ asking'[ClientAt(q)] = asking[ClientAt(q)]
  <2>1. q \in Places /\ q # first
    BY <1>9
  <2>2. ClientAt(q) \in Clients /\ ClientAt(q) # r.client
    BY <1>6, <2>1, PlacesOfClients DEF Inv, OnePlaceEach
  <2> QED
    BY <1>1, <1>3, <2>2
<1>12. ASSUME NEW q \in P
       PROVE  to[q] \in Places' /\ Moves(q, to[q])
  <2>1. IsPlace(q) /\ q # first
    BY <1>9, PlaceKinds
  <2>2. CASE \E i \in DOMAIN backend : q = <<"backend", i>>
    <3>1. PICK i \in DOMAIN backend : q = <<"backend", i>>
      BY <2>2
    <3>2. PICK j : j = i - 1
      OBVIOUS
    <3>3. j \in 1 .. n - 1 /\ j + 1 = i
      BY <1>5, <2>1, <3>1, <3>2
    <3>4. to[q] = <<"backend", j>>
      <4>1. q[1] = "backend" /\ q[2] = i
        BY <3>1
      <4>2. to[q] = <<"backend", q[2] - 1>>
        BY <1>10, <4>1
      <4> QED
        BY <3>2, <4>1, <4>2
    <3>5. backend'[j] = backend[i]
      BY <1>5, <3>3
    <3>6. IsPlace(to[q])'
      BY <1>5, <3>3, <3>4 DEF IsPlace
    <3> QED
      BY <3>1, <3>4, <3>5, <3>6, PlaceKindsNext DEF Moves
  <2>3. CASE \/ \E i \in DOMAIN frontend : q = <<"frontend", i>>
             \/ \E v \in Workers : \E i \in DOMAIN inbox[v] :
                  ~inbox[v][i].more /\ q = <<"inbox", v, i>>
             \/ \E v \in Workers : owing[v] # <<>> /\ q = <<"owing", v>>
    <3>1. to[q] = q
      BY <1>10, <2>3
    <3>2. IsPlace(q)'
      BY <1>1, <2>3 DEF IsPlace
    <3> QED
      BY <1>1, <2>3, <3>1, <3>2, PlaceKindsNext DEF Moves
  <2> QED
    BY <2>1, <2>2, <2>3 DEF IsPlace
<1>13. ASSUME NEW q \in P
       PROVE  to[q] \in Places' /\ ClientAt(to[q])' = ClientAt(q) /\ CarriesAt(to[q])'
  <2>1. CarriesAt(q)
    BY <1>9 DEF Inv, Carries
  <2> QED
    BY <1>11, <1>12, <2>1, MovesCarry
<1>14. ASSUME NEW p \in Places'
       PROVE  \E q \in P : p = to[q]
  <2>1. IsPlace(p)'
    BY PlaceKindsNext
  <2>2. CASE \E i \in DOMAIN backend' : p = <<"backend", i>>
    <3>1. PICK i \in DOMAIN backend' : p = <<"backend", i>>
      BY <2>2
    <3>2. PICK j : j = i + 1
      OBVIOUS
    <3>3. j \in 1 .. n /\ j # 1 /\ j - 1 = i
      BY <1>5, <3>2
    <3> DEFINE q == <<"backend", j>>
    <3>4. q \in P /\ q[1] = "backend" /\ q[2] = j
      BY <1>5, <1>9, <3>3, PlaceKinds DEF IsPlace
    <3>5. to[q] = <<"backend", q[2] - 1>>
      BY <1>10, <3>4
    <3>6. to[q] = p
      BY <3>1, <3>3, <3>4, <3>5
    <3> QED
      BY <3>4, <3>6
  <2>3. CASE \/ \E i \in DOMAIN frontend' : p = <<"frontend", i>>
             \/ \E v \in Workers : \E i \in DOMAIN inbox'[v] :
                  ~inbox'[v][i].more /\ p = <<"inbox", v, i>>
             \/ \E v \in Workers : owing'[v] # <<>> /\ p = <<"owing", v>>
    <3>1. p \in P
      BY <1>1, <1>9, <2>3, PlaceKinds DEF IsPlace
    <3>2. to[p] = p
      BY <1>10, <2>3, <3>1
    <3> QED
      BY <3>1, <3>2
  <2> QED
    BY <2>1, <2>2, <2>3 DEF IsPlace
<1>15. /\ OnePlaceEach' /\ Carries'
       /\ \A c : (\E p \in Places' : ClientAt(p)' = c) <=> \E q \in P : ClientAt(q) = c
  <2>1. P \in SUBSET Places
    BY <1>9
  <2>2. OnePlaceEach
    BY DEF Inv
  <2> HIDE DEF first
  <2> QED
    BY <1>13, <1>14, <2>1, <2>2, Moved
<1>16. ASSUME NEW c \in Clients
       PROVE  asking'[c] # <<>> <=> \E p \in Places' : ClientAt(p)' = c
  <2>1. CASE c = r.client
    BY <1>1, <1>3, <1>11, <1>15, <2>1
  <2>2. CASE c # r.client
    <3>1. asking'[c] = asking[c]
      BY <1>1, <1>3, <2>2
    <3>2. (\E q \in P : ClientAt(q) = c) <=> \E p \in Places : ClientAt(p) = c
      BY <1>6, <1>9, <2>2
    <3> QED
      BY <1>15, <3>1, <3>2 DEF Inv, WaitsForPlace
  <2> QED
    BY <2>1, <2>2
<1> QED
  BY <1>2, <1>7, <1>8, <1>15, <1>16 DEF WaitsForPlace

------------------------------------------------------------------------------
LEMMA InitInv == Init => Inv
<1> SUFFICES ASSUME Init PROVE Inv
  OBVIOUS
<1>1. \A p : ~IsPlace(p)
  BY DEF Init, IsPlace
<1>2. Places = {}
  BY <1>1, PlaceKinds
<1>3. \A c \in Clients : asking[c] = <<>>
  BY DEF Init
<1> QED
  BY <1>2, <1>3, InitType DEF Inv, OnePlaceEach, WaitsForPlace, Carries

LEMMA NextInv == Inv /\ [Next]_vars => Inv'
<1> SUFFICES ASSUME Inv, [Next]_vars PROVE Inv'
  OBVIOUS
<1>1. TypeOK'
  BY NextType DEF Inv
<1>2. OnePlaceEach' /\ WaitsForPlace' /\ Carries'
  <2>1. CASE \E c \in Clients : ClientAsks(c)
    BY <2>1, AskKeepsInv
  <2>2. CASE ProxyRequest
    BY <2>2, RequestKeepsInv
  <2>3. CASE ProxyReply
    BY <2>3, HearKeepsInv
  <2>4. CASE \E w \in Workers : ReceiveFrame(w)
    BY <2>4, ReceiveKeepsInv
  <2>5. CASE \E w \in Workers : SendReply(w)
    BY <2>5, ReplyKeepsInv
  <2>6. CASE UNCHANGED vars
    <3>1. Places' = Places
      BY <2>6 DEF vars, Places
    <3>2. \A p : ClientAt(p)' = ClientAt(p)
      BY <2>6 DEF vars, ClientAt
    <3>3. \A p : CarriesAt(p)' <=> CarriesAt(p)
      BY <2>6, <3>2 DEF vars, CarriesAt, LastFrame
    <3>4. asking' = asking
      BY <2>6 DEF vars
    <3> QED
      BY <3>1, <3>2, <3>3, <3>4 DEF Inv, OnePlaceEach, WaitsForPlace, Carries
  <2> QED
    BY <2>1, <2>2, <2>3, <2>4, <2>5, <2>6 DEF Next, zmq_proxy, rpcs_worker_thread
<1> QED
  BY <1>1, <1>2 DEF Inv

(* A client that waits has one request or reply under way, one that does not has
   none, for any number of clients, workers and frames: the DEALER's choice, the
   frames a REP socket holds back and the replies it refuses lose nothing and
   make nothing twice.                                                       *)
THEOREM OneRequestUnderWay == Spec => []OneUnderWay
<1>1. Inv => OneUnderWay
  <2> SUFFICES ASSUME Inv, NEW c \in Clients
               PROVE  Cardinality(UnderWay(c)) = IF asking[c] = <<>> THEN 0 ELSE 1
    BY DEF OneUnderWay
  <2>1. CASE asking[c] = <<>>
    <3>1. UnderWay(c) = {}
      BY <2>1 DEF Inv, WaitsForPlace, UnderWay
    <3> QED
      BY <2>1, <3>1, FS_EmptySet
  <2>2. CASE asking[c] # <<>>
    <3>1. PICK p \in Places : ClientAt(p) = c
      BY <2>2 DEF Inv, WaitsForPlace
    <3>2. UnderWay(c) = {p}
      BY <3>1 DEF Inv, OnePlaceEach, UnderWay
    <3> QED
      BY <2>2, <3>2, FS_Singleton
  <2> QED
    BY <2>1, <2>2
<1> QED
  BY <1>1, InitInv, NextInv, PTL DEF Spec

(* What a client hears is the promised reply to the last frame of the request it
   waits on, once, and nothing else: the detailed stack implements the abstract
   one, with the same asking and heard.                                      *)
THEOREM RequestReplyImplemented == Spec => ImplementsRequestReply
<1>1. Init => RequestReply!Init
  BY DEF Init, RequestReply!Init
<1>2. Inv /\ [Next]_vars => [RequestReply!Next]_RequestReply!vars
  <2> SUFFICES ASSUME Inv, [Next]_vars
               PROVE  [RequestReply!Next]_RequestReply!vars
    OBVIOUS
  <2>1. ASSUME NEW c \in Clients, ClientAsks(c)
        PROVE  RequestReply!Next
    <3>1. RequestReply!Ask(c)
      BY <2>1 DEF ClientAsks, RequestReply!Ask
    <3> QED
      BY <3>1 DEF RequestReply!Next
  <2>2. CASE ProxyReply
    <3> DEFINE r == Head(backend)
               c == r.client
               a == [request |-> asking[c], reply |-> PromisedReply(LastFrame(asking[c]))]
    <3>1. /\ c \in Clients /\ asking[c] \in Requests
          /\ r.reply = msg_handler(LastFrame(asking[c]))
      BY <2>2, HearKeepsInv
    <3>2. r.reply = PromisedReply(LastFrame(asking[c]))
      <4>1. LastFrame(asking[c]) \in Payloads
        BY <3>1, RequestProperties DEF LastFrame
      <4> QED
        BY <3>1, <4>1, PayloadsAssumption, HandlerKeepsPromise
    <3>3. a \in Answers
      BY <3>1 DEF Answers, LastFrame
    <3>4. a.request = asking[c] /\ a.reply = r.reply
      BY <3>2
    <3>5. /\ heard' = [heard EXCEPT ![c] = Append(@, r.reply)]
          /\ asking' = [asking EXCEPT ![c] = <<>>]
      BY <2>2 DEF ProxyReply
    <3>6. asking[c] # <<>>
      BY <3>1, RequestProperties
    <3> HIDE DEF a, r
    <3>7. RequestReply!Answer(c)
      BY <3>3, <3>4, <3>5, <3>6 DEF RequestReply!Answer
    <3> QED
      BY <3>1, <3>7 DEF RequestReply!Next
  <2>3. CASE \/ ProxyRequest
             \/ \E w \in Workers : rpcs_worker_thread(w)
             \/ UNCHANGED vars
    BY <2>3 DEF ProxyRequest, rpcs_worker_thread, ReceiveFrame, SendReply, vars,
                RequestReply!vars
  <2> QED
    BY <2>1, <2>2, <2>3 DEF Next, zmq_proxy
<1> QED
  BY <1>1, <1>2, InitInv, NextInv, PTL
     DEF Spec, ImplementsRequestReply, RequestReply!Spec
==============================================================================
