------------------------------ MODULE MPackTree ------------------------------
(***************************************************************************)
(* The tree parser of mpack (rpcserver/mpack/mpack.c) as operators on the  *)
(* state of a tree: the bytes it holds, how far they are parsed, the stack *)
(* of open containers and the nodes.  A node lies at a place of a page, or *)
(* of the caller's pool, which is page 1; the children of a container lie  *)
(* in one piece.  Bytes are reserved, and may be missing, in three stages: *)
(* at the start of a message, for the head of a node, and for its body.    *)
(***************************************************************************)
EXTENDS MPackFormat

CONSTANTS
  NodesPerPage,  \* MPACK_NODES_PER_PAGE
  BufferCapacity \* MPACK_BUFFER_SIZE

ASSUME TreeAssumption == NodesPerPage \in Nat \ {0} /\ BufferCapacity \in Nat \ {0}

NoLimit == 2 ^ 25 \* SIZE_MAX

mpack_tree_flag_error(t, e) == [t EXCEPT !.err = IF @ = "ok" THEN e ELSE @]

\* mpack_tree_init_clear with set_limits: no read function, no pool.
EmptyTree(data, max_size, max_nodes) ==
  [data |-> data, size |-> 0, node_count |-> 0, max_size |-> max_size, max_nodes |-> max_nodes,
   stream |-> FALSE, capacity |-> 0, pool |-> 0, err |-> "ok",
   state |-> "not_started", stage |-> "idle", reserved |-> 0, possible |-> 0, stack |-> <<>>,
   pages |-> <<>>, current |-> 1, nodes_left |-> 0, nodes |-> <<>>]

mpack_tree_init_data(data) == EmptyTree(data, NoLimit, NoLimit)

mpack_tree_init_pool(data, pool) ==
  LET t == [EmptyTree(data, NoLimit, NoLimit) EXCEPT !.pool = pool]
  IN  IF pool = 0 THEN mpack_tree_flag_error([t EXCEPT !.data = <<>>], "bug") ELSE t

mpack_tree_init_stream(max_size, max_nodes) ==
  [EmptyTree(<<>>, max_size, max_nodes) EXCEPT !.stream = TRUE]

\* mpack_tree_init_stdfile: the whole file is read first; max_bytes 0 is no limit.
mpack_tree_init_stdfile(file, max_bytes) ==
  CASE file = <<>> -> mpack_tree_flag_error(mpack_tree_init_data(<<>>), "invalid")
    [] max_bytes # 0 /\ Len(file) > max_bytes -> mpack_tree_flag_error(mpack_tree_init_data(<<>>), "too_big")
    [] OTHER -> mpack_tree_init_data(file)

------------------------------------------------------------------------------
\* mpack_tree_parse_node_contents: what the type byte says, in the order of the switch.
FixHead(byte) ==
  CASE byte <= \h7f          -> Lead("uint", 0, byte)
    [] byte >= \he0          -> Lead("int", 0, byte - 256)
    [] byte \in \h80 .. \h8f -> Lead("map", 0, byte % 16)
    [] byte \in \h90 .. \h9f -> Lead("array", 0, byte % 16)
    [] byte \in \ha0 .. \hbf -> Lead("str", 0, byte % 32)

WideHead(byte) ==
  CASE byte = \hc0           -> Lead("nil", 0, 0)
    [] byte \in \hc2 .. \hc3 -> Lead("bool", 0, byte % 2)
    [] byte \in \hc4 .. \hc6 -> Lead("bin", 2 ^ (byte - \hc4), 0)
    [] byte = \hca           -> Lead("float", 4, 0)
    [] byte = \hcb           -> Lead("double", 8, 0)
    [] byte \in \hcc .. \hcf -> Lead("uint", 2 ^ (byte - \hcc), 0)
    [] byte \in \hd0 .. \hd3 -> Lead("int", 2 ^ (byte - \hd0), 0)

LongHead(byte) ==
  CASE byte \in \hd9 .. \hdb -> Lead("str", 2 ^ (byte - \hd9), 0)
    [] byte \in \hdc .. \hdd -> Lead("array", 2 ^ (byte - \hdb), 0)
    [] byte \in \hde .. \hdf -> Lead("map", 2 ^ (byte - \hdd), 0)
    [] byte = \hc1           -> Lead("invalid", 0, 0)
    [] OTHER                 -> Lead("unsupported", 0, 0)

NodeHead(byte) ==
  IF byte <= \hbf \/ byte >= \he0 THEN FixHead(byte)
  ELSE IF byte \in {\hc0} \union \hc2 .. \hc6 \union \hca .. \hd3 THEN WideHead(byte) ELSE LongHead(byte)

------------------------------------------------------------------------------
Waits(t) == t.reserved > t.possible
Child(place, k) == <<place[1], place[2] + k>>

\* Where the number of children of the node that is parsed lies: its own head says it.
Announced(t) == LET head == NodeHead(t.data[t.size + 1])
                    number == SubSeq(t.data, t.size + 2, t.size + 1 + head.width)
                IN  IF head.width = 0 THEN head.n
                    ELSE IF head.type \in {"int", "float", "double"} THEN LoadI(number) ELSE LoadU(number)

Put(nodes, place, node) == [p \in DOMAIN nodes \union {place} |-> IF p = place THEN node ELSE nodes[p]]

Elements(type, n) == CASE type = "array" -> n [] type = "map" -> 2 * n [] OTHER -> 0

ChildParsed(stack, level) == [stack EXCEPT ![level] = [child |-> Child(@.child, 1), left |-> @.left - 1]]

\* mpack_tree_parse_node behind the contents, and the end of the loop in continue_parsing.
PopFinished(stack) ==
  LET open == {i \in DOMAIN stack : \E j \in i .. Len(stack) : stack[j].left > 0}
  IN  SubSeq(stack, 1, Cardinality(open))

\* Mutant: the children of a map are counted once.
FinishNode_CountsPairs(t, level, node) ==
  LET stack == PopFinished(ChildParsed(t.stack, level))
  IN  [t EXCEPT !.nodes = Put(@, t.stack[level].child, node),
                !.possible = @ - t.reserved,
                !.size = @ + t.reserved + 1 - (IF node.type \in {"array", "map"} THEN node.n ELSE 0),
                !.stack = stack,
                !.stage = IF stack = <<>> THEN "idle" ELSE "node",
                !.state = IF stack = <<>> THEN "parsed" ELSE @]

FinishNode(t, level, node) ==
  LET stack == PopFinished(ChildParsed(t.stack, level))
  IN  [t EXCEPT !.nodes = Put(@, t.stack[level].child, node),
                !.possible = @ - t.reserved,
                !.size = @ + t.reserved + 1 - Elements(node.type, node.n),
                !.stack = stack,
                !.stage = IF stack = <<>> THEN "idle" ELSE "node",
                !.state = IF stack = <<>> THEN "parsed" ELSE @]

(* The children of a container get places in the current page if it has them,
   in a page of their own if they are many or much of the page would be
   wasted, else in a new page.                                              *)
PlaceFor(t, total) ==
  IF total <= t.nodes_left THEN <<t.current, t.pages[t.current] - t.nodes_left + 1>> ELSE <<Len(t.pages) + 1, 1>>

\* Mutant: a new page is taken to have all its places left.
Grown_Full(t, total) ==
  CASE total <= t.nodes_left -> [t EXCEPT !.nodes_left = @ - total]
    [] total > t.nodes_left /\ (total > NodesPerPage \/ t.nodes_left > NodesPerPage \div 8) ->
         [t EXCEPT !.pages = Append(@, total)]
    [] OTHER -> [t EXCEPT !.pages = Append(@, NodesPerPage), !.current = Len(t.pages) + 1,
                          !.nodes_left = NodesPerPage]

Grown(t, total) ==
  CASE total <= t.nodes_left -> [t EXCEPT !.nodes_left = @ - total]
    [] total > t.nodes_left /\ (total > NodesPerPage \/ t.nodes_left > NodesPerPage \div 8) ->
         [t EXCEPT !.pages = Append(@, total)]
    [] OTHER -> [t EXCEPT !.pages = Append(@, NodesPerPage), !.current = Len(t.pages) + 1,
                          !.nodes_left = NodesPerPage - total]

\* Mutant: the child that is next is not counted.
Opened_Short(t, total) ==
  IF total = 0 THEN Grown(t, total)
  ELSE [Grown(t, total) EXCEPT !.stack = Append(@, [child |-> PlaceFor(t, total), left |-> total - 1])]

Opened(t, total) ==
  IF total = 0 THEN Grown(t, total)
  ELSE [Grown(t, total) EXCEPT !.stack = Append(@, [child |-> PlaceFor(t, total), left |-> total])]

\* mpack_tree_parse_children once the bytes are there; a pool cannot grow.
mpack_tree_parse_children(t, type, n) ==
  LET total == Elements(type, n)
  IN  IF total > t.nodes_left /\ t.pool # 0 THEN mpack_tree_flag_error(t, "too_big")
      ELSE FinishNode(Opened(t, total), Len(t.stack), [type |-> type, n |-> n, at |-> PlaceFor(t, total)])

\* The body of a node is there: the bytes of a string, one byte for each child.
BodyThere(t) ==
  LET type == NodeHead(t.data[t.size + 1]).type
      n    == Announced(t)
  IN  IF type \in {"array", "map"} THEN mpack_tree_parse_children(t, type, n)
      ELSE FinishNode(t, Len(t.stack), [type |-> type, n |-> n,
             at |-> IF type \in {"str", "bin"} THEN t.size + t.reserved + 1 - n ELSE 0])

\* Mutant: a map has as many nodes as pairs.
HeadThere_CountsPairs(t) ==
  LET type  == NodeHead(t.data[t.size + 1]).type
      n     == Announced(t)
      nodes == t.node_count + (IF type \in {"array", "map"} THEN n ELSE 0)
      body  == CASE type \in {"array", "map"} -> Elements(type, n) [] type \in {"str", "bin"} -> n [] OTHER -> 0
      counted == [t EXCEPT !.node_count = nodes, !.reserved = @ + body, !.stage = "body"]
  IN  IF type \in {"array", "map"} /\ nodes > t.max_nodes THEN mpack_tree_flag_error(t, "too_big") ELSE counted

\* mpack_tree_reserve_bytes for what the head announces.
HeadThere(t) ==
  LET type  == NodeHead(t.data[t.size + 1]).type
      n     == Announced(t)
      nodes == t.node_count + Elements(type, n)
      body  == CASE type \in {"array", "map"} -> Elements(type, n) [] type \in {"str", "bin"} -> n [] OTHER -> 0
      counted == [t EXCEPT !.node_count = nodes, !.reserved = @ + body, !.stage = "body"]
  IN  IF type \in {"array", "map"} /\ nodes > t.max_nodes THEN mpack_tree_flag_error(t, "too_big") ELSE counted

\* A node is begun, or begun again after a pause: nothing is reserved for it yet.
mpack_tree_parse_node(t) ==
  LET head == NodeHead(t.data[t.size + 1])
  IN  IF head.type \in {"invalid", "unsupported"} THEN mpack_tree_flag_error(t, head.type)
      ELSE [t EXCEPT !.reserved = head.width, !.stage = "head"]

\* mpack_tree_parse_start once there is a byte: the first page, and the root on the stack.
StartThere(t) ==
  LET first == IF t.pool = 0 THEN NodesPerPage ELSE t.pool
  IN  [t EXCEPT !.possible = @ - 1, !.node_count = 1, !.pages = <<first>>, !.current = 1,
                !.nodes_left = first - 1, !.stack = <<[child |-> <<1, 1>>, left |-> 1]>>, !.stage = "node"]

\* Mutant: the bytes of the message before are not moved away.
mpack_tree_parse_start_Stays(t) ==
  [t EXCEPT !.size = 0, !.node_count = 0, !.nodes = <<>>, !.pages = <<>>, !.stack = <<>>,
            !.state = "in_progress", !.stage = "start", !.reserved = 1, !.possible = Len(t.data)]

\* The nodes of the message before go, its bytes make room for the next one.
mpack_tree_parse_start(t) ==
  [t EXCEPT !.data = SubSeq(@, t.size + 1, Len(@)), !.size = 0, !.node_count = 0,
            !.nodes = <<>>, !.pages = <<>>, !.stack = <<>>, !.state = "in_progress", !.stage = "start",
            !.reserved = 1, !.possible = Len(t.data) - t.size]

\* What is reserved is there.
Proceed(t) ==
  CASE t.stage = "start" -> StartThere(t)
    [] t.stage = "head"  -> HeadThere(t)
    [] t.stage = "body"  -> BodyThere(t)

------------------------------------------------------------------------------
\* The call returns without a tree: a message that was not started is not in progress.
Return(t) == [t EXCEPT !.stage = "idle", !.state = IF t.stage = "start" THEN "not_started" ELSE @]

FillFails(t) == Len(t.data) + t.reserved > t.max_size \/ ~t.stream

\* The part of mpack_tree_reserve_fill before the read function.
FillRefused(t) ==
  Return(mpack_tree_flag_error(t, IF Len(t.data) + t.reserved > t.max_size THEN "too_big" ELSE "invalid"))

\* Mutant: the buffer keeps its first capacity.
Capacity_Fixed(t) == IF t.capacity = 0 THEN Lesser(BufferCapacity, t.max_size) ELSE t.capacity

\* The capacity doubles until the bytes fit, up to the limit.
Capacity(t) ==
  LET need  == Len(t.data) + t.reserved
      start == IF t.capacity = 0 THEN BufferCapacity ELSE t.capacity
      k     == CHOOSE k \in 0 .. 25 : start * 2 ^ k >= need /\ \A j \in 0 .. k - 1 : start * 2 ^ j < need
  IN  IF need <= t.capacity THEN t.capacity ELSE Lesser(start * 2 ^ k, t.max_size)

(* mpack_tree_reserve_fill, bytes being all that its read function brings: it
   is called until there is enough, or until it brings nothing.             *)
mpack_tree_reserve_fill(t, bytes) ==
  LET r == [t EXCEPT !.capacity = Capacity(t), !.data = @ \o bytes, !.possible = @ + Len(bytes)]
  IN  IF Waits(r) THEN Return(r) ELSE r

\* A try of mpack_tree_parse or mpack_tree_try_parse.
mpack_tree_parse(t) ==
  IF t.state = "in_progress" THEN [t EXCEPT !.stage = "node"] ELSE mpack_tree_parse_start(t)
==============================================================================
