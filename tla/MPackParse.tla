------------------------------ MODULE MPackParse ------------------------------
(***************************************************************************)
(* A program that parses the messages of a stream, of a file or of a piece *)
(* of memory with a tree of mpack, one after the other, and looks at the   *)
(* nodes of the last one.  The bytes of a stream come as the read function *)
(* brings them: in pieces of any length, and not at all for a while.       *)
(***************************************************************************)
EXTENDS MPackNodeApi

CONSTANTS
  Cases,    \* [messages, input, start, blocking]: the input, and the tree as initialized
  NotUtf8,  \* those byte strings of the messages that are not UTF-8
  MaxPauses \* how often the read function brings nothing

Byte == 0 .. 255

\* A tree is as one of the mpack_tree_init functions leaves it.
ASSUME CasesAssumption ==
  \A case \in Cases :
    LET t == case.start
    IN  /\ t = [EmptyTree(t.data, t.max_size, t.max_nodes) EXCEPT !.stream = t.stream, !.pool = t.pool, !.err = t.err]
        /\ case.input \in Seq(Byte) /\ t.data \in Seq(Byte)
        /\ t.max_size \in 1 .. NoLimit /\ t.max_nodes \in 1 .. NoLimit
        /\ t.stream \in BOOLEAN /\ t.pool \in Nat /\ t.err \in {"ok", "bug", "invalid", "too_big"}
        /\ t.stream => t.data = <<>> /\ t.pool = 0

VARIABLES
  messages, \* those in the input: [elements, bytes, fault], an element being [tag, body]
  input,    \* the bytes of the stream the read function has not brought yet
  blocking, \* the program calls mpack_tree_parse, not mpack_tree_try_parse
  tree,     \* the tree
  parsed,   \* how many messages are parsed
  pauses,
  last      \* the accessor just called: name, argument, element, error and answer

vars == <<messages, input, blocking, tree, parsed, pauses, last>>

Nothing == [op |-> "none"]

\* An error ends the call; a message is counted when its call ends well.
Step(after) ==
  /\ tree' = IF after.err # "ok" THEN Return(after) ELSE after
  /\ parsed' = IF after.err = "ok" /\ after.state = "parsed" THEN parsed + 1 ELSE parsed

Parse ==
  /\ tree.stage = "idle" /\ tree.err = "ok" /\ parsed < Len(messages)
  /\ Step(mpack_tree_parse(tree))
  /\ UNCHANGED <<messages, input, blocking, pauses, last>>

ParseNode ==
  /\ tree.stage = "node"
  /\ Step(mpack_tree_parse_node(tree))
  /\ UNCHANGED <<messages, input, blocking, pauses, last>>

Reserving == tree.stage \in {"start", "head", "body"}

GoOn ==
  /\ Reserving /\ ~Waits(tree)
  /\ Step(Proceed(tree))
  /\ UNCHANGED <<messages, input, blocking, pauses, last>>

FillRefuses ==
  /\ Reserving /\ Waits(tree) /\ FillFails(tree)
  /\ Step(FillRefused(tree))
  /\ UNCHANGED <<messages, input, blocking, pauses, last>>

(* The read function brings what it brings, and at the end of the input an
   error.  mpack_tree_try_parse returns when it brings nothing; a stream that
   mpack_tree_parse reads blocks until there is something.                  *)
Fill ==
  /\ Reserving /\ Waits(tree) /\ ~FillFails(tree)
  /\ \E n \in 0 .. Lesser(Len(input), Capacity(tree) - Len(tree.data)) :
       LET enough == tree.possible + n >= tree.reserved
           filled == mpack_tree_reserve_fill(tree, SubSeq(input, 1, n))
           ended  == ~enough /\ n = Len(input)
       IN  /\ enough \/ ended \/ (~blocking /\ pauses < MaxPauses)
           /\ Step(IF ended THEN mpack_tree_flag_error(filled, "io") ELSE filled)
           /\ input' = SubSeq(input, n + 1, Len(input))
           /\ pauses' = IF enough \/ ended THEN pauses ELSE pauses + 1
  /\ UNCHANGED <<messages, blocking, last>>

------------------------------------------------------------------------------
Message == messages[Len(messages)].elements

(* The places of a tree's nodes, in the order of their bytes: children are
   put in front of what is still to be visited.                             *)
Preorder(of, root) ==
  LET Children(node) == [k \in 1 .. Elements(node.type, node.n) |-> Child(node.at, k - 1)]
      Visit(walk, i) == IF walk.todo = <<>> THEN walk
                        ELSE [seen |-> Append(walk.seen, Head(walk.todo)),
                              todo |-> Children(of.nodes[Head(walk.todo)]) \o Tail(walk.todo)]
  IN  FoldLeft(Visit, [seen |-> <<>>, todo |-> <<root>>], [i \in 1 .. Cardinality(DOMAIN of.nodes) |-> i]).seen

\* A key asked for is a number or a string.
Key(e) == [number |-> e.tag.type \in {"int", "uint"}, n |-> e.tag.n, str |-> e.body]
LookupKey(of, node, key) ==
  IF key.number THEN LookupNumber(of, node, key.n) ELSE LookupStr(of, node, key.str)

\* Every accessor, with its argument.
Perform(op, a, node) ==
  CASE op = "root"          -> mpack_tree_root(tree)
    [] op = "tag"           -> mpack_node_tag(tree, node)
    [] op = "type"          -> mpack_node_type(tree, node)
    [] op = "is_nil"        -> mpack_node_is_nil(tree, node)
    [] op = "is_missing"    -> mpack_node_is_missing(tree, node)
    [] op = "node_of"       -> NodeOf(tree, node, a)
    [] op = "real"          -> mpack_node_real(tree, node, a)
    [] op = "length"        -> mpack_node_length(tree, node, a)
    [] op = "bytes_of"      -> BytesOf(tree, node, a)
    [] op = "bool_match"    -> mpack_node_bool_match(tree, node, a)
    [] op = "integer"       -> mpack_node_integer(tree, node, a[1], a[2])
    [] op = "check_utf8"    -> mpack_node_check_utf8(tree, node, a)
    [] op = "copy_data"     -> mpack_node_copy_data(tree, node, a)
    [] op = "copy_utf8"     -> mpack_node_copy_utf8(tree, node, a)
    [] op = "copy_cstr"     -> mpack_node_copy_cstr(tree, node, a)
    [] op = "copy_utf8_cstr" -> mpack_node_copy_utf8_cstr(tree, node, a)
    [] op = "data_alloc"    -> mpack_node_data_alloc(tree, node, a)
    [] op = "cstr_alloc"    -> mpack_node_cstr_alloc(tree, node, a)
    [] op = "utf8_cstr_alloc" -> mpack_node_utf8_cstr_alloc(tree, node, a)
    [] op = "array_at"      -> mpack_node_array_at(tree, node, a)
    [] op = "map_at"        -> mpack_node_map_at(tree, node, a[1], a[2])
    [] op = "map"           -> mpack_node_wrap_lookup(LookupKey(tree, node, a))
    [] op = "map_optional"  -> mpack_node_wrap_lookup_optional(LookupKey(tree, node, a))
    [] op = "map_contains"  -> mpack_node_map_contains(LookupKey(tree, node, a))
    [] op = "enum_optional" -> mpack_node_enum_optional(tree, node, a)
    [] op = "enum"          -> mpack_node_enum(tree, node, a)

\* The program may have looked the node up before there was an error.
Place(k) == Preorder(tree, <<1, 1>>)[k]
Other == <<111, 116>>

Ask(op, a, k) ==
  LET p == Perform(op, a, IF k = 0 THEN MissingNode ELSE tree.nodes[Place(k)])
  IN  /\ tree' = p.t
      /\ last' = [op |-> op, arg |-> a, at |-> k, was |-> tree.err, err |-> p.t.err, got |-> p.got]

IntegerTypes == {<<IMin(n), IMax(n)>> : n \in {1, 2, 4, 8}} \union {<<0, UMax(n)>> : n \in {1, 2, 4, 8}}

\* The program asks a node, or the missing node, for anything, after an error too.
Access ==
  /\ ~tree.stream /\ tree.state = "parsed" /\ tree.stage = "idle" /\ parsed = Len(messages) /\ last = Nothing
  /\ \E k \in 0 .. Len(Message) :
       LET tag  == IF k = 0 THEN NilTag ELSE Message[k].tag
           body == IF k = 0 THEN <<>> ELSE Message[k].body
       IN  \/ \E op \in {"root", "tag", "type", "is_nil", "is_missing"} : Ask(op, 0, k)
           \/ \E types \in {{"nil"}, {"missing"}, {"bool"}} : Ask("node_of", types, k)
           \/ \E types \in {{"uint", "int", "float", "double"}, {"float"}, {"float", "double"}} : Ask("real", types, k)
           \/ \E types \in {{"str"}, {"bin"}, {"str", "bin"}, {"array"}, {"map"}} : Ask("length", types, k)
           \/ \E types \in {{"str"}, {"bin"}, {"str", "bin"}} : Ask("bytes_of", types, k)
           \/ \E value \in {0, 1} : Ask("bool_match", value, k)
           \/ \E range \in IntegerTypes : Ask("integer", range, k)
           \/ \E allow_null \in BOOLEAN : Ask("check_utf8", allow_null, k)
           \/ \E op \in {"copy_data", "copy_utf8", "data_alloc"}, n \in {tag.n, tag.n - 1} \cap 0 .. 99 : Ask(op, n, k)
           \/ \E op \in {"copy_cstr", "copy_utf8_cstr"}, n \in {tag.n, tag.n + 1} \cap 1 .. 99 : Ask(op, n, k)
           \/ \E op \in {"cstr_alloc", "utf8_cstr_alloc"}, n \in {tag.n, tag.n + 1} \cap 0 .. 99 : Ask(op, n, k)
           \/ \E n \in {0, tag.n, tag.n - 1} \cap 0 .. 9 :
                \/ Ask("array_at", n, k)
                \/ \E offset \in {0, 1} : Ask("map_at", <<n, offset>>, k)
           \/ \E op \in {"map", "map_optional", "map_contains"}, key \in Range([i \in DOMAIN Message |-> Key(Message[i])]) :
                Ask(op, key, k)
           \/ \E op \in {"enum", "enum_optional"}, str \in {body, <<>>} : Ask(op, <<Other, str>>, k)
  /\ UNCHANGED <<messages, input, blocking, parsed, pauses>>

Look ==
  /\ last # Nothing
  /\ last' = Nothing
  /\ UNCHANGED <<messages, input, blocking, tree, parsed, pauses>>

Init ==
  /\ \E case \in Cases : messages = case.messages /\ input = case.input /\ blocking = case.blocking /\ tree = case.start
  /\ parsed = 0 /\ pauses = 0
  /\ last = Nothing

Next == Parse \/ ParseNode \/ GoOn \/ FillRefuses \/ Fill \/ Access \/ Look

Spec == Init /\ [][Next]_vars
FairSpec == Spec /\ WF_vars(Parse) /\ WF_vars(ParseNode) /\ WF_vars(GoOn) /\ WF_vars(FillRefuses) /\ WF_vars(Fill)

------------------------------------------------------------------------------
\* The children that are not parsed yet, of every container on the stack.
Awaited(stack) == UNION {{level} \X (1 .. stack[level].left) : level \in DOMAIN stack}

(* The parser never reads past the bytes it holds: between nodes the bytes
   that may still become nodes are those not parsed yet less one for every
   child that containers on the stack still await; every string parsed lies
   within the bytes parsed, and the nodes of every container, open or not,
   within one page (mpack_tree_reserve_bytes, mpack_tree_parse_children).    *)
NodesInBounds ==
  /\ tree.stream => Len(tree.data) <= Lesser(tree.capacity, tree.max_size)
  /\ tree.state = "in_progress" /\ tree.stage # "start" /\ tree.err = "ok" =>
       /\ tree.possible >= 0
       /\ tree.possible = Len(tree.data) - tree.size - Cardinality(Awaited(tree.stack))
  /\ \A place \in DOMAIN tree.nodes :
       LET node == tree.nodes[place]
       IN  /\ place[2] <= tree.pages[place[1]]
           /\ node.type \in {"str", "bin"} => node.at + node.n <= tree.size
           /\ node.type \in {"array", "map"} /\ node.n > 0 =>
                node.at[2] + Elements(node.type, node.n) - 1 <= tree.pages[node.at[1]]

(* No node is written twice: until the next message begins, what is parsed
   stays as it is, however the places of the children that come after it are
   found (mpack_tree_parse_children, mpack_tree_parse_start).                *)
NodesStay ==
  [][tree'.stage # "start" =>
       \A place \in DOMAIN tree.nodes :
         place \in DOMAIN tree'.nodes /\ tree'.nodes[place] = tree.nodes[place]]_vars

(* At no time are there more nodes than the limit allows, those that a head
   has promised and nothing is known of yet included: what is counted again
   after a pause may refuse a message, but never lets one through
   (mpack_tree_parse_children).                                              *)
PromisesWithinLimit ==
  Cardinality(DOMAIN tree.nodes) + Cardinality(Awaited(tree.stack)) <= tree.max_nodes

\* Where the children of a node are.
ChildPlaces(node) == {Child(node.at, k) : k \in 0 .. Elements(node.type, node.n) - 1}

(* What is parsed is one tree, for any message: the root is there, and every
   child that a container announces; no node is the child of two containers or
   of none, the root of none, and no containers lie in a circle apart from the
   root, so that whoever follows the children meets every node once and comes to
   an end (mpack_tree_parse_children, mpack_tree_continue_parsing).          *)
NodesWhole ==
  tree.state = "parsed" =>
    LET root  == <<1, 1>>
        all   == DOMAIN tree.nodes
        Of(p) == ChildPlaces(tree.nodes[p])
    IN  /\ root \in all
        /\ \A p \in all : Of(p) \subseteq all \ {root}
        /\ \A p \in all : \A q \in all \ {p} : Of(p) \intersect Of(q) = {}
        /\ \A p \in all \ {root} : \E q \in all : p \in Of(q)
        /\ \A some \in SUBSET {p \in all \ {root} : Of(p) # {}} :
             some # {} => \E p \in some, q \in all \ some : p \in Of(q)

(* A tree that is parsed is the message: its nodes in the order of their
   bytes are the elements that were written, the bytes behind it are those of
   the messages after it, and it keeps the limits.  A parse fails for what is
   wrong with the message, for a limit, or a pool that is too small, and for
   nothing else, in whatever pieces its bytes came (mpack_tree_continue_parsing,
   mpack_tree_parse_start, mpack_tree_reserve_fill).                         *)
ParsesAlike ==
  /\ tree.state = "parsed" =>
       LET m      == messages[parsed]
           places == Preorder(tree, <<1, 1>>)
       IN  /\ m.fault = "none"
           /\ Len(places) = Len(m.elements)
           /\ \A i \in DOMAIN places :
                LET node == tree.nodes[places[i]]
                IN  /\ Tag(node.type, node.n) = m.elements[i].tag
                    /\ node.type \in {"str", "bin"} => Bytes(tree, node) = m.elements[i].body
           /\ tree.size = Len(m.bytes)
           /\ SubSeq(tree.data, tree.size + 1, Len(tree.data)) \o input
                = FlattenSeq([k \in 1 .. Len(messages) - parsed |-> messages[parsed + k].bytes])
           /\ tree.size <= tree.max_size /\ Len(places) <= tree.max_nodes
  /\ tree.err # "ok" /\ tree.state # "parsed" =>
       LET m == messages[parsed + 1]
       IN  \/ tree.err = m.fault
           \/ m.fault = "truncated" /\ tree.err = IF tree.stream THEN "io" ELSE "invalid"
           \/ /\ tree.err = "too_big"
              /\ \/ tree.max_size < NoLimit \/ tree.max_nodes < NoLimit
                 \/ tree.pool # 0 /\ Len(m.elements) > tree.pool

(* Where the children of element k are among the elements of a message: an
   element is over once all that it and its children await have come.       *)
After(m, k) ==
  LET Missing(end) == FoldLeft(LAMBDA n, e : n - 1 + Elements(e.tag.type, e.tag.n), 1, SubSeq(m, k, end))
  IN  1 + Min({end \in k .. Len(m) : Missing(end) = 0})

ChildAt(m, k, i) == FoldLeft(LAMBDA at, j : After(m, at), k + 1, [j \in 1 .. i |-> j])

\* What an accessor answers in a tree in error.
Empty(op, a) ==
  CASE op = "tag"    -> NilTag
    [] op = "type"   -> "nil"
    [] op = "is_nil" -> TRUE
    [] op \in {"is_missing", "map_contains"} -> FALSE
    [] op \in {"enum", "enum_optional"} -> Len(a)
    [] op \in {"root", "array_at", "map_at", "map", "map_optional"} -> NilNode
    [] op \in {"node_of", "real", "length", "bool_match", "integer", "check_utf8"} -> 0
    [] OTHER -> <<>>

(* What an accessor should answer for element k of a message, said from the
   elements alone; k is 0 for the missing node.                             *)
Want(op, a, m, k) ==
  LET g    == IF k = 0 THEN Tag("missing", 0) ELSE m[k].tag
      body == IF k = 0 THEN <<>> ELSE m[k].body
      Say(got)      == [err |-> "ok", got |-> got]
      Fail(e)       == [err |-> e, got |-> Empty(op, a)]
      If(ok, got)   == IF ok THEN Say(got) ELSE Fail("type")
      Text(null)    == g.type = "str" /\ body \notin NotUtf8 /\ (null \/ 0 \notin Range(body))
      Room(types, size, ok) == IF g.type \in types /\ g.n > size THEN Fail("too_big")
                               ELSE If(g.type \in types /\ ok, body)
      Sized(size, answer) == IF size < 1 THEN Fail("bug") ELSE answer
      NodeAt(i)     == tree.nodes[Place(ChildAt(m, k, i))]
      At(type, index, i) == IF g.type # type THEN Fail("type")
                            ELSE IF index < g.n THEN Say(NodeAt(i)) ELSE Fail("data")
      Same(e)       == IF a.number THEN e.tag.type \in {"uint", "int"} /\ e.tag.n = a.n
                                   ELSE e.tag.type = "str" /\ e.body = a.str
      keys          == {i \in 0 .. g.n - 1 : Same(m[ChildAt(m, k, 2 * i)])}
      ValueOf       == NodeAt(2 * (CHOOSE i \in keys : TRUE) + 1)
      InMap(none)   == IF g.type # "map" THEN Fail("type")
                       ELSE IF Cardinality(keys) > 1 THEN Fail("data")
                       ELSE IF keys = {} THEN none
                       ELSE Say(IF op = "map_contains" THEN TRUE ELSE ValueOf)
      Index         == IF g.type = "str" /\ body = a[1] THEN 0
                       ELSE IF g.type = "str" /\ body = a[2] THEN 1 ELSE 2
  IN CASE op = "root"           -> Say(tree.nodes[Place(1)])
       [] op = "tag"            -> Say(g)
       [] op = "type"           -> Say(g.type)
       [] op = "is_nil"         -> Say(g.type = "nil")
       [] op = "is_missing"     -> Say(k = 0)
       [] op \in {"node_of", "real", "length"} -> If(g.type \in a, g.n)
       [] op = "bytes_of"       -> If(g.type \in a, body)
       [] op = "bool_match"     -> If(g = Tag("bool", a), 0)
       [] op = "integer"        -> If(g.type \in {"uint", "int"} /\ a[1] <= g.n /\ g.n <= a[2], g.n)
       [] op = "check_utf8"     -> If(Text(a), 0)
       [] op \in {"copy_data", "data_alloc"} -> Room({"str", "bin"}, a, TRUE)
       [] op = "copy_utf8"      -> Room({"str"}, a, Text(TRUE))
       [] op = "copy_cstr"      -> Room({"str"}, a - 1, 0 \notin Range(body))
       [] op = "copy_utf8_cstr" -> Room({"str"}, a - 1, Text(FALSE))
       [] op = "cstr_alloc"     -> Sized(a, Room({"str"}, a - 1, 0 \notin Range(body)))
       [] op = "utf8_cstr_alloc" -> Sized(a, Room({"str"}, a - 1, Text(FALSE)))
       [] op = "array_at"       -> At("array", a, a)
       [] op = "map_at"         -> At("map", a[1], 2 * a[1] + a[2])
       [] op = "map"            -> InMap(Fail("data"))
       [] op = "map_optional"   -> InMap(Say(MissingNode))
       [] op = "map_contains"   -> InMap(Say(FALSE))
       [] op = "enum_optional"  -> Say(Index)
       [] op = "enum"           -> IF Index = 2 THEN [err |-> "type", got |-> 2] ELSE Say(Index)

(* Every accessor of a tree without an error answers what the message says of
   the element, or flags the error its documentation names
   (mpack_node_map_str_impl, mpack_node_copy_cstr, mpack_node_wrap_lookup_optional). *)
AccessorsAnswer ==
  last # Nothing /\ last.was = "ok" =>
    LET want == Want(last.op, last.arg, Message, last.at)
    IN  last.err = want.err /\ last.got = want.got

(* An error once flagged stays what it is, and an accessor that ends with one,
   its own or an earlier one, answers nothing: whatever the order in which the
   program asks, and of whatever node, it never takes what is left of a failed
   tree for an answer (mpack_tree_flag_error, mpack_node_map_str_impl).      *)
ErrorsSilence ==
  last # Nothing =>
    /\ last.was # "ok" => last.err = last.was
    /\ last.err # "ok" => last.got = Empty(last.op, last.arg)

(* Parsing comes to an end: if the program calls again after each pause and the
   stream does not pause for ever, every message is parsed or an error is
   flagged (mpack_tree_try_parse, mpack_tree_reserve_fill).                  *)
ParseEnds == <>(tree.err # "ok" \/ parsed = Len(messages))

(* mpack.h:7076: "Maximum allowances for message size and node count must be
   specified in this function": they are of a message.                       *)
WithinLimitsParsed ==
  tree.err = "too_big" =>
    LET m == messages[parsed + 1] IN Len(m.bytes) > tree.max_size \/ Len(m.elements) > tree.max_nodes
==============================================================================
