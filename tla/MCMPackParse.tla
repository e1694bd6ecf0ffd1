----------------------------- MODULE MCMPackParse -----------------------------
(***************************************************************************)
(* Instances of MPackParse: messages, the ways they come, and the limits.  *)
(***************************************************************************)
EXTENDS MPackParse

Scalar(type, n)  == [tag |-> Tag(type, n), body |-> <<>>]
Text(type, body) == [tag |-> Tag(type, Len(body)), body |-> body]
Ok  == <<111, 107>>
Nul == <<97, 0, 98>>
Cut == <<\he2, \h82>>
MCNotUtf8 == {Cut}
Letters(n) == [i \in 1 .. n |-> 97 + (i % 26)]

Encoded(elements) == FlattenSeq([i \in DOMAIN elements |-> Encode(elements[i].tag) \o elements[i].body])
Whole(elements)   == [elements |-> elements, bytes |-> Encoded(elements), fault |-> "none"]
Broken(bytes, fault) == [elements |-> <<Scalar("nil", 0)>>, bytes |-> bytes, fault |-> fault]

Nil == Scalar("nil", 0)

Trees ==
  { <<Nil>>, <<Text("str", Letters(9))>>, <<Scalar("uint", 70000)>>, <<Scalar("array", 0)>>,
    <<Scalar("array", 3), Scalar("int", -7), Scalar("map", 1), Text("str", Ok), Scalar("array", 1), Nil,
      Scalar("double", 5)>>,
    <<Scalar("map", 2), Text("str", Ok), Text("bin", Letters(3)), Scalar("uint", 200), Scalar("array", 0)>>,
    <<Scalar("array", 2), Scalar("array", 5), Nil, Scalar("bool", 1), Nil, Scalar("float", -2), Scalar("int", -130),
      Scalar("map", 2), Nil, Nil, Nil, Scalar("uint", 65536)>> }

\* Trees whose nodes are asked for everything: keys of every kind, twice, and bad strings.
Probed ==
  { <<Scalar("map", 4), Scalar("uint", 7), Text("str", Ok), Text("str", Ok), Scalar("bool", 1),
      Scalar("int", -7), Nil, Text("bin", Ok), Scalar("array", 2), Scalar("uint", 300), Scalar("float", 2)>>,
    <<Scalar("map", 3), Text("str", Ok), Scalar("uint", 127), Text("str", Ok), Text("str", Nul),
      Scalar("uint", 9), Text("str", Cut)>>,
    <<Scalar("array", 4), Scalar("int", -129), Scalar("uint", 65536), Scalar("double", 1), Text("str", <<>>)>> }

LongArray == <<Scalar("array", 17)>> \o [i \in 1 .. 17 |-> Nil]
\* Containers one in another that share a page which is not the first.
Paged ==
  <<Scalar("array", 6), Nil, Nil, Nil, Nil, Scalar("array", 3), Scalar("array", 2), Scalar("uint", 200), Nil, Nil, Nil,
    Scalar("map", 1), Text("str", Ok), Scalar("array", 3), Nil, Nil, Nil>>
LongText  == <<Text("str", Letters(33))>>

Faults ==
  { Broken(<<\hc1>>, "invalid"), Broken(<<\h92, \hc0, \hd4, 1, 0>>, "unsupported"),
    Broken(<<\h93, \hc0, \ha2, 65>>, "truncated"), Broken(<<\hcd, 1>>, "truncated"),
    Broken(<<\hdd, 0, \h0f, 0, 0>>, "truncated"), Broken(<<\hdb, 0, 0, 0, 9, 65>>, "truncated") }

Case(msgs, start, sync) ==
  [messages |-> msgs, blocking |-> sync, start |-> start,
   input |-> IF start.stream THEN FlattenSeq([i \in DOMAIN msgs |-> msgs[i].bytes]) ELSE <<>>]

AllBytes(msgs) == FlattenSeq([i \in DOMAIN msgs |-> msgs[i].bytes])
Free == mpack_tree_init_stream(NoLimit - 1, NoLimit)

Streams ==
  { Case(<<Whole(a), Whole(b)>>, Free, sync) :
      a \in Trees, b \in {<<Nil>>, <<Scalar("array", 2), Nil, Text("str", Ok)>>}, sync \in BOOLEAN }
  \union { Case(<<Whole(a)>>, Free, FALSE) : a \in {LongArray, Paged} }
  \union { Case(<<Whole(LongText), Whole(<<Nil>>)>>, Free, TRUE) }
  \union { Case(<<Whole(<<Nil>>), f>>, Free, sync) : f \in Faults, sync \in BOOLEAN }
  \union { Case(<<Whole(a)>>, mpack_tree_init_stream(size, nodes), FALSE) :
             a \in Trees, size \in {9, 10, 14}, nodes \in {5, 7} }

Memory ==
  { Case(<<Whole(a), Whole(b)>>, mpack_tree_init_data(AllBytes(<<Whole(a), Whole(b)>>)), TRUE) :
      a \in Trees \union {LongArray, Paged, LongText}, b \in Probed }
  \union { Case(<<Whole(a)>>, mpack_tree_init_pool(Encoded(a), pool), TRUE) :
             a \in Trees \union {LongArray, Paged}, pool \in {1, 6, 7, 11, 12, 17, 18} }
  \union { Case(<<f>>, mpack_tree_init_data(f.bytes), TRUE) : f \in Faults }
  \union { Case(<<Whole(a)>>, mpack_tree_init_stdfile(Encoded(a), max), FALSE) :
             a \in {<<Text("str", Letters(9))>>}, max \in {0, 10} }
  \union { Case(<<Broken(<<>>, "invalid")>>, mpack_tree_init_stdfile(<<>>, 0), TRUE),
           Case(<<Broken(Ok, "too_big")>>, mpack_tree_init_stdfile(Ok, 1), TRUE),
           Case(<<Broken(<<>>, "bug")>>, mpack_tree_init_pool(<<\hc0>>, 0), TRUE) }

TreeCases == Streams \union Memory

\* A message that is within the limits, and comes in pieces.
LimitCases ==
  { Case(<<Whole(<<Text("str", Letters(9))>>)>>, mpack_tree_init_stream(10, 1), FALSE),
    Case(<<Whole(<<Scalar("array", 2), Nil, Scalar("array", 1), Nil>>)>>, mpack_tree_init_stream(99, 4), FALSE) }
==============================================================================
